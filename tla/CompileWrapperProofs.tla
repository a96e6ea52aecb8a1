------------------------ MODULE CompileWrapperProofs ------------------------
(* Proofs about CompileWrapper, for any number of jobs, any sharing of file *)
(* names among them and every setting of the wrapper.                       *)
EXTENDS CompileWrapper, FiniteSetTheorems, FunctionTheorems, FiniteFacts, TLAPS

-----------------------------------------------------------------------------
(* The inductive invariant.  The records file is a log that several jobs    *)
(* append to and the object files are shared by name, so what a job has     *)
(* left behind is told from where it is: before its row, after it, or after *)
(* its object.                                                              *)

HasRow(j) == \E i \in DOMAIN records : records[i].job = j

\* A job that only links never enters the compile path, and no other links.
LinksOnlyLink ==
    /\ \A j \in Links : pc[j] \in {"waiting", "link", "ok", "failed", "killed"}
    /\ \A j \in Compiles : pc[j] # "link"

\* Where a job stands with its record.
StatusFitsPlace ==
    \A j \in Jobs : /\ pc[j] \in Recording => status[j] \in Statuses
                    /\ pc[j] = "direct" => status[j] # "pass"

\* A job has no row before it wrote one, and one row from then on.
NoRowYet ==
    \A i \in DOMAIN records : records[i].job \in Jobs =>
        /\ pc[records[i].job] \in {"direct", "ok", "failed", "killed"}
        /\ records[i].status = status[records[i].job]

OneRowEach ==
    \A h, i \in DOMAIN records :
        records[h].job \in Jobs /\ records[h].job = records[i].job => h = i

RowThen ==
    \A j \in Compiles : pc[j] \in {"direct", "ok"} => HasRow(j)

\* An object lies under the name of the job that made it, which is recording
\* it, was killed over that, or has a row of a status that fits.
ObjectFitsStatus ==
    \A k \in Keys : object[k] # None =>
        LET j == object[k].by
        IN  /\ j \in Compiles /\ Key[j] = k
            /\ object[k].from = "optimized" =>
                  /\ status[j] = "pass"
                  /\ pc[j] \in Recording \cup {"ok", "killed"}
            /\ object[k].from = "direct" =>
                  /\ status[j] # "pass"
                  /\ pc[j] = "ok"

IInv ==
    /\ TypeOK
    /\ LinksOnlyLink
    /\ StatusFitsPlace
    /\ NoRowYet
    /\ OneRowEach
    /\ RowThen
    /\ ObjectFitsStatus

-----------------------------------------------------------------------------
(* Initial states and types. *)

Places == Ended \cup Recording \cup
              {"link", "ir", "sidecar", "startpass", "pass", "passend", "hung", "lower", "direct"}

\* The places of a job that has no record and no object yet.
EarlyPlaces == {"waiting", "link", "ir", "sidecar", "startpass", "pass", "passend", "hung", "lower"}

\* A build that has not begun satisfies the inductive invariant.
LEMMA InitInv == Init => IInv
<1> SUFFICES ASSUME Init PROVE IInv
  OBVIOUS
<1>1. TypeOK
  <2>1. mode \in Modes /\ Fallback \in BOOLEAN /\ RecordIr \in BOOLEAN /\ exists \in BOOLEAN /\ overlap \in BOOLEAN
    BY Zenon DEF Init
  <2>2. pc \in [Jobs -> Places]
    BY DEF Init, Ended, Places
  <2>3. status \in [Jobs -> Statuses \cup {None}]
    BY DEF Init
  <2>4. object \in [Keys -> {None} \cup [by : Jobs, from : {"optimized", "direct"}]]
    BY DEF Init
  <2>5. log \in [Keys -> {None} \cup [by : Jobs, total : Nat]]
    BY DEF Init
  <2>6. records \in Seq({Header} \cup [job : Jobs, status : Statuses])
    BY DEF Init
  <2> QED
    BY <2>1, <2>2, <2>3, <2>4, <2>5, <2>6 DEF TypeOK, Places
<1>2. LinksOnlyLink /\ StatusFitsPlace
  BY WrapperAssumption DEF Init, LinksOnlyLink, StatusFitsPlace, Recording, Compiles
<1>3. NoRowYet /\ OneRowEach /\ RowThen /\ ObjectFitsStatus
  BY DEF Init, NoRowYet, OneRowEach, RowThen, ObjectFitsStatus, Compiles
<1> QED
  BY <1>1, <1>2, <1>3 DEF IInv

\* What every command before the record does, up to the object: the job goes
\* on to a place before its row, or gives up, or begins to record, or a link
\* ends.
Advance(j, l, s) ==
    /\ pc[j] \in EarlyPlaces
    /\ pc' = [pc EXCEPT ![j] = l]
    /\ status' = [status EXCEPT ![j] = s]
    /\ \/ l \in EarlyPlaces \cup {"failed"} /\ s = status[j]
       \/ l = "checkheader" /\ s \in Statuses
       \/ l = "ok" /\ s = status[j] /\ j \in Links
    /\ j \in Links => l \in {"waiting", "link", "ok", "failed"}
    /\ j \notin Links => l # "link"
    /\ records' = records

\* Such a command keeps the part of the invariant that is about places,
\* statuses and rows.
LEMMA AdvanceRows ==
    ASSUME IInv, NEW j \in Jobs, NEW l, NEW s, Advance(j, l, s)
    PROVE  /\ pc' \in [Jobs -> Places] /\ status' \in [Jobs -> Statuses \cup {None}]
           /\ LinksOnlyLink' /\ StatusFitsPlace' /\ NoRowYet' /\ OneRowEach' /\ RowThen'
<1> USE DEF IInv, TypeOK
<1>1. pc' \in [Jobs -> Places] /\ status' \in [Jobs -> Statuses \cup {None}]
  BY DEF Advance, Places, EarlyPlaces, Ended, Recording
<1>2. LinksOnlyLink'
  BY WrapperAssumption DEF Advance, LinksOnlyLink, Compiles
<1>3. StatusFitsPlace'
  BY DEF Advance, StatusFitsPlace, EarlyPlaces, Recording
<1>4. NoRowYet' /\ OneRowEach'
  BY DEF Advance, NoRowYet, OneRowEach, EarlyPlaces
<1>5. RowThen'
  BY DEF Advance, RowThen, HasRow, EarlyPlaces, Compiles
<1> QED
  BY <1>1, <1>2, <1>3, <1>4, <1>5

\* It keeps the whole invariant when it leaves the objects alone.
LEMMA AdvanceInv ==
    ASSUME IInv, NEW j \in Jobs, NEW l, NEW s, Advance(j, l, s),
           UNCHANGED <<settings, object>>,
           exists' \in BOOLEAN, overlap' \in BOOLEAN,
           log' \in [Keys -> {None} \cup [by : Jobs, total : Nat]]
    PROVE  IInv'
<1>1. LinksOnlyLink' /\ StatusFitsPlace' /\ NoRowYet' /\ OneRowEach' /\ RowThen'
  BY AdvanceRows
<1>2. TypeOK'
  BY AdvanceRows DEF IInv, TypeOK, Advance, settings, Places
<1>3. ObjectFitsStatus'
  BY DEF IInv, TypeOK, ObjectFitsStatus, Advance, EarlyPlaces, Recording, Compiles
<1> QED
  BY <1>1, <1>2, <1>3 DEF IInv

-----------------------------------------------------------------------------
(* The commands before the record. *)

\* A fallback records or gives up.
LEMMA FallBackAdvances ==
    ASSUME IInv, NEW j \in Compiles, NEW r \in Statuses, pc[j] \in EarlyPlaces,
           FallBack(j, r), records' = records
    PROVE  (\E l, s : Advance(j, l, s)) /\ overlap' \in BOOLEAN
<1> USE DEF IInv, TypeOK
<1>1. CASE Fallback
  <2>1. Advance(j, "checkheader", r)
    BY <1>1 DEF FallBack, Record, Goto, Advance, Compiles
  <2> QED
    BY <1>1, <2>1 DEF FallBack, Record
<1>2. CASE ~Fallback
  <2>1. Advance(j, "failed", status[j])
    BY <1>2 DEF FallBack, Goto, Advance, Compiles
  <2> QED
    BY <1>2, <2>1 DEF FallBack
<1> QED
  BY <1>1, <1>2

\* Moving on to another command of the compile path.
LEMMA GotoAdvances ==
    ASSUME IInv, NEW j \in Compiles, NEW l \in EarlyPlaces \ {"link"}, pc[j] \in EarlyPlaces,
           Goto(j, l), UNCHANGED <<status, overlap, records>>
    PROVE  (\E m, s : Advance(j, m, s)) /\ overlap' \in BOOLEAN
<1>1. Advance(j, l, status[j])
  BY DEF IInv, TypeOK, Goto, Advance, Compiles
<1> QED
  BY <1>1 DEF IInv, TypeOK

\* A job that is at a command of the compile path compiles.
LEMMA CompilePath ==
    ASSUME IInv, NEW j \in Jobs,
           pc[j] \notin {"waiting", "link", "ok", "failed", "killed"}
    PROVE  j \in Compiles
  BY DEF IInv, LinksOnlyLink, Compiles

\* make starts a job.
LEMMA StartInv == ASSUME IInv, NEW j \in Jobs, Start(j) PROVE IInv'
<1> USE DEF IInv, TypeOK
<1>1. pc[j] \in EarlyPlaces /\ pc[j] = "waiting"
  BY DEF Start, EarlyPlaces
<1>2. (\E l, s : Advance(j, l, s)) /\ overlap' \in BOOLEAN
  <2>1. CASE j \in Links
    <3>1. Advance(j, "link", status[j]) /\ overlap' = overlap
      BY <1>1, <2>1 DEF Start, Advance, Goto, EarlyPlaces
    <3> QED
      BY <3>1
  <2>2. CASE j \notin Links /\ mode = "desan"
    BY <1>1, <2>2, GotoAdvances DEF Start, Compiles, EarlyPlaces
  <2>3. CASE j \notin Links /\ mode = "native"
    <3>1. Advance(j, "checkheader", "direct-native") /\ overlap' \in BOOLEAN
      BY <1>1, <2>3 DEF Start, Advance, Record, Goto, Statuses
    <3> QED
      BY <3>1
  <2>4. CASE j \notin Links /\ mode \notin {"desan", "native"} /\ RecordIr
    BY <1>1, <2>4, GotoAdvances DEF Start, Compiles, EarlyPlaces
  <2>5. CASE j \notin Links /\ mode \notin {"desan", "native"} /\ ~RecordIr
    <3>1. Advance(j, "checkheader", "direct") /\ overlap' \in BOOLEAN
      BY <1>1, <2>5 DEF Start, Advance, Record, Goto, Statuses
    <3> QED
      BY <3>1
  <2> QED
    BY <2>1, <2>2, <2>3, <2>4, <2>5
<1> QED
  BY <1>2, AdvanceInv DEF Start

\* A link ends.
LEMMA LinkInv == ASSUME IInv, NEW j \in Jobs, Link(j) PROVE IInv'
<1> USE DEF IInv, TypeOK
<1>1. j \in Links
  BY DEF Link, LinksOnlyLink, Compiles
<1>2. Advance(j, "ok", status[j]) \/ Advance(j, "failed", status[j])
  BY <1>1 DEF Link, Advance, Goto, EarlyPlaces, shared
<1> QED
  BY <1>2, AdvanceInv DEF Link, shared

\* A log that is written anew names its job and a number of checks.
LEMMA LogWritten ==
    ASSUME TypeOK, NEW j \in Jobs, NEW n \in Nat,
           log' = [log EXCEPT ![Key[j]] = [by |-> j, total |-> n]]
    PROVE  log' \in [Keys -> {None} \cup [by : Jobs, total : Nat]]
  BY DEF TypeOK

\* The IR made only to count the checks.
LEMMA SidecarInv == ASSUME IInv, NEW j \in Jobs, Sidecar(j) PROVE IInv'
<1> USE DEF IInv, TypeOK
<1>1. j \in Compiles
  BY CompilePath DEF Sidecar
<1>2. \/ Advance(j, "checkheader", "direct-ir")
      \/ Advance(j, "checkheader", "direct-ir-fallback")
  BY <1>1 DEF Sidecar, Advance, Record, Goto, EarlyPlaces, Statuses, Compiles
<1>3. log' \in [Keys -> {None} \cup [by : Jobs, total : Nat]]
  BY WrapperAssumption, LogWritten DEF Sidecar
<1>4. overlap' \in BOOLEAN
  BY DEF Sidecar, Record
<1> QED
  BY <1>2, <1>3, <1>4, AdvanceInv DEF Sidecar

\* The compile to IR.
LEMMA CompileIRInv == ASSUME IInv, NEW j \in Jobs, CompileIR(j) PROVE IInv'
<1>1. j \in Compiles /\ pc[j] \in EarlyPlaces
  BY CompilePath DEF CompileIR, EarlyPlaces
<1>2. (\E l, s : Advance(j, l, s)) /\ overlap' \in BOOLEAN
  <2>1. CASE Goto(j, "startpass") /\ UNCHANGED <<status, overlap>>
    BY <1>1, <2>1, GotoAdvances DEF CompileIR, EarlyPlaces
  <2>2. CASE FallBack(j, "ir-compile-fallback")
    BY <1>1, <2>2, FallBackAdvances DEF CompileIR, Statuses
  <2> QED
    BY <2>1, <2>2 DEF CompileIR
<1> QED
  BY <1>1, <1>2, AdvanceInv DEF CompileIR, Compiles, IInv, TypeOK

\* The shell opens the log.
LEMMA StartPassInv == ASSUME IInv, NEW j \in Jobs, StartPass(j) PROVE IInv'
<1>1. j \in Compiles /\ pc[j] \in EarlyPlaces
  BY CompilePath DEF StartPass, EarlyPlaces
<1>2. (\E l, s : Advance(j, l, s)) /\ overlap' \in BOOLEAN
  BY <1>1, GotoAdvances DEF StartPass, EarlyPlaces
<1>3. log' \in [Keys -> {None} \cup [by : Jobs, total : Nat]]
  BY WrapperAssumption, LogWritten DEF StartPass, IInv, TypeOK
<1> QED
  BY <1>2, <1>3, AdvanceInv DEF StartPass, IInv, TypeOK

\* The pass prints its statistics.
LEMMA PassStatisticsInv == ASSUME IInv, NEW j \in Jobs, PassStatistics(j) PROVE IInv'
<1>1. j \in Compiles /\ pc[j] \in EarlyPlaces
  BY CompilePath DEF PassStatistics, EarlyPlaces
<1>2. (\E l, s : Advance(j, l, s)) /\ overlap' \in BOOLEAN
  <2>1. CASE Goto(j, "passend") /\ UNCHANGED <<status, overlap>>
    BY <1>1, <2>1, GotoAdvances DEF PassStatistics, EarlyPlaces
  <2>2. CASE FallBack(j, "pass-fallback")
    BY <1>1, <2>2, FallBackAdvances DEF PassStatistics, Statuses
  <2>3. CASE Goto(j, "hung") /\ UNCHANGED <<status, overlap>>
    BY <1>1, <2>3, GotoAdvances DEF PassStatistics, EarlyPlaces
  <2> QED
    BY <2>1, <2>2, <2>3 DEF PassStatistics
<1>3. log' \in [Keys -> {None} \cup [by : Jobs, total : Nat]]
  BY WrapperAssumption, LogWritten DEF PassStatistics, IInv, TypeOK
<1> QED
  BY <1>2, <1>3, AdvanceInv DEF PassStatistics, IInv, TypeOK

\* The pass ends.
LEMMA PassEndsInv == ASSUME IInv, NEW j \in Jobs, PassEnds(j) PROVE IInv'
<1>1. j \in Compiles /\ pc[j] \in EarlyPlaces
  BY CompilePath DEF PassEnds, EarlyPlaces
<1>2. (\E l, s : Advance(j, l, s)) /\ overlap' \in BOOLEAN
  <2>1. CASE Goto(j, "lower") /\ UNCHANGED <<status, overlap>>
    BY <1>1, <2>1, GotoAdvances DEF PassEnds, EarlyPlaces
  <2>2. CASE FallBack(j, "pass-fallback")
    BY <1>1, <2>2, FallBackAdvances DEF PassEnds, Statuses
  <2>3. CASE Goto(j, "hung") /\ UNCHANGED <<status, overlap>>
    BY <1>1, <2>3, GotoAdvances DEF PassEnds, EarlyPlaces
  <2> QED
    BY <2>1, <2>2, <2>3 DEF PassEnds
<1> QED
  BY <1>2, AdvanceInv DEF PassEnds, IInv, TypeOK

\* timeout(1) stops a pass that hangs.
LEMMA TimeoutFiresInv == ASSUME IInv, NEW j \in Jobs, TimeoutFires(j) PROVE IInv'
<1>1. j \in Compiles /\ pc[j] \in EarlyPlaces
  BY CompilePath DEF TimeoutFires, EarlyPlaces
<1>2. (\E l, s : Advance(j, l, s)) /\ overlap' \in BOOLEAN
  BY <1>1, FallBackAdvances DEF TimeoutFires, Statuses
<1> QED
  BY <1>2, AdvanceInv DEF TimeoutFires, IInv, TypeOK

-----------------------------------------------------------------------------
(* The object, the record and the interrupt. *)

\* No object is of a job that is still before its record.
LEMMA EarlyHasNoObject ==
    ASSUME IInv, NEW j \in Jobs, pc[j] \in EarlyPlaces \cup {"direct"},
           NEW k \in Keys, object[k] # None
    PROVE  object[k].by # j
  BY DEF IInv, TypeOK, ObjectFitsStatus, EarlyPlaces, Recording

\* The optimized IR is lowered to the object, or a fallback takes it away.
LEMMA LowerInv == ASSUME IInv, NEW j \in Jobs, Lower(j) PROVE IInv'
<1> USE DEF IInv, TypeOK
<1>1. j \in Compiles /\ pc[j] \in EarlyPlaces
  BY CompilePath DEF Lower, EarlyPlaces
<1>2. Key[j] \in Keys
  BY DEF Keys
<1>3. CASE /\ object' = [object EXCEPT ![Key[j]] = [by |-> j, from |-> "optimized"]]
           /\ Record(j, "pass")
  <2>1. Advance(j, "checkheader", "pass")
    BY <1>1, <1>3 DEF Lower, Advance, Record, Goto, Statuses, Compiles
  <2>2. LinksOnlyLink' /\ StatusFitsPlace' /\ NoRowYet' /\ OneRowEach' /\ RowThen'
    BY <2>1, AdvanceRows
  <2>3. object' \in [Keys -> {None} \cup [by : Jobs, from : {"optimized", "direct"}]]
    BY <1>3
  <2>4. TypeOK'
    BY <1>3, <2>1, <2>3, AdvanceRows DEF Lower, Record, settings, Places
  <2>5. ObjectFitsStatus'
    <3> SUFFICES ASSUME NEW k \in Keys, object'[k] # None
                 PROVE  LET i == object'[k].by
                        IN  /\ i \in Compiles /\ Key[i] = k
                            /\ object'[k].from = "optimized" =>
                                  /\ status'[i] = "pass"
                                  /\ pc'[i] \in Recording \cup {"ok", "killed"}
                            /\ object'[k].from = "direct" =>
                                  /\ status'[i] # "pass"
                                  /\ pc'[i] = "ok"
      BY DEF ObjectFitsStatus
    <3>1. CASE k = Key[j]
      <4>1. object'[k] = [by |-> j, from |-> "optimized"]
        BY <1>3, <3>1
      <4> QED
        BY <1>1, <3>1, <4>1, <2>1 DEF Advance, Recording
    <3>2. CASE k # Key[j]
      <4>1. object'[k] = object[k]
        BY <1>3, <3>2
      <4>2. object[k].by # j
        BY <1>1, <4>1, EarlyHasNoObject
      <4>3. object[k].by \in Compiles /\ object[k].by \in Jobs
        BY <4>1 DEF ObjectFitsStatus, Compiles
      <4>4. pc'[object[k].by] = pc[object[k].by] /\ status'[object[k].by] = status[object[k].by]
        BY <4>2, <4>3, <2>1 DEF Advance
      <4> QED
        BY <4>1, <4>4 DEF ObjectFitsStatus
    <3> QED
      BY <3>1, <3>2
  <2> QED
    BY <2>2, <2>4, <2>5
<1>4. CASE /\ FallBack(j, "lower-fallback")
           /\ object' = [object EXCEPT ![Key[j]] = None]
  <2>1. (\E l, s : Advance(j, l, s)) /\ overlap' \in BOOLEAN
    BY <1>1, <1>4, FallBackAdvances DEF Lower, Statuses
  <2>2. PICK l, s : Advance(j, l, s)
    BY <2>1
  <2>3. LinksOnlyLink' /\ StatusFitsPlace' /\ NoRowYet' /\ OneRowEach' /\ RowThen'
    BY <2>2, AdvanceRows
  <2>4. object' \in [Keys -> {None} \cup [by : Jobs, from : {"optimized", "direct"}]]
    BY <1>4
  <2>5. TypeOK'
    BY <1>4, <2>1, <2>2, <2>4, AdvanceRows DEF Lower, settings, Places
  <2>6. ObjectFitsStatus'
    <3> SUFFICES ASSUME NEW k \in Keys, object'[k] # None
                 PROVE  /\ object'[k] = object[k]
                        /\ pc'[object[k].by] = pc[object[k].by]
                        /\ status'[object[k].by] = status[object[k].by]
      BY DEF ObjectFitsStatus
    <3>1. object'[k] = object[k]
      BY <1>4
    <3>2. object[k].by # j
      BY <1>1, <3>1, EarlyHasNoObject
    <3>3. object[k].by \in Compiles /\ object[k].by \in Jobs
      BY <3>1 DEF ObjectFitsStatus, Compiles
    <3> QED
      BY <3>1, <3>2, <3>3, <2>2 DEF Advance
  <2> QED
    BY <2>3, <2>5, <2>6
<1> QED
  BY <1>3, <1>4 DEF Lower

\* The plain compile behind every record but pass.
LEMMA DirectCompileInv == ASSUME IInv, NEW j \in Jobs, DirectCompile(j) PROVE IInv'
<1> USE DEF IInv, TypeOK
<1>1. j \in Compiles /\ status[j] # "pass" /\ pc[j] = "direct"
  BY CompilePath DEF DirectCompile, StatusFitsPlace
<1>2. Key[j] \in Keys
  BY DEF Keys
<1>3. PICK l \in {"ok", "failed"} :
         /\ pc' = [pc EXCEPT ![j] = l]
         /\ object' = [object EXCEPT ![Key[j]] = IF l = "ok" THEN [by |-> j, from |-> "direct"] ELSE None]
  BY DEF DirectCompile, Goto
<1>4. UNCHANGED <<settings, status, log, exists, records, overlap>>
  BY DEF DirectCompile
<1>5. object' \in [Keys -> {None} \cup [by : Jobs, from : {"optimized", "direct"}]]
  BY <1>3
<1>6. TypeOK'
  BY <1>3, <1>4, <1>5 DEF settings, Ended
<1>7. LinksOnlyLink' /\ StatusFitsPlace'
  BY <1>3, <1>4, <1>1 DEF LinksOnlyLink, StatusFitsPlace, Compiles, Recording
<1>8. NoRowYet' /\ OneRowEach'
  BY <1>3, <1>4 DEF NoRowYet, OneRowEach
<1>9. RowThen'
  BY <1>3, <1>4, <1>1 DEF RowThen, HasRow, Compiles
<1>10. ObjectFitsStatus'
  <2> SUFFICES ASSUME NEW k \in Keys, object'[k] # None
               PROVE  LET i == object'[k].by
                      IN  /\ i \in Compiles /\ Key[i] = k
                          /\ object'[k].from = "optimized" =>
                                /\ status'[i] = "pass"
                                /\ pc'[i] \in Recording \cup {"ok", "killed"}
                          /\ object'[k].from = "direct" =>
                                /\ status'[i] # "pass"
                                /\ pc'[i] = "ok"
    BY DEF ObjectFitsStatus
  <2>1. CASE k = Key[j]
    <3>1. l = "ok" /\ object'[k] = [by |-> j, from |-> "direct"]
      BY <1>3, <1>2, <2>1
    <3> QED
      BY <1>1, <1>3, <1>4, <2>1, <3>1
  <2>2. CASE k # Key[j]
    <3>1. object'[k] = object[k]
      BY <1>3, <2>2
    <3>2. object[k].by # j
      BY <1>1, <3>1, EarlyHasNoObject
    <3>3. object[k].by \in Compiles /\ object[k].by \in Jobs
      BY <3>1 DEF ObjectFitsStatus, Compiles
    <3>4. pc'[object[k].by] = pc[object[k].by] /\ status'[object[k].by] = status[object[k].by]
      BY <3>2, <3>3, <1>3, <1>4
    <3> QED
      BY <3>1, <3>4 DEF ObjectFitsStatus
  <2> QED
    BY <2>1, <2>2
<1> QED
  BY <1>6, <1>7, <1>8, <1>9, <1>10

\* The commands around the header keep the rows of all jobs; a header is a
\* row of none.
LEMMA HeaderInv ==
    ASSUME IInv, NEW j \in Jobs, CheckHeader(j) \/ OpenHeader(j) \/ WriteHeader(j)
    PROVE  IInv'
<1> USE DEF IInv, TypeOK
<1>1. PICK l \in Recording : pc' = [pc EXCEPT ![j] = l] /\ pc[j] \in Recording
  BY DEF CheckHeader, OpenHeader, WriteHeader, Goto, Recording
<1>2. /\ UNCHANGED <<settings, status, object, log, overlap>>
      /\ exists' \in BOOLEAN
      /\ records' = records \/ records' = Append(records, Header)
  BY DEF CheckHeader, OpenHeader, WriteHeader, shared
<1>3. Header.job \notin Jobs
  BY WrapperAssumption DEF Header
<1>4. records' \in Seq({Header} \cup [job : Jobs, status : Statuses])
  BY <1>2
<1>5. /\ \A i \in DOMAIN records : i \in DOMAIN records' /\ records'[i] = records[i]
      /\ \A i \in DOMAIN records' : i \in DOMAIN records \/ records'[i] = Header
  <2>1. CASE records' = records
    BY <2>1
  <2>2. CASE records' = Append(records, Header)
    <3>1. /\ Len(records) \in Nat /\ Len(records') = Len(records) + 1
          /\ DOMAIN records = 1..Len(records) /\ DOMAIN records' = 1..Len(records')
          /\ \A i \in 1..Len(records) : records'[i] = records[i]
          /\ records'[Len(records) + 1] = Header
      BY <2>2, <1>4
    <3> QED
      BY <3>1
  <2> QED
    BY <1>2, <2>1, <2>2
<1>6. TypeOK'
  BY <1>1, <1>2, <1>4 DEF settings, Recording
<1>7. LinksOnlyLink' /\ StatusFitsPlace'
  BY <1>1, <1>2 DEF LinksOnlyLink, StatusFitsPlace, Compiles, Recording
<1>8. NoRowYet'
  BY <1>1, <1>2, <1>3, <1>5 DEF NoRowYet, Recording
<1>9. OneRowEach'
  BY <1>3, <1>5 DEF OneRowEach
<1>10. RowThen'
  BY <1>1, <1>5 DEF RowThen, HasRow, Recording, Compiles
<1>11. ObjectFitsStatus'
  BY <1>1, <1>2 DEF ObjectFitsStatus, Recording, Compiles
<1> QED
  BY <1>6, <1>7, <1>8, <1>9, <1>10, <1>11

\* The row: the first and only one of its job.
LEMMA AppendRowInv == ASSUME IInv, NEW j \in Jobs, AppendRow(j) PROVE IInv'
<1> USE DEF IInv, TypeOK
<1> DEFINE row == [job |-> j, status |-> status[j]]
           last == Len(records) + 1
<1>1. /\ pc[j] = "row" /\ pc[j] \in Recording
      /\ pc' = [pc EXCEPT ![j] = IF status[j] = "pass" THEN "ok" ELSE "direct"]
      /\ records' = Append(records, row)
      /\ UNCHANGED <<settings, status, object, log, overlap>>
      /\ exists' \in BOOLEAN
  BY DEF AppendRow, Goto, Recording
<1>2. status[j] \in Statuses /\ j \in Compiles
  BY <1>1, CompilePath DEF StatusFitsPlace
<1>3. records' \in Seq({Header} \cup [job : Jobs, status : Statuses])
  BY <1>1, <1>2
<1>4. /\ \A i \in DOMAIN records : i \in DOMAIN records' /\ records'[i] = records[i]
      /\ \A i \in DOMAIN records' : i \in DOMAIN records \/ i = last
      /\ last \in DOMAIN records' /\ records'[last] = row
  BY <1>1
<1>5. \A i \in DOMAIN records : records[i].job # j
  BY <1>1 DEF NoRowYet
<1>6. TypeOK'
  BY <1>1, <1>3 DEF settings, Ended
<1>7. LinksOnlyLink' /\ StatusFitsPlace'
  BY <1>1, <1>2 DEF LinksOnlyLink, StatusFitsPlace, Compiles, Recording
<1>8. NoRowYet'
  <2> SUFFICES ASSUME NEW i \in DOMAIN records', records'[i].job \in Jobs
               PROVE  /\ pc'[records'[i].job] \in {"direct", "ok", "failed", "killed"}
                      /\ records'[i].status = status'[records'[i].job]
    BY DEF NoRowYet
  <2>1. CASE i \in DOMAIN records
    BY <1>1, <1>4, <1>5, <2>1 DEF NoRowYet
  <2>2. CASE i = last
    BY <1>1, <1>4, <2>2
  <2> QED
    BY <1>4, <2>1, <2>2
<1>9. OneRowEach'
  <2>1. \A i \in DOMAIN records' : records'[i].job = j => i = last
    BY <1>4, <1>5
  <2> QED
    BY <1>4, <2>1 DEF OneRowEach
<1>10. RowThen'
  <2> SUFFICES ASSUME NEW i \in Compiles, pc'[i] \in {"direct", "ok"}
               PROVE  \E h \in DOMAIN records' : records'[h].job = i
    BY DEF RowThen, HasRow
  <2>1. CASE i = j
    BY <1>4, <2>1
  <2>2. CASE i # j
    BY <1>1, <1>4, <2>2 DEF RowThen, HasRow, Compiles
  <2> QED
    BY <2>1, <2>2
<1>11. ObjectFitsStatus'
  BY <1>1 DEF ObjectFitsStatus, Recording, Compiles
<1> QED
  BY <1>6, <1>7, <1>8, <1>9, <1>10, <1>11

\* The signal leaves what was written.
LEMMA InterruptInv == ASSUME IInv, Interrupt PROVE IInv'
<1> USE DEF IInv, TypeOK
<1>1. /\ pc' = [j \in Jobs |-> IF pc[j] \in {"ok", "failed"} THEN pc[j] ELSE "killed"]
      /\ UNCHANGED <<settings, status, shared>>
  BY DEF Interrupt
<1>2. TypeOK'
  BY <1>1 DEF settings, shared, Ended
<1>3. LinksOnlyLink' /\ StatusFitsPlace'
  BY <1>1, WrapperAssumption DEF LinksOnlyLink, StatusFitsPlace, Compiles, Recording
<1>4. NoRowYet' /\ OneRowEach'
  BY <1>1 DEF NoRowYet, OneRowEach, shared
<1>5. RowThen'
  BY <1>1 DEF RowThen, HasRow, shared, Compiles
<1>6. ObjectFitsStatus'
  BY <1>1 DEF ObjectFitsStatus, shared, Compiles
<1> QED
  BY <1>2, <1>3, <1>4, <1>5, <1>6

\* Every step keeps the inductive invariant.
LEMMA NextInv == IInv /\ [Next]_vars => IInv'
<1> SUFFICES ASSUME IInv, [Next]_vars PROVE IInv'
  OBVIOUS
<1>1. ASSUME NEW j \in Jobs, Step(j) PROVE IInv'
  BY <1>1, StartInv, LinkInv, SidecarInv, CompileIRInv, StartPassInv, PassStatisticsInv,
     PassEndsInv, TimeoutFiresInv, LowerInv, DirectCompileInv, HeaderInv, AppendRowInv
     DEF Step
<1>2. CASE Interrupt
  BY <1>2, InterruptInv
<1>3. CASE UNCHANGED vars
  BY <1>3 DEF IInv, TypeOK, LinksOnlyLink, StatusFitsPlace, NoRowYet, OneRowEach, RowThen,
              HasRow, ObjectFitsStatus, vars, settings, shared
<1> QED
  BY <1>1, <1>2, <1>3 DEF Next

-----------------------------------------------------------------------------
(* The properties. *)

\* Every reachable state satisfies the inductive invariant.
THEOREM Invariance == Spec => []IInv
  BY InitInv, NextInv, PTL DEF Spec

\* The state of the wrapper and its files keep their types: whatever the
\* interleaving, only known statuses reach the records file.
THEOREM TypeCorrect == Spec => []TypeOK
<1>1. IInv => TypeOK
  BY DEF IInv
<1> QED
  BY <1>1, Invariance, PTL

\* desan_spec_c_or_cxx: a compile that ended well has exactly one row, and an
\* object it made is optimized if and only if that row says pass, for any
\* number of jobs at once, shared file names, fallbacks and interrupts.
THEOREM RecordsAreTrue == Spec => []RecordTellsTheTruth
<1>1. IInv => RecordTellsTheTruth
  <2> SUFFICES ASSUME IInv, NEW j \in Compiles, pc[j] = "ok"
               PROVE  /\ Cardinality(RowsOf(j)) = 1
                      /\ LET o == object[Key[j]] IN
                         o # None /\ o.by = j =>
                            \A i \in RowsOf(j) : (records[i].status = "pass") <=> (o.from = "optimized")
    BY DEF RecordTellsTheTruth
  <2>1. j \in Jobs /\ Key[j] \in Keys
    BY DEF Compiles, Keys
  <2>2. PICK i \in DOMAIN records : records[i].job = j
    BY DEF IInv, RowThen, HasRow
  <2>3. RowsOf(j) = {i}
    BY <2>1, <2>2 DEF IInv, OneRowEach, RowsOf
  <2>4. Cardinality(RowsOf(j)) = 1
    BY <2>3, FS_Singleton
  <2>5. records[i].status = status[j]
    BY <2>1, <2>2 DEF IInv, NoRowYet
  <2>6. ASSUME object[Key[j]] # None, object[Key[j]].by = j
        PROVE  (status[j] = "pass") <=> (object[Key[j]].from = "optimized")
    <3>1. object[Key[j]].from \in {"optimized", "direct"}
      BY <2>1, <2>6 DEF IInv, TypeOK
    <3> QED
      BY <2>1, <2>6, <3>1 DEF IInv, ObjectFitsStatus
  <2> QED
    BY <2>3, <2>4, <2>5, <2>6
<1> QED
  BY <1>1, Invariance, PTL

\* Every object file that exists has a row in the records file, or its job is
\* about to write one or was killed over it.
THEOREM ObjectsAreCounted == Spec => []NoObjectUncounted
<1>1. IInv => NoObjectUncounted
  <2> SUFFICES ASSUME IInv, NEW k \in Keys, object[k] # None
               PROVE  \/ RowsOf(object[k].by) # {}
                      \/ pc[object[k].by] \in Recording \cup {"killed"}
    BY DEF NoObjectUncounted
  <2> DEFINE j == object[k].by
  <2>1. j \in Compiles /\ object[k].from \in {"optimized", "direct"}
    BY DEF IInv, TypeOK, ObjectFitsStatus
  <2>2. pc[j] \in Recording \cup {"ok", "killed"}
    BY <2>1 DEF IInv, ObjectFitsStatus
  <2>3. pc[j] = "ok" => RowsOf(j) # {}
    BY <2>1 DEF IInv, RowThen, HasRow, RowsOf
  <2> QED
    BY <2>2, <2>3
<1> QED
  BY <1>1, Invariance, PTL

-----------------------------------------------------------------------------
(* The header.  desan_spec_record_compile tests for the records file and    *)
(* writes the header in separate commands; as long as no two jobs are in it *)
(* at once, the header is the first line.                                   *)

\* A killed job has company: the signal reaches every process of the build.
AllKilledAtOnce ==
    (\E j \in Jobs : pc[j] = "killed") => \A j \in Jobs : pc[j] \in {"ok", "failed", "killed"}

OneRecords == \A i, j \in Jobs : pc[i] \in Recording /\ pc[j] \in Recording => i = j

HeaderPhases ==
    /\ records # << >> => records[1] = Header /\ exists
    /\ exists /\ records = << >> => \E j \in Jobs : pc[j] = "writeheader"
    /\ \A j \in Jobs : /\ pc[j] = "openheader" => ~exists
                       /\ pc[j] = "writeheader" => records = << >> /\ exists
                       /\ pc[j] = "row" => records # << >>

HInv ==
    /\ AllKilledAtOnce
    /\ ~overlap /\ (\A j \in Jobs : pc[j] # "killed") => OneRecords /\ HeaderPhases

\* A command outside desan_spec_record_compile does not enter it.
Outside(j, l) ==
    /\ pc[j] \notin Recording \cup {"killed", "ok", "failed"} /\ l \notin Recording \cup {"killed"}
    /\ pc' = [pc EXCEPT ![j] = l]
    /\ UNCHANGED <<overlap, exists, records>>

\* Or enters it.
Enters(j) ==
    /\ pc[j] \notin Recording \cup {"killed", "ok", "failed"}
    /\ \E s : Record(j, s)
    /\ UNCHANGED <<exists, records>>

\* The commands of desan_spec_c_or_cxx are of these two kinds.
LEMMA EntersOrNot ==
    ASSUME NEW j \in Jobs,
           \/ Start(j) \/ Link(j) \/ Sidecar(j) \/ CompileIR(j) \/ StartPass(j)
           \/ PassStatistics(j) \/ PassEnds(j) \/ TimeoutFires(j) \/ Lower(j) \/ DirectCompile(j)
    PROVE  Enters(j) \/ \E l : Outside(j, l)
<1>1. CASE Start(j)
  BY <1>1 DEF Start, Enters, Outside, Goto, Recording
<1>2. CASE Link(j)
  BY <1>2 DEF Link, Enters, Outside, Goto, Recording, shared
<1>3. CASE Sidecar(j)
  BY <1>3 DEF Sidecar, Enters, Recording
<1>4. CASE CompileIR(j)
  BY <1>4 DEF CompileIR, FallBack, Enters, Outside, Goto, Recording
<1>5. CASE StartPass(j)
  BY <1>5 DEF StartPass, Outside, Goto, Recording
<1>6. CASE PassStatistics(j)
  BY <1>6 DEF PassStatistics, FallBack, Enters, Outside, Goto, Recording
<1>7. CASE PassEnds(j)
  BY <1>7 DEF PassEnds, FallBack, Enters, Outside, Goto, Recording
<1>8. CASE TimeoutFires(j)
  BY <1>8 DEF TimeoutFires, FallBack, Enters, Outside, Goto, Recording
<1>9. CASE Lower(j)
  BY <1>9 DEF Lower, FallBack, Enters, Outside, Goto, Recording
<1>10. CASE DirectCompile(j)
  BY <1>10 DEF DirectCompile, Outside, Goto, Recording
<1> QED
  BY <1>1, <1>2, <1>3, <1>4, <1>5, <1>6, <1>7, <1>8, <1>9, <1>10

\* Every step keeps the phases of the header.
LEMMA HeaderNext == TypeOK /\ HInv /\ [Next]_vars => HInv'
<1> SUFFICES ASSUME TypeOK, HInv, [Next]_vars PROVE HInv'
  OBVIOUS
<1> USE DEF TypeOK
<1>1. ASSUME NEW j \in Jobs, Step(j) PROVE HInv'
  <2>1. pc[j] \notin {"ok", "failed", "killed"} /\ \E l : l # "killed" /\ pc' = [pc EXCEPT ![j] = l]
    <3>1. CASE CheckHeader(j) \/ OpenHeader(j) \/ WriteHeader(j) \/ AppendRow(j)
      BY <3>1 DEF CheckHeader, OpenHeader, WriteHeader, AppendRow, Goto
    <3>2. CASE Enters(j) \/ \E l : Outside(j, l)
      BY <3>2 DEF Enters, Outside, Record, Goto
    <3> QED
      BY <1>1, <3>1, <3>2, EntersOrNot DEF Step
  <2>2. /\ \A i \in Jobs : pc[i] # "killed" /\ pc'[i] # "killed"
        /\ AllKilledAtOnce'
    BY <2>1 DEF HInv, AllKilledAtOnce
  <2>3. ASSUME ~overlap' PROVE OneRecords' /\ HeaderPhases'
    <3>1. CASE \E l : Outside(j, l)
      BY <2>2, <2>3, <3>1 DEF Outside, HInv, OneRecords, HeaderPhases, Recording
    <3>2. CASE Enters(j)
      <4>1. /\ ~overlap /\ \A i \in Jobs \ {j} : pc[i] \notin Recording
            /\ pc[j] \notin Recording /\ pc' = [pc EXCEPT ![j] = "checkheader"]
            /\ UNCHANGED <<exists, records>>
        BY <2>3, <3>2 DEF Enters, Record, Goto
      <4>2. OneRecords /\ HeaderPhases
        BY <2>2, <4>1 DEF HInv
      <4>3. \A i \in Jobs : pc'[i] # "checkheader" => pc'[i] = pc[i] /\ i # j
        BY <4>1
      <4>4. OneRecords'
        BY <4>1, <4>3 DEF OneRecords
      <4>5. HeaderPhases'
        BY <4>1, <4>2, <4>3 DEF HeaderPhases, Recording
      <4> QED
        BY <4>4, <4>5
    <3>3. CASE CheckHeader(j)
      <4>1. OneRecords /\ HeaderPhases
        BY <2>2, <2>3, <3>3 DEF CheckHeader, shared, HInv
      <4>2. pc[j] = "checkheader" /\ pc' = [pc EXCEPT ![j] = IF exists THEN "row" ELSE "openheader"]
            /\ UNCHANGED <<exists, records>>
        BY <3>3 DEF CheckHeader, Goto, shared
      <4>3. \A i \in Jobs \ {j} : pc[i] \notin Recording
        BY <4>1, <4>2 DEF OneRecords, Recording
      <4>4. exists => records # << >>
        BY <4>1, <4>2, <4>3 DEF HeaderPhases, Recording
      <4> QED
        BY <4>1, <4>2, <4>3, <4>4 DEF OneRecords, HeaderPhases, Recording
    <3>4. CASE OpenHeader(j)
      <4>1. OneRecords /\ HeaderPhases
        BY <2>2, <2>3, <3>4 DEF OpenHeader, HInv
      <4>2. /\ pc[j] = "openheader" /\ pc' = [pc EXCEPT ![j] = "writeheader"]
            /\ exists' = TRUE /\ records' = records
        BY <3>4 DEF OpenHeader, Goto
      <4>3. \A i \in Jobs \ {j} : pc[i] \notin Recording
        BY <4>1, <4>2 DEF OneRecords, Recording
      <4> QED
        BY <4>1, <4>2, <4>3 DEF OneRecords, HeaderPhases, Recording
    <3>5. CASE WriteHeader(j)
      <4>1. OneRecords /\ HeaderPhases
        BY <2>2, <2>3, <3>5 DEF WriteHeader, HInv
      <4>2. /\ pc[j] = "writeheader" /\ pc' = [pc EXCEPT ![j] = "row"]
            /\ exists' = exists /\ records' = Append(records, Header)
        BY <3>5 DEF WriteHeader, Goto
      <4>3. \A i \in Jobs \ {j} : pc[i] \notin Recording
        BY <4>1, <4>2 DEF OneRecords, Recording
      <4>4. records = << >> /\ exists
        BY <4>1, <4>2 DEF HeaderPhases
      <4>5. records' # << >> /\ records'[1] = Header
        BY <4>2, <4>4
      <4> QED
        BY <4>1, <4>2, <4>3, <4>4, <4>5 DEF OneRecords, HeaderPhases, Recording
    <3>6. CASE AppendRow(j)
      <4>1. OneRecords /\ HeaderPhases
        BY <2>2, <2>3, <3>6 DEF AppendRow, HInv
      <4>2. /\ pc[j] = "row" /\ pc'[j] \notin Recording /\ \A i \in Jobs \ {j} : pc'[i] = pc[i]
            /\ exists' = TRUE /\ records' = Append(records, [job |-> j, status |-> status[j]])
        BY <3>6 DEF AppendRow, Goto, Recording
      <4>3. \A i \in Jobs : pc'[i] \notin Recording
        BY <4>1, <4>2 DEF OneRecords, Recording
      <4>4. records # << >> /\ records[1] = Header
        BY <4>1, <4>2 DEF HeaderPhases
      <4>5. records' # << >> /\ records'[1] = Header
        BY <4>2, <4>4
      <4> QED
        BY <4>2, <4>3, <4>5 DEF OneRecords, HeaderPhases, Recording
    <3> QED
      BY <1>1, <3>1, <3>2, <3>3, <3>4, <3>5, <3>6, EntersOrNot DEF Step
  <2> QED
    BY <2>2, <2>3 DEF HInv
<1>2. CASE Interrupt
  <2>1. (\E j \in Jobs : pc'[j] = "killed") /\ AllKilledAtOnce'
    BY <1>2 DEF Interrupt, AllKilledAtOnce, Ended
  <2> QED
    BY <2>1 DEF HInv
<1>3. CASE UNCHANGED vars
  BY <1>3 DEF HInv, AllKilledAtOnce, OneRecords, HeaderPhases, vars, settings, shared
<1> QED
  BY <1>1, <1>2, <1>3 DEF Next

\* The rows the summary reads are those of the jobs, one each, when the header
\* stands first.
LEMMA CountedFacts ==
    ASSUME IInv, records # << >> => records[1] = Header
    PROVE  /\ CountedRows = {i \in DOMAIN records : records[i].job \in Jobs}
           /\ IsFiniteSet(CountedRows)
<1>1. CountedRows = {i \in DOMAIN records : records[i].job \in Jobs}
  <2>1. \A i \in DOMAIN records : records[i] # Header <=> records[i].job \in Jobs
    BY WrapperAssumption DEF IInv, TypeOK, Header
  <2>2. CASE records = << >>
    BY <2>2 DEF CountedRows
  <2>3. CASE records # << >>
    <3>1. Len(records) \in Nat /\ DOMAIN records = 1..Len(records) /\ Len(records) >= 1
      BY <2>3 DEF IInv, TypeOK
    <3>2. Head(records) = Header /\ records[1] = Header
      BY <2>3 DEF IInv, TypeOK
    <3>3. CountedRows = {i \in 2..Len(records) : records[i] # Header}
      BY <2>3, <3>2 DEF CountedRows
    <3> QED
      BY <2>1, <3>1, <3>2, <3>3
  <2> QED
    BY <2>2, <2>3
<1>2. IsFiniteSet(CountedRows)
  <2>1. Len(records) \in Int /\ CountedRows \subseteq 1..Len(records)
    BY <1>1 DEF IInv, TypeOK
  <2>2. 1 \in Int
    OBVIOUS
  <2>3. IsFiniteSet(1..Len(records))
    BY <2>1, <2>2, FS_Interval
  <2> QED
    BY <2>1, <2>3, FS_Subset
<1> QED
  BY <1>1, <1>2

LEMMA CountedAreRows ==
    ASSUME IInv, records # << >> => records[1] = Header
    PROVE  compile_units = Cardinality({j \in Jobs : RowsOf(j) # {}})
<1> DEFINE own == {j \in Jobs : RowsOf(j) # {}}
           row == [i \in CountedRows |-> records[i].job]
<1>1. CountedRows = {i \in DOMAIN records : records[i].job \in Jobs} /\ IsFiniteSet(CountedRows)
  BY CountedFacts
<1>2. row \in Bijection(CountedRows, own)
  <2>1. row \in [CountedRows -> own]
    BY <1>1 DEF RowsOf
  <2>2. \A h, i \in CountedRows : row[h] = row[i] => h = i
    BY <1>1 DEF IInv, OneRowEach
  <2>3. \A j \in own : \E i \in CountedRows : row[i] = j
    BY <1>1 DEF RowsOf
  <2> QED
    BY <2>1, <2>2, <2>3, Fun_IsBij
<1> QED
  BY <1>1, <1>2, FS_Bijection DEF compile_units, ExistsBijection

\* The phases of the header hold in every reachable state.
LEMMA HeaderInvariance == Spec => []HInv
<1>1. Init => HInv
  BY DEF Init, HInv, AllKilledAtOnce, OneRecords, HeaderPhases, Recording
<1> QED
  BY <1>1, HeaderNext, TypeCorrect, PTL DEF Spec

\* parse_records: after a build in which no job was killed and no two were in
\* desan_spec_record_compile at once, compile_units is the number of jobs that
\* recorded, for any number of jobs.
THEOREM EveryUnitCounted == Spec => []UnitsComplete
<1>1. IInv /\ HInv => UnitsComplete
  BY CountedAreRows DEF UnitsComplete, Undisturbed, HInv, HeaderPhases
<1> QED
  BY <1>1, Invariance, HeaderInvariance, PTL

-----------------------------------------------------------------------------
(* What the summary adds up.  A job that shares its file names with no job  *)
(* that has begun finds in its log what its own pass wrote: nothing yet, or *)
(* all its checks.                                                          *)

Alone(j) == \A i \in Compiles : i # j /\ Key[i] = Key[j] => pc[i] = "waiting"

LogIs(j, totals) == log[Key[j]] # None /\ log[Key[j]].total \in totals

OwnLog(j) ==
    /\ pc[j] = "pass" => LogIs(j, {0})
    /\ pc[j] = "hung" => LogIs(j, {0, Checks[j]})
    /\ pc[j] \in {"passend", "lower"} \/ status[j] = "pass" => LogIs(j, {Checks[j]})
    /\ status[j] = "pass-fallback" => LogIs(j, {0, Checks[j]})

LogInv ==
    /\ \A j \in Jobs : pc[j] \in EarlyPlaces \/ j \in Links => status[j] = None
    /\ \A j \in Compiles : Alone(j) => OwnLog(j)

\* A step of one compile leaves the logs of the others alone.
LEMMA LogKeeps ==
    ASSUME IInv, LogInv, NEW j \in Compiles, NEW l, NEW s, l # "waiting",
           pc' = [pc EXCEPT ![j] = l], status' = [status EXCEPT ![j] = s],
           \/ log' = log
           \/ \E n : log' = [log EXCEPT ![Key[j]] = [by |-> j, total |-> n]],
           l \in EarlyPlaces => s = None,
           Alone(j) /\ OwnLog(j) => OwnLog(j)'
    PROVE  LogInv'
<1> USE DEF IInv, TypeOK
<1>1. j \in Jobs /\ j \notin Links
  BY DEF Compiles
<1>2. /\ pc'[j] = l /\ status'[j] = s
      /\ \A i \in Jobs \ {j} : pc'[i] = pc[i] /\ status'[i] = status[i]
  BY <1>1
<1>3. ASSUME NEW i \in Jobs, pc'[i] \in EarlyPlaces \/ i \in Links PROVE status'[i] = None
  BY <1>1, <1>2, <1>3 DEF LogInv
<1>4. \A i \in Jobs : pc'[i] = "waiting" => pc[i] = "waiting"
  BY <1>2
<1>5. \A i \in Compiles : Alone(i)' => Alone(i)
  BY <1>4 DEF Alone, Compiles
<1>6. ASSUME NEW i \in Compiles, Alone(i)' PROVE OwnLog(i)'
  <2>1. Alone(i) /\ OwnLog(i)
    BY <1>5, <1>6 DEF LogInv
  <2>2. CASE i = j
    BY <2>1, <2>2
  <2>3. CASE i # j
    <3>1. Key[j] # Key[i]
      BY <1>2, <1>6, <2>3 DEF Alone
    <3>2. log'[Key[i]] = log[Key[i]]
      <4>1. Key[i] \in Keys
        BY DEF Keys, Compiles
      <4> QED
        BY <3>1, <4>1
    <3>3. pc'[i] = pc[i] /\ status'[i] = status[i]
      BY <1>2, <2>3 DEF Compiles
    <3> QED
      BY <2>1, <3>2, <3>3 DEF OwnLog, LogIs
  <2> QED
    BY <2>2, <2>3
<1> QED
  BY <1>3, <1>6 DEF LogInv

\* Starting a job to link, and linking, touch no log.
LEMMA LogOfLinks ==
    ASSUME IInv, LogInv, NEW j \in Links, NEW l,
           pc' = [pc EXCEPT ![j] = l], UNCHANGED <<status, log>>
    PROVE  LogInv'
<1> USE DEF IInv, TypeOK
<1>1. \A i \in Compiles : pc'[i] = pc[i] /\ (Alone(i)' <=> Alone(i))
  BY DEF Compiles, Alone
<1>2. \A i \in Compiles : OwnLog(i)' <=> OwnLog(i)
  BY <1>1 DEF OwnLog, LogIs
<1>3. \A i \in Jobs : i \in Links \/ pc'[i] = pc[i]
  OBVIOUS
<1> QED
  BY <1>1, <1>2, <1>3 DEF LogInv

\* A fallback records its reason, or the job gives up without a record.
LEMMA LogOfFallBack ==
    ASSUME IInv, LogInv, NEW j \in Compiles, NEW r \in Statuses, FallBack(j, r), pc[j] \in EarlyPlaces,
           r # "pass", r = "pass-fallback" /\ Alone(j) => LogIs(j, {0, Checks[j]}), log' = log
    PROVE  LogInv'
<1> USE DEF IInv, TypeOK
<1>1. j \in Jobs /\ status[j] = None
  BY DEF LogInv, Compiles
<1>2. PICK l, s : /\ pc' = [pc EXCEPT ![j] = l] /\ status' = [status EXCEPT ![j] = s]
                  /\ l \in {"checkheader", "failed"} /\ s \in {r, None}
                  /\ l = "failed" => s = None
  <2>1. CASE Fallback
    <3>1. pc' = [pc EXCEPT ![j] = "checkheader"] /\ status' = [status EXCEPT ![j] = r]
      <4>1. Record(j, r)
        BY <2>1 DEF FallBack
      <4> QED
        BY <4>1 DEF Record, Goto
    <3> WITNESS "checkheader", r
    <3> QED
      BY <3>1
  <2>2. CASE ~Fallback
    <3>1. pc' = [pc EXCEPT ![j] = "failed"] /\ status' = [status EXCEPT ![j] = None]
      BY <1>1, <2>2 DEF FallBack, Goto
    <3> WITNESS "failed", None
    <3> QED
      BY <3>1
  <2> QED
    BY <2>1, <2>2
<1>3. pc'[j] = l /\ status'[j] = s
  BY <1>1, <1>2
<1>4. Alone(j) /\ OwnLog(j) => OwnLog(j)'
  <2>1. s # "pass" /\ (s = "pass-fallback" => r = "pass-fallback")
    BY <1>2, NoneAssumption DEF Statuses
  <2>2. l \notin {"pass", "hung", "passend", "lower"}
    BY <1>2
  <2> QED
    BY <1>3, <2>1, <2>2 DEF OwnLog, LogIs
<1>5. l # "waiting" /\ l \notin EarlyPlaces
  BY <1>2 DEF EarlyPlaces
<1> QED
  BY <1>2, <1>4, <1>5, LogKeeps

\* A job goes on without a record.
LEMMA LogOfGoto ==
    ASSUME IInv, LogInv, NEW j \in Compiles, NEW l, Goto(j, l), UNCHANGED status, l # "waiting",
           pc[j] \in EarlyPlaces \/ l \notin EarlyPlaces,
           \/ log' = log
           \/ \E n : log' = [log EXCEPT ![Key[j]] = [by |-> j, total |-> n]],
           Alone(j) /\ OwnLog(j) => OwnLog(j)'
    PROVE  LogInv'
<1> USE DEF IInv, TypeOK
<1>1. j \in Jobs
  BY DEF Compiles
<1>2. pc' = [pc EXCEPT ![j] = l] /\ status' = [status EXCEPT ![j] = status[j]]
  BY <1>1 DEF Goto
<1>3. l \in EarlyPlaces => status[j] = None
  BY <1>1 DEF LogInv
<1> QED
  BY <1>2, <1>3, LogKeeps

\* A job begins to record what it did.
LEMMA LogOfRecord ==
    ASSUME IInv, LogInv, NEW j \in Compiles, NEW r \in Statuses, Record(j, r),
           \/ log' = log
           \/ \E n : log' = [log EXCEPT ![Key[j]] = [by |-> j, total |-> n]],
           r = "pass" /\ Alone(j) => LogIs(j, {Checks[j]})', r # "pass-fallback"
    PROVE  LogInv'
<1> USE DEF IInv, TypeOK
<1>1. pc' = [pc EXCEPT ![j] = "checkheader"] /\ status' = [status EXCEPT ![j] = r]
  BY DEF Record, Goto
<1>2. pc'[j] = "checkheader" /\ status'[j] = r
  BY <1>1 DEF Compiles
<1>3. Alone(j) /\ OwnLog(j) => OwnLog(j)'
  BY <1>2 DEF OwnLog
<1>4. "checkheader" \notin EarlyPlaces /\ "checkheader" # "waiting"
  BY DEF EarlyPlaces
<1> QED
  BY <1>1, <1>3, <1>4, LogKeeps

LEMMA LogOfStart == ASSUME IInv, LogInv, NEW j \in Jobs, Start(j) PROVE LogInv'
<1>1. log' = log /\ pc[j] \in EarlyPlaces /\ pc[j] = "waiting"
  BY DEF Start, EarlyPlaces
<1>2. CASE j \in Links
  <2>1. pc' = [pc EXCEPT ![j] = "link"] /\ UNCHANGED <<status, log>>
    BY <1>2 DEF Start, Goto
  <2> QED
    BY <1>2, <2>1, LogOfLinks
<1>3. CASE j \notin Links
  <2>1. j \in Compiles
    BY <1>3 DEF Compiles
  <2>2. ASSUME NEW l \in {"ir", "sidecar"}, Goto(j, l), UNCHANGED status PROVE LogInv'
    <3>1. pc'[j] = l /\ status'[j] = status[j]
      BY <2>2 DEF Goto, IInv, TypeOK
    <3>2. Alone(j) /\ OwnLog(j) => OwnLog(j)'
      BY <1>1, <3>1 DEF OwnLog, LogIs
    <3> QED
      BY <1>1, <2>1, <2>2, <3>2, LogOfGoto
  <2>3. ASSUME NEW r \in {"direct", "direct-native"}, Record(j, r) PROVE LogInv'
    <3>1. r \in Statuses /\ r # "pass" /\ r # "pass-fallback"
      BY DEF Statuses
    <3> QED
      BY <1>1, <2>1, <2>3, <3>1, LogOfRecord
  <2> QED
    BY <1>3, <2>2, <2>3 DEF Start
<1> QED
  BY <1>2, <1>3

LEMMA LogOfLink == ASSUME IInv, LogInv, NEW j \in Jobs, Link(j) PROVE LogInv'
<1>1. j \in Links
  BY DEF Link, IInv, LinksOnlyLink, Compiles
<1> QED
  BY <1>1, LogOfLinks DEF Link, Goto, shared

LEMMA LogOfSidecar == ASSUME IInv, LogInv, NEW j \in Jobs, Sidecar(j) PROVE LogInv'
<1>1. j \in Compiles
  BY CompilePath DEF Sidecar
<1>2. PICK r \in {"direct-ir", "direct-ir-fallback"} :
         Record(j, r) /\ \E n : log' = [log EXCEPT ![Key[j]] = [by |-> j, total |-> n]]
  BY DEF Sidecar
<1>3. r \in Statuses /\ r # "pass" /\ r # "pass-fallback"
  BY DEF Statuses
<1> QED
  BY <1>1, <1>2, <1>3, LogOfRecord

LEMMA LogOfCompileIR == ASSUME IInv, LogInv, NEW j \in Jobs, CompileIR(j) PROVE LogInv'
<1>1. j \in Compiles /\ pc[j] = "ir" /\ pc[j] \in EarlyPlaces /\ log' = log
  BY CompilePath DEF CompileIR, EarlyPlaces
<1>2. CASE Goto(j, "startpass") /\ UNCHANGED status
  <2>1. pc'[j] = "startpass" /\ status'[j] = status[j]
    BY <1>2, <1>1 DEF Goto, IInv, TypeOK, Compiles
  <2>2. Alone(j) /\ OwnLog(j) => OwnLog(j)'
    BY <1>1, <2>1 DEF OwnLog, LogIs
  <2> QED
    BY <1>1, <1>2, <2>2, LogOfGoto
<1>3. CASE FallBack(j, "ir-compile-fallback")
  BY <1>1, <1>3, LogOfFallBack DEF Statuses
<1> QED
  BY <1>2, <1>3 DEF CompileIR

LEMMA LogOfStartPass == ASSUME IInv, LogInv, NEW j \in Jobs, StartPass(j) PROVE LogInv'
<1>1. j \in Compiles /\ pc[j] = "startpass" /\ pc[j] \in EarlyPlaces
  BY CompilePath DEF StartPass, EarlyPlaces
<1>2. PICK e : e = [by |-> j, total |-> 0]
  OBVIOUS
<1>3. log' = [log EXCEPT ![Key[j]] = e] /\ Goto(j, "pass") /\ UNCHANGED status
  BY <1>2 DEF StartPass
<1>4. pc'[j] = "pass" /\ status'[j] = status[j] /\ log'[Key[j]] = e /\ status[j] = None
  BY <1>1, <1>3 DEF Goto, IInv, TypeOK, Compiles, Keys, LogInv
<1>5. j \in Jobs
  BY <1>1 DEF Compiles
<1>6. e # None /\ e.total = 0
  BY <1>2, <1>5, NoneAssumption
<1>7. None # "pass" /\ None # "pass-fallback"
  BY NoneAssumption DEF Statuses
<1>8. OwnLog(j)'
  BY <1>4, <1>6, <1>7 DEF OwnLog, LogIs
<1>9. "pass" # "waiting" /\ \E n : log' = [log EXCEPT ![Key[j]] = [by |-> j, total |-> n]]
  BY <1>2, <1>3
<1> QED
  BY <1>1, <1>3, <1>8, <1>9, LogOfGoto

LEMMA LogOfPassStatistics == ASSUME IInv, LogInv, NEW j \in Jobs, PassStatistics(j) PROVE LogInv'
<1>1. j \in Compiles /\ pc[j] = "pass" /\ pc[j] \in EarlyPlaces /\ status[j] = None
  BY CompilePath DEF PassStatistics, EarlyPlaces, LogInv
<1>2. None # "pass" /\ None # "pass-fallback"
  BY NoneAssumption DEF Statuses
<1>3. CASE /\ log' = [log EXCEPT ![Key[j]] = [by |-> j, total |-> Checks[j]]]
           /\ Goto(j, "passend") /\ UNCHANGED status
  <2>1. PICK e : e = [by |-> j, total |-> Checks[j]]
    OBVIOUS
  <2>2. Checks[j] \in Nat
    BY <1>1, WrapperAssumption DEF Compiles
  <2>3. e # None /\ e.total = Checks[j]
    BY <2>1, <2>2, NoneAssumption
  <2>4. pc'[j] = "passend" /\ status'[j] = None /\ log'[Key[j]] = e
    BY <1>1, <1>3, <2>1 DEF Goto, IInv, TypeOK, Keys
  <2>5. OwnLog(j)'
    BY <1>2, <2>3, <2>4 DEF OwnLog, LogIs
  <2>6. "passend" # "waiting" /\ \E n : log' = [log EXCEPT ![Key[j]] = [by |-> j, total |-> n]]
    BY <1>3
  <2> QED
    BY <1>1, <1>3, <2>5, <2>6, LogOfGoto
<1>4. CASE FallBack(j, "pass-fallback") /\ UNCHANGED log
  <2>1. Alone(j) => LogIs(j, {0, Checks[j]})
    BY <1>1 DEF LogInv, OwnLog, LogIs
  <2>2. "pass-fallback" \in Statuses /\ "pass-fallback" # "pass"
    BY DEF Statuses
  <2> QED
    BY <1>1, <1>4, <2>1, <2>2, LogOfFallBack
<1>5. CASE Goto(j, "hung") /\ UNCHANGED <<status, log>>
  <2>1. pc'[j] = "hung" /\ status'[j] = None
    BY <1>1, <1>5 DEF Goto, IInv, TypeOK
  <2>2. Alone(j) /\ OwnLog(j) => OwnLog(j)'
    BY <1>1, <1>2, <1>5, <2>1 DEF OwnLog, LogIs
  <2> QED
    BY <1>1, <1>5, <2>2, LogOfGoto
<1> QED
  BY <1>3, <1>4, <1>5 DEF PassStatistics

LEMMA LogOfPassEnds == ASSUME IInv, LogInv, NEW j \in Jobs, PassEnds(j) PROVE LogInv'
<1>1. j \in Compiles /\ pc[j] = "passend" /\ pc[j] \in EarlyPlaces /\ status[j] = None /\ log' = log
  BY CompilePath DEF PassEnds, EarlyPlaces, LogInv
<1>2. None # "pass" /\ None # "pass-fallback"
  BY NoneAssumption DEF Statuses
<1>3. ASSUME NEW l \in {"lower", "hung"}, Goto(j, l), UNCHANGED status PROVE LogInv'
  <2>1. pc'[j] = l /\ status'[j] = None
    BY <1>1, <1>3 DEF Goto, IInv, TypeOK
  <2>2. Alone(j) /\ OwnLog(j) => OwnLog(j)'
    BY <1>1, <1>2, <2>1 DEF OwnLog, LogIs
  <2> QED
    BY <1>1, <1>3, <2>2, LogOfGoto
<1>4. CASE FallBack(j, "pass-fallback")
  <2>1. Alone(j) => LogIs(j, {0, Checks[j]})
    BY <1>1 DEF LogInv, OwnLog, LogIs
  <2>2. "pass-fallback" \in Statuses /\ "pass-fallback" # "pass"
    BY DEF Statuses
  <2> QED
    BY <1>1, <1>4, <2>1, <2>2, LogOfFallBack
<1> QED
  BY <1>3, <1>4 DEF PassEnds

LEMMA LogOfTimeout == ASSUME IInv, LogInv, NEW j \in Jobs, TimeoutFires(j) PROVE LogInv'
<1>1. j \in Compiles /\ pc[j] = "hung" /\ pc[j] \in EarlyPlaces /\ log' = log
  BY CompilePath DEF TimeoutFires, EarlyPlaces
<1>2. Alone(j) => LogIs(j, {0, Checks[j]})
  BY <1>1 DEF LogInv, OwnLog
<1>3. "pass-fallback" \in Statuses /\ "pass-fallback" # "pass"
  BY DEF Statuses
<1> QED
  BY <1>1, <1>2, <1>3, LogOfFallBack DEF TimeoutFires

LEMMA LogOfLower == ASSUME IInv, LogInv, NEW j \in Jobs, Lower(j) PROVE LogInv'
<1>1. j \in Compiles /\ pc[j] = "lower" /\ pc[j] \in EarlyPlaces /\ log' = log
  BY CompilePath DEF Lower, EarlyPlaces
<1>2. CASE Record(j, "pass")
  <2>1. Alone(j) => LogIs(j, {Checks[j]})
    BY <1>1 DEF LogInv, OwnLog
  <2>2. Alone(j) => LogIs(j, {Checks[j]})'
    BY <1>1, <2>1 DEF LogIs
  <2>3. "pass" \in Statuses /\ "pass" # "pass-fallback"
    BY DEF Statuses
  <2> QED
    BY <1>1, <1>2, <2>2, <2>3, LogOfRecord
<1>3. CASE FallBack(j, "lower-fallback")
  <2>1. "lower-fallback" \in Statuses /\ "lower-fallback" # "pass" /\ "lower-fallback" # "pass-fallback"
    BY DEF Statuses
  <2> QED
    BY <1>1, <1>3, <2>1, LogOfFallBack
<1> QED
  BY <1>2, <1>3 DEF Lower

\* From its record on a job does not change its status or its log.
LEMMA LogOfLate ==
    ASSUME IInv, LogInv, NEW j \in Jobs,
           DirectCompile(j) \/ CheckHeader(j) \/ OpenHeader(j) \/ WriteHeader(j) \/ AppendRow(j)
    PROVE  LogInv'
<1>1. j \in Compiles
  BY CompilePath DEF DirectCompile, CheckHeader, OpenHeader, WriteHeader, AppendRow
<1>2. PICK l : Goto(j, l) /\ l \in {"ok", "failed", "row", "openheader", "writeheader", "direct"}
  BY DEF DirectCompile, CheckHeader, OpenHeader, WriteHeader, AppendRow
<1>3. UNCHANGED <<status, log>>
  BY DEF DirectCompile, CheckHeader, OpenHeader, WriteHeader, AppendRow, shared
<1>4. pc'[j] = l /\ status'[j] = status[j]
  BY <1>1, <1>2, <1>3 DEF Goto, IInv, TypeOK, Compiles
<1>5. l \notin EarlyPlaces /\ l # "waiting"
  BY <1>2 DEF EarlyPlaces
<1>6. Alone(j) /\ OwnLog(j) => OwnLog(j)'
  BY <1>2, <1>3, <1>4 DEF OwnLog, LogIs
<1> QED
  BY <1>1, <1>2, <1>3, <1>5, <1>6, LogOfGoto

LEMMA LogOfInterrupt == ASSUME IInv, LogInv, Interrupt PROVE LogInv'
<1>1. /\ \A j \in Jobs : pc'[j] \in {"ok", "failed", "killed"}
      /\ UNCHANGED <<status, log>>
  BY DEF Interrupt, shared
<1>2. \A j \in Jobs : j \in Links => status[j] = None
  BY DEF LogInv
<1>3. ASSUME NEW j \in Compiles, Alone(j)' PROVE OwnLog(j)'
  <2>1. Alone(j)
    BY <1>1, <1>3 DEF Alone, Compiles
  <2>2. OwnLog(j)
    BY <2>1 DEF LogInv
  <2> QED
    BY <1>1, <2>2 DEF OwnLog, LogIs, Compiles
<1> QED
  BY <1>1, <1>2, <1>3 DEF LogInv, EarlyPlaces

LEMMA LogNext == IInv /\ LogInv /\ [Next]_vars => LogInv'
<1> SUFFICES ASSUME IInv, LogInv, [Next]_vars PROVE LogInv'
  OBVIOUS
<1>1. ASSUME NEW j \in Jobs, Step(j) PROVE LogInv'
  BY <1>1, LogOfStart, LogOfLink, LogOfSidecar, LogOfCompileIR, LogOfStartPass, LogOfPassStatistics,
     LogOfPassEnds, LogOfTimeout, LogOfLower, LogOfLate DEF Step
<1>2. CASE Interrupt
  BY <1>2, LogOfInterrupt
<1>3. CASE UNCHANGED vars
  BY <1>3 DEF LogInv, Alone, OwnLog, LogIs, vars, shared
<1> QED
  BY <1>1, <1>2, <1>3 DEF Next

LEMMA LogInvariance == Spec => []LogInv
<1>1. Init => LogInv
  BY NoneAssumption DEF Init, LogInv, OwnLog, Statuses, Compiles
<1> QED
  BY <1>1, LogNext, Invariance, PTL DEF Spec

\* The checks that the log of a job adds to the summary.
Added == [j \in Jobs |-> IF RowsOf(j) # {} /\ status[j] \in Logged /\ log[Key[j]] # None
                         THEN log[Key[j]].total ELSE 0]

LEMMA AddedTypes == ASSUME TypeOK PROVE \A j \in Jobs : Added[j] \in Nat
  BY DEF TypeOK, Added, Keys

\* The sum over the lines of the records file is that over the jobs.
LEMMA TotalIsAdded ==
    ASSUME IInv, records # << >> => records[1] = Header
    PROVE  total_checks = SumOver(Added, Jobs)
<1>1. CountedRows = {i \in DOMAIN records : records[i].job \in Jobs} /\ IsFiniteSet(CountedRows)
  BY CountedFacts
<1>2. PICK b : b = [i \in CountedRows |-> records[i].job]
  OBVIOUS
<1>3. ASSUME NEW i \in CountedRows
      PROVE  b[i] \in Jobs /\ Added[b[i]] = ReadTotals[i]
  <2>1. i \in DOMAIN records /\ records[i].job \in Jobs /\ b[i] = records[i].job
    BY <1>1, <1>2
  <2>2. records[i].status = status[b[i]]
    BY <2>1 DEF IInv, NoRowYet
  <2>3. RowsOf(b[i]) # {}
    BY <2>1 DEF RowsOf
  <2> QED
    BY <2>1, <2>2, <2>3 DEF Added, ReadTotals
<1>4. \A h, i \in CountedRows : b[h] = b[i] => h = i
  BY <1>1, <1>2 DEF IInv, OneRowEach
<1>5. ASSUME NEW j \in Jobs, \A i \in CountedRows : b[i] # j PROVE Added[j] = 0
  <2>1. RowsOf(j) = {}
    BY <1>1, <1>2, <1>5 DEF RowsOf
  <2> QED
    BY <2>1 DEF Added
<1>6. \A j \in Jobs : Added[j] \in Int
  BY AddedTypes DEF IInv
<1>7. \A i \in CountedRows : ReadTotals[i] \in Int
  BY <1>3, <1>6
<1>8. IsFiniteSet(Jobs)
  BY WrapperAssumption
<1>9. SumOver(ReadTotals, CountedRows) = SumOver(Added, Jobs)
  BY <1>1, <1>3, <1>4, <1>5, <1>6, <1>7, <1>8, SumRenamed
<1> QED
  BY <1>9 DEF total_checks

LEMMA TotalIsBetween ==
    ASSUME IInv, HInv, LogInv, Undisturbed,
           \A i, j \in Compiles : i # j /\ Key[i] = Key[j] => "waiting" \in {pc[i], pc[j]}
    PROVE  total_checks \in ChecksOf({"pass"})..ChecksOf({"pass", "pass-fallback"})
<1>1. records # << >> => records[1] = Header
  BY DEF Undisturbed, HInv, HeaderPhases
<1>2. PICK low : low = [j \in Jobs |-> IF RowsOf(j) # {} /\ status[j] \in {"pass"} THEN Checks[j] ELSE 0]
  OBVIOUS
<1>3. PICK high : high = [j \in Jobs |-> IF RowsOf(j) # {} /\ status[j] \in {"pass", "pass-fallback"}
                                         THEN Checks[j] ELSE 0]
  OBVIOUS
<1>4. ChecksOf({"pass"}) = SumOver(low, Jobs) /\ ChecksOf({"pass", "pass-fallback"}) = SumOver(high, Jobs)
  BY <1>2, <1>3 DEF ChecksOf
<1>5. \A j \in Jobs : Checks[j] \in Nat /\ Added[j] \in Int /\ low[j] \in Int /\ high[j] \in Int
  BY <1>2, <1>3, WrapperAssumption, AddedTypes DEF IInv
<1>6. ASSUME NEW j \in Jobs, RowsOf(j) # {}, status[j] \in Logged
      PROVE  /\ Added[j] = log[Key[j]].total
             /\ status[j] = "pass" => Added[j] = Checks[j]
             /\ status[j] = "pass-fallback" => Added[j] \in {0, Checks[j]}
  <2>1. j \in Compiles
    BY <1>6, NoneAssumption DEF LogInv, Compiles, Logged, Statuses
  <2>2. pc[j] # "waiting"
    <3>1. PICK i \in DOMAIN records : records[i].job = j
      BY <1>6 DEF RowsOf
    <3> QED
      BY <3>1 DEF IInv, NoRowYet
  <2>3. Alone(j)
    BY <2>1, <2>2 DEF Alone
  <2>4. OwnLog(j)
    BY <2>1, <2>3 DEF LogInv
  <2> QED
    BY <1>6, <2>4 DEF OwnLog, LogIs, Added, Logged
<1>7. \A j \in Jobs : low[j] <= Added[j] /\ Added[j] <= high[j]
  <2> SUFFICES ASSUME NEW j \in Jobs PROVE low[j] <= Added[j] /\ Added[j] <= high[j]
    OBVIOUS
  <2>1. CASE RowsOf(j) # {} /\ status[j] \in Logged
    BY <1>2, <1>3, <1>5, <1>6, <2>1 DEF Logged
  <2>2. CASE ~(RowsOf(j) # {} /\ status[j] \in Logged)
    BY <1>2, <1>3, <2>2 DEF Logged, Added
  <2> QED
    BY <2>1, <2>2
<1>8. IsFiniteSet(Jobs)
  BY WrapperAssumption
<1>9. SumOver(low, Jobs) <= SumOver(Added, Jobs) /\ SumOver(Added, Jobs) <= SumOver(high, Jobs)
  BY <1>5, <1>7, <1>8, SumMonotone
<1>10. SumOver(low, Jobs) \in Int /\ SumOver(Added, Jobs) \in Int /\ SumOver(high, Jobs) \in Int
  BY <1>5, <1>8, SumType
<1>11. \A a, m, z \in Int : a <= m /\ m <= z => m \in a..z
  OBVIOUS
<1> QED
  BY <1>1, <1>4, <1>9, <1>10, <1>11, TotalIsAdded

\* parse_records: the summary of an undisturbed build counts every job that
\* recorded and, if no two used the same file names, the checks of the objects
\* that were optimized, with those of failed passes at most.
THEOREM SummaryIsComplete == Spec => []SummaryComplete
<1>1. IInv /\ HInv /\ LogInv => SummaryComplete
  BY CountedAreRows, TotalIsBetween DEF SummaryComplete, UnitsComplete, Undisturbed, HInv, HeaderPhases
<1> QED
  BY <1>1, Invariance, HeaderInvariance, LogInvariance, PTL
=============================================================================
