--------------------------- MODULE OssBatchProofs ---------------------------
(* Proofs about OssBatch, for any projects, waves, shards and task lists,   *)
(* and any number of starts.                                                *)
(*                                                                          *)
(* The invariants come in layers, each of which uses the ones before:       *)
(* which shards are alive and what they work at; what a task has left in    *)
(* its out_root, its summaries and the status files; the sources and who    *)
(* disturbs whom; the merged rows; the tables of the comparison.            *)
EXTENDS OssBatch, FiniteSetTheorems, SequenceTheorems, FiniteFacts, TLAPS

-----------------------------------------------------------------------------
(* The constants. *)

\* The comparison's only shard.
TheShard == CHOOSE x \in AllShards : Shards[Comparison] = {x}

\* The comparison has one shard, which belongs to no batch wave.
LEMMA ComparisonShard ==
    /\ Shards[Comparison] = {TheShard} /\ TheShard \in AllShards
    /\ AllShards = ShardsOf(Batches) \cup {TheShard}
    /\ TheShard \notin ShardsOf(Batches)
<1>1. Shards[Comparison] = {TheShard} /\ TheShard \in AllShards
  BY BatchAssumption DEF TheShard
<1>2. AllShards = ShardsOf(Batches) \cup {TheShard}
  BY <1>1, BatchAssumption DEF AllShards, ShardsOf, Batches
<1>3. TheShard \notin ShardsOf(Batches)
  <2> SUFFICES ASSUME NEW v \in Batches, TheShard \in Shards[v] PROVE FALSE
    BY DEF ShardsOf
  <2>1. v \in Nat /\ Comparison \in Nat /\ v # Comparison /\ v \in Waves
    BY BatchAssumption DEF Batches
  <2>2. v < Comparison \/ Comparison < v
    BY <2>1
  <2>3. TheShard < TheShard
    BY <1>1, <2>1, <2>2, BatchAssumption
  <2>4. TheShard \in Nat
    BY <1>1, BatchAssumption
  <2> QED
    BY <2>3, <2>4
<1> QED
  BY <1>1, <1>2, <1>3

\* A shard belongs to one wave.
LEMMA OneWaveEach ==
    ASSUME NEW u \in Waves, NEW v \in Waves, NEW x \in Shards[u], x \in Shards[v]
    PROVE  u = v
<1>1. u \in Nat /\ v \in Nat /\ x \in Nat
  BY BatchAssumption
<1>2. CASE u < v
  <2>1. x < x
    BY <1>2, BatchAssumption
  <2> QED
    BY <2>1, <1>1
<1>3. CASE v < u
  <2>1. x < x
    BY <1>3, BatchAssumption
  <2> QED
    BY <2>1, <1>1
<1> QED
  BY <1>1, <1>2, <1>3

\* Task lists are sequences of keys, not empty and without repetition.
LEMMA TaskLists ==
    ASSUME NEW x \in AllShards
    PROVE  /\ Tasks[x] \in Seq(Keys) /\ Len(Tasks[x]) \in Nat /\ Len(Tasks[x]) >= 1
           /\ DOMAIN Tasks[x] = 1..Len(Tasks[x])
           /\ \A i \in 1..Len(Tasks[x]) : Tasks[x][i] \in Keys
           /\ \A i, j \in 1..Len(Tasks[x]) : Tasks[x][i] = Tasks[x][j] => i = j
<1>1. Tasks[x] \in Seq(Keys) /\ Tasks[x] # << >> /\ IsInjective(Tasks[x])
  BY BatchAssumption
<1>2. Len(Tasks[x]) \in Nat /\ DOMAIN Tasks[x] = 1..Len(Tasks[x]) /\ Len(Tasks[x]) >= 1
  BY <1>1
<1> QED
  BY <1>1, <1>2 DEF IsInjective

\* A batch never runs a key of the comparison.
LEMMA BatchKeys ==
    ASSUME NEW x \in ShardsOf(Batches), NEW i \in 1..Len(Tasks[x])
    PROVE  Tasks[x][i] \notin Compared
  BY BatchAssumption, TaskLists, ComparisonShard DEF ToSet

\* The keys of the comparison are the tasks of its shard.
LEMMA ComparedKeys ==
    /\ Compared \subseteq Keys
    /\ \A i \in 1..Len(Tasks[TheShard]) : Tasks[TheShard][i] \in Compared
  BY ComparisonShard, TaskLists DEF Compared, ToSet

-----------------------------------------------------------------------------
(* Layer 1: waves, shards and places. *)

Busy == {"clear", "unlink", "source", "unpack", "install", "clone", "build", "run", "summarize", "row"}
Places == Over \cup {"next"} \cup Busy

WaveTypes ==
    /\ starts \in 0..MaxStarts /\ active \subseteq Waves
    /\ run \in [AllShards -> 0..starts]
    /\ pc \in [AllShards -> Places]
    /\ at \in [AllShards -> Nat]

\* A shard that is at work has a task, and has been started.
PlaceFits ==
    \A x \in AllShards :
        /\ at[x] \in 1..(Len(Tasks[x]) + 1)
        /\ pc[x] \in Busy => at[x] <= Len(Tasks[x])
        /\ pc[x] = "done" => at[x] > Len(Tasks[x])
        /\ pc[x] \in {"next"} \cup Busy => run[x] >= 1

\* Only shards of active waves are alive, and one batch wave is active at most.
ActiveWaves ==
    /\ \A v \in Waves : \A x \in Shards[v] : pc[x] \notin Over => v \in active
    /\ \A u, v \in active \cap Batches : u = v

WInv == WaveTypes /\ PlaceFits /\ ActiveWaves

\* The current task of a busy shard is a task of it.
LEMMA BusyKey ==
    ASSUME WInv, NEW x \in AllShards, pc[x] \in Busy
    PROVE  /\ at[x] \in 1..Len(Tasks[x]) /\ Key(x) \in Keys /\ Key(x)[1] = Project(x)
           /\ Project(x) \in Projects
           /\ x \in ShardsOf(Batches) <=> Key(x) \notin Compared
<1>1. at[x] \in 1..Len(Tasks[x]) /\ Key(x) \in Keys
  BY TaskLists DEF WInv, WaveTypes, PlaceFits, Key
<1>2. Key(x)[1] = Project(x) /\ Project(x) \in Projects
  BY <1>1 DEF Project, Keys
<1>3. x \in ShardsOf(Batches) => Key(x) \notin Compared
  BY <1>1, BatchKeys DEF Key
<1>4. x \notin ShardsOf(Batches) => Key(x) \in Compared
  BY <1>1, ComparedKeys, ComparisonShard DEF Key
<1> QED
  BY <1>1, <1>2, <1>3, <1>4

\* Two shards that are alive have no task in common.
LEMMA LiveApart ==
    ASSUME WInv, NEW x \in AllShards, NEW y \in AllShards, x # y,
           pc[x] \notin Over, pc[y] \notin Over,
           NEW i \in 1..Len(Tasks[x]), NEW j \in 1..Len(Tasks[y])
    PROVE  Tasks[x][i] # Tasks[y][j]
<1>1. CASE x \in ShardsOf(Batches) /\ y \in ShardsOf(Batches)
  <2>1. PICK u \in Batches, v \in Batches : x \in Shards[u] /\ y \in Shards[v]
    BY <1>1 DEF ShardsOf
  <2>2. u \in Waves /\ v \in Waves
    BY DEF Batches
  <2>3. u = v
    BY <2>1, <2>2 DEF WInv, ActiveWaves
  <2>4. Tasks[x][i][1] # Tasks[y][j][1]
    BY <2>1, <2>2, <2>3, BatchAssumption, TaskLists
  <2> QED
    BY <2>4
<1>2. CASE x = TheShard \/ y = TheShard
  BY <1>2, ComparisonShard, BatchKeys, ComparedKeys
<1> QED
  BY <1>1, <1>2, ComparisonShard

\* What a step of run_one does to its shard: it goes on with the task, writes
\* the row and turns to the next task, crashes, or ends.
Moves(x, l) ==
    /\ pc[x] \notin Over
    /\ pc' = [pc EXCEPT ![x] = l]
    /\ UNCHANGED <<starts, active, run>>
    /\ \/ l \in Busy /\ at[x] <= Len(Tasks[x]) /\ at' = at
       \/ l = "next" /\ pc[x] = "row" /\ at' = [at EXCEPT ![x] = @ + 1]
       \/ l = "crashed" /\ pc[x] = "clear" /\ at' = at
       \/ l = "done" /\ pc[x] = "next" /\ at[x] > Len(Tasks[x]) /\ at' = at

\* Every step of a shard is such a move.
LEMMA StepMoves ==
    ASSUME WInv, NEW x \in AllShards, RunOne(x) \/ Finish(x)
    PROVE  \E l \in Places : Moves(x, l)
<1> USE DEF Goto, Decide, Places, Busy, Over
<1>0. pc[x] \in Busy => at[x] <= Len(Tasks[x])
  BY DEF WInv, PlaceFits
<1>1. CASE RemoveOut(x)
  BY <1>1 DEF RemoveOut, Moves
<1>2. CASE RemoveSummary(x)
  BY <1>0, <1>2 DEF RemoveSummary, Moves
<1>3. CASE Download(x)
  BY <1>0, <1>3 DEF Download, Moves
<1>4. CASE Unpack(x)
  BY <1>0, <1>4 DEF Unpack, Moves
<1>5. CASE Install(x)
  BY <1>0, <1>5 DEF Install, Moves
<1>6. CASE PrepareGit(x)
  BY <1>0, <1>6 DEF PrepareGit, Moves
<1>7. CASE CloneEnds(x)
  BY <1>0, <1>7 DEF CloneEnds, Moves
<1>8. CASE BuildVariant(x)
  BY <1>0, <1>8 DEF BuildVariant, Built, Moves
<1>9. CASE RunVariants(x)
  BY <1>0, <1>9 DEF RunVariants, Moves
<1>10. CASE Summarize(x)
  BY <1>0, <1>10 DEF Summarize, Moves
<1>11. CASE WriteRow(x)
  BY <1>0, <1>11 DEF WriteRow, Moves
<1>12. CASE Finish(x)
  BY <1>12 DEF Finish, Moves
<1>13. CASE OutRemoved(x)
  BY <1>0, <1>13 DEF OutRemoved, Moves
<1> QED
  BY <1>1, <1>2, <1>3, <1>4, <1>5, <1>6, <1>7, <1>8, <1>9, <1>10, <1>11, <1>12, <1>13 DEF RunOne

\* A move keeps the first layer.
LEMMA MoveInv ==
    ASSUME WInv, NEW x \in AllShards, NEW l \in Places, Moves(x, l)
    PROVE  WInv'
<1> USE TaskLists
<1>1. WaveTypes'
  <2>1. pc' \in [AllShards -> Places]
    BY DEF WInv, WaveTypes, Moves
  <2>2. at' \in [AllShards -> Nat]
    BY DEF WInv, WaveTypes, Moves
  <2>3. UNCHANGED <<starts, active, run>>
    BY DEF Moves
  <2> QED
    BY <2>1, <2>2, <2>3 DEF WInv, WaveTypes
<1>2. PlaceFits'
  <2> SUFFICES ASSUME NEW y \in AllShards
               PROVE  /\ at'[y] \in 1..(Len(Tasks[y]) + 1)
                      /\ pc'[y] \in Busy => at'[y] <= Len(Tasks[y])
                      /\ pc'[y] = "done" => at'[y] > Len(Tasks[y])
                      /\ pc'[y] \in {"next"} \cup Busy => run'[y] >= 1
    BY DEF PlaceFits
  <2>1. at[y] \in Nat /\ Len(Tasks[y]) \in Nat
    BY DEF WInv, WaveTypes
  <2>2. CASE y # x
    BY <2>1, <2>2 DEF WInv, WaveTypes, PlaceFits, Moves
  <2>3. CASE y = x
    <3>1. pc[x] \in {"next"} \cup Busy /\ pc'[x] = l /\ run'[x] = run[x] /\ run[x] >= 1
      BY DEF WInv, WaveTypes, PlaceFits, Moves, Places
    <3>2. pc[x] \in Busy => at[x] <= Len(Tasks[x])
      BY DEF WInv, PlaceFits
    <3>3. CASE l \in Busy
      BY <2>1, <2>3, <3>1, <3>2, <3>3 DEF WInv, WaveTypes, PlaceFits, Moves, Busy
    <3>4. CASE l = "next" /\ pc[x] = "row" /\ at' = [at EXCEPT ![x] = @ + 1]
      BY <2>1, <2>3, <3>1, <3>2, <3>4 DEF WInv, WaveTypes, PlaceFits, Busy
    <3>5. CASE l \in {"crashed", "done"} /\ at' = at /\ (l = "done" => at[x] > Len(Tasks[x]))
      BY <2>1, <2>3, <3>1, <3>2, <3>5 DEF WInv, WaveTypes, PlaceFits, Busy
    <3> QED
      BY <3>3, <3>4, <3>5 DEF Moves
  <2> QED
    BY <2>2, <2>3
<1>3. ActiveWaves'
  BY DEF WInv, WaveTypes, ActiveWaves, Moves
<1> QED
  BY <1>1, <1>2, <1>3 DEF WInv

\* A start of a wave, from task first on.
LEMMA StartedInv ==
    ASSUME WInv, NEW v \in Waves, NEW first, Started(v, first),
           \A x \in Shards[v] : first \in 1..Len(Tasks[x]),
           v \in Batches => active \cap Batches = {}
    PROVE  WInv'
<1>1. Shards[v] \subseteq AllShards
  BY DEF AllShards, ShardsOf
<1>2. starts' = starts + 1 /\ starts' \in 0..MaxStarts /\ starts \in Nat
  BY BatchAssumption DEF WInv, WaveTypes, Started
<1>3. WaveTypes'
  BY <1>1, <1>2 DEF WInv, WaveTypes, Started, Places, Busy
<1>4. PlaceFits'
  <2> SUFFICES ASSUME NEW y \in AllShards
               PROVE  /\ at'[y] \in 1..(Len(Tasks[y]) + 1)
                      /\ pc'[y] \in Busy => at'[y] <= Len(Tasks[y])
                      /\ pc'[y] = "done" => at'[y] > Len(Tasks[y])
                      /\ pc'[y] \in {"next"} \cup Busy => run'[y] >= 1
    BY DEF PlaceFits
  <2>1. at[y] \in Nat /\ Len(Tasks[y]) \in Nat
    BY TaskLists DEF WInv, WaveTypes
  <2>2. CASE y \in Shards[v]
    <3>1. pc'[y] = "next" /\ run'[y] = starts + 1 /\ at'[y] = first
      BY <2>2 DEF Started
    <3> QED
      BY <1>2, <2>1, <2>2, <3>1 DEF Busy
  <2>3. CASE y \notin Shards[v]
    BY <2>1, <2>3 DEF WInv, PlaceFits, Started
  <2> QED
    BY <2>2, <2>3
<1>5. ActiveWaves'
  <2>1. ASSUME NEW w \in Waves, NEW y \in Shards[w], pc'[y] \notin Over PROVE w \in active'
    <3>1. y \in AllShards
      BY DEF AllShards, ShardsOf
    <3>2. CASE y \in Shards[v]
      BY <3>2, OneWaveEach DEF Started
    <3>3. CASE y \notin Shards[v]
      BY <2>1, <3>1, <3>3 DEF Started, WInv, ActiveWaves
    <3> QED
      BY <3>2, <3>3
  <2>2. \A u, w \in active' \cap Batches : u = w
    BY DEF Started, WInv, ActiveWaves
  <2> QED
    BY <2>1, <2>2 DEF ActiveWaves
<1> QED
  BY <1>3, <1>4, <1>5 DEF WInv

\* The tasks of every shard of a batch begin with the first, those of the
\* comparison with any.
LEMMA StartsFit ==
    ASSUME WInv
    PROVE  /\ \A v \in Batches : StartWave(v) => WInv'
           /\ StartComparison => WInv'
<1>1. ASSUME NEW v \in Batches, StartWave(v) PROVE WInv'
  <2>1. v \in Waves /\ \A x \in Shards[v] : x \in AllShards
    BY DEF Batches, AllShards, ShardsOf
  <2>2. \A x \in Shards[v] : 1 \in 1..Len(Tasks[x])
    BY <2>1, TaskLists
  <2> QED
    BY <1>1, <2>1, <2>2, StartedInv DEF StartWave
<1>2. ASSUME StartComparison PROVE WInv'
  <2>1. PICK first \in UNION {DOMAIN Tasks[x] : x \in Shards[Comparison]} : Started(Comparison, first)
    BY <1>2 DEF StartComparison
  <2>2. \A x \in Shards[Comparison] : first \in 1..Len(Tasks[x])
    BY ComparisonShard, TaskLists
  <2> QED
    BY <2>1, <2>2, StartedInv, BatchAssumption DEF Batches
<1> QED
  BY <1>1, <1>2

\* The first layer holds in every reachable state.
LEMMA WaveInvariance == Spec => []WInv
<1>1. Init => WInv
  <2> SUFFICES ASSUME Init PROVE WInv
    OBVIOUS
  <2>1. WaveTypes
    BY BatchAssumption DEF Init, WaveTypes, Places, Over
  <2>2. PlaceFits
    BY TaskLists DEF Init, PlaceFits, Busy
  <2>3. ActiveWaves
    BY DEF Init, ActiveWaves, Over, AllShards, ShardsOf
  <2> QED
    BY <2>1, <2>2, <2>3 DEF WInv
<1>2. WInv /\ [Next]_vars => WInv'
  <2> SUFFICES ASSUME WInv, [Next]_vars PROVE WInv'
    OBVIOUS
  <2>1. ASSUME NEW v \in Batches, StartWave(v) PROVE WInv'
    BY <2>1, StartsFit
  <2>2. CASE StartComparison
    BY <2>2, StartsFit
  <2>3. ASSUME NEW v \in Waves, KillWave(v) PROVE WInv'
    BY <2>3 DEF KillWave, WInv, WaveTypes, PlaceFits, ActiveWaves, Places, Busy, Over, AllShards, ShardsOf
  <2>4. ASSUME NEW v \in Waves, WaveEnds(v) PROVE WInv'
    <3>1. UNCHANGED <<starts, run, pc, at>> /\ active' = active \ {v} /\ \A x \in Shards[v] : pc[x] \in Over
      BY <2>4 DEF WaveEnds, shards
    <3>2. WaveTypes' /\ PlaceFits'
      BY <3>1 DEF WInv, WaveTypes, PlaceFits
    <3>3. ActiveWaves'
      BY <3>1 DEF WInv, ActiveWaves
    <3> QED
      BY <3>2, <3>3 DEF WInv
  <2>5. ASSUME NEW x \in ShardsOf(Batches), ShardStep(x) PROVE WInv'
    BY <2>5, StepMoves, MoveInv, ComparisonShard DEF ShardStep
  <2>6. ASSUME NEW x \in Shards[Comparison], ComparisonStep(x) PROVE WInv'
    BY <2>6, StepMoves, MoveInv, ComparisonShard DEF ComparisonStep, CollectResults
  <2>7. CASE Collect \/ UNCHANGED vars
    BY <2>7 DEF Collect, vars, shards, WInv, WaveTypes, PlaceFits, ActiveWaves
  <2> QED
    BY <2>1, <2>2, <2>3, <2>4, <2>5, <2>6, <2>7 DEF Next
<1> QED
  BY <1>1, <1>2, PTL DEF Spec

-----------------------------------------------------------------------------
(* Layer 2: what the task of a shard, and the last run of a key, have left. *)

OutRecord == [run : 1..starts, used : BOOLEAN, built : 0..Variants, timed : BOOLEAN, whole : BOOLEAN]

TaskTypes ==
    /\ outcome \in [AllShards -> {"S", "FAIL", None}]
    /\ out \in [Keys -> {None} \cup OutRecord]
    /\ summary \in [Keys -> {None} \cup 1..starts]
    /\ last \in [Keys -> 0..starts]
    /\ reported \in [Keys -> StatusRow \cup {None}]

\* The run of a busy shard is the latest of its key and has no row yet; when
\* the old results are gone, its out_root is its own, and the summary, if there
\* is one, too.
WorkFits(x) ==
    pc[x] \in Busy =>
        LET k == Key(x)
        IN  /\ last[k] = run[x]
            /\ reported[k] # None => reported[k].run < run[x]
            /\ pc[x] \notin {"clear", "unlink"} => out[k] \in OutRecord /\ out[k].run = run[x]
            /\ pc[x] \in {"source", "unpack", "install", "clone", "build"} => out[k].built < Variants
            /\ pc[x] \in {"run", "summarize"} => out[k].built = Variants
            /\ pc[x] = "summarize" => out[k].timed
            /\ pc[x] \notin {"clear", "unlink", "row"} => summary[k] = None
            /\ pc[x] = "row" =>
                  /\ outcome[x] \in {"S", "FAIL"}
                  /\ outcome[x] = "S" => out[k].built = Variants /\ out[k].timed
                  /\ summary[k] # None => outcome[x] = "S" /\ summary[k] = run[x]

\* The tasks ahead of a shard have not been begun in its run.
TasksAhead(x) ==
    pc[x] \notin Over =>
        \A i \in 1..Len(Tasks[x]) :
            i > at[x] \/ (i = at[x] /\ pc[x] = "next") => last[Tasks[x][i]] < run[x]

\* The latest row of a key: the results it speaks of are there when no later
\* run has begun, the summary is its own or of a later run.
ReportFits(k) ==
    /\ summary[k] # None => summary[k] <= last[k]
    /\ reported[k] # None =>
        /\ reported[k].run <= last[k]
        /\ reported[k].run = last[k] /\ reported[k].status = "S" =>
              /\ out[k] \in OutRecord /\ out[k].run = last[k]
              /\ out[k].built = Variants /\ out[k].timed
        /\ summary[k] # None /\ summary[k] <= reported[k].run =>
              reported[k].status = "S" /\ summary[k] = reported[k].run

TInv ==
    /\ TaskTypes
    /\ \A x \in AllShards : WorkFits(x) /\ TasksAhead(x)
    /\ \A k \in Keys : ReportFits(k)

\* What belongs to one key alone.
KeyState(k) == <<out[k], summary[k], last[k], reported[k]>>

\* A move that touches nothing but its own key and shard keeps the invariant
\* of all others.
LEMMA OthersKeep ==
    ASSUME WInv, TInv, NEW x \in AllShards, NEW l \in Places, Moves(x, l),
           at[x] \in 1..Len(Tasks[x]),
           \A q \in Keys \ {Key(x)} : KeyState(q)' = KeyState(q),
           \A y \in AllShards \ {x} : outcome'[y] = outcome[y]
    PROVE  /\ \A y \in AllShards \ {x} : WorkFits(y)' /\ TasksAhead(y)'
           /\ \A q \in Keys \ {Key(x)} : ReportFits(q)'
<1>1. ASSUME NEW y \in AllShards \ {x}
      PROVE  /\ pc'[y] = pc[y] /\ at'[y] = at[y] /\ run'[y] = run[y] /\ Key(y)' = Key(y)
             /\ starts' = starts
  BY DEF Moves, Key, WInv, WaveTypes
<1>2. ASSUME NEW y \in AllShards \ {x}, pc[y] \notin Over, NEW i \in 1..Len(Tasks[y])
      PROVE  Tasks[y][i] \in Keys \ {Key(x)}
  <2>1. Tasks[y][i] # Tasks[x][at[x]]
    BY <1>2, LiveApart DEF Moves
  <2> QED
    BY <2>1, TaskLists DEF Key
<1>3. OutRecord' = OutRecord
  BY DEF OutRecord, Moves
<1>4. ASSUME NEW y \in AllShards \ {x} PROVE WorkFits(y)'
  <2> SUFFICES ASSUME pc[y] \in Busy PROVE WorkFits(y)'
    BY <1>1 DEF WorkFits
  <2>1. Key(y) \in Keys \ {Key(x)}
    BY <1>2, BusyKey DEF Key, Busy, Over
  <2>2. /\ out'[Key(y)] = out[Key(y)] /\ summary'[Key(y)] = summary[Key(y)]
        /\ last'[Key(y)] = last[Key(y)] /\ reported'[Key(y)] = reported[Key(y)]
    BY <2>1 DEF KeyState
  <2> QED
    BY <1>1, <1>3, <2>2 DEF TInv, WorkFits
<1>5. ASSUME NEW y \in AllShards \ {x} PROVE TasksAhead(y)'
  <2> SUFFICES ASSUME pc[y] \notin Over, NEW i \in 1..Len(Tasks[y]),
                      i > at[y] \/ (i = at[y] /\ pc[y] = "next")
               PROVE  last'[Tasks[y][i]] < run[y]
    BY <1>1 DEF TasksAhead
  <2>1. last'[Tasks[y][i]] = last[Tasks[y][i]]
    BY <1>2 DEF KeyState
  <2> QED
    BY <2>1 DEF TInv, TasksAhead
<1>6. ASSUME NEW q \in Keys \ {Key(x)} PROVE ReportFits(q)'
  BY <1>3 DEF TInv, ReportFits, KeyState
<1> QED
  BY <1>4, <1>5, <1>6

\* So the second layer is kept if the step keeps it at its own key and shard.
LEMMA OwnSuffices ==
    ASSUME WInv, TInv, NEW x \in AllShards, NEW l \in Places, Moves(x, l), l \notin Over,
           at[x] \in 1..Len(Tasks[x]), NEW k, k = Key(x),
           \A q \in Keys \ {k} : KeyState(q)' = KeyState(q),
           \A y \in AllShards \ {x} : outcome'[y] = outcome[y],
           TaskTypes', WorkFits(x)', ReportFits(k)'
    PROVE  TInv'
<1>1. TasksAhead(x)'
  <2> SUFFICES ASSUME NEW i \in 1..Len(Tasks[x]), i > at'[x] \/ (i = at'[x] /\ pc'[x] = "next")
               PROVE  last'[Tasks[x][i]] < run'[x]
    BY DEF TasksAhead
  <2>0. at[x] \in Nat /\ Len(Tasks[x]) \in Nat
    BY TaskLists DEF WInv, WaveTypes
  <2>1. i > at[x]
    <3>1. CASE l \in Busy /\ at' = at
      BY <2>0, <3>1 DEF Moves, WInv, WaveTypes, Busy
    <3>2. CASE l = "next" /\ at' = [at EXCEPT ![x] = @ + 1]
      BY <2>0, <3>2 DEF Moves, WInv, WaveTypes
    <3> QED
      BY <3>1, <3>2 DEF Moves, Over
  <2>2. Tasks[x][i] \in Keys \ {k}
    BY <2>0, <2>1, TaskLists DEF Key
  <2>3. last'[Tasks[x][i]] = last[Tasks[x][i]] /\ run'[x] = run[x] /\ pc[x] \notin Over
    BY <2>2 DEF KeyState, Moves
  <2> QED
    BY <2>1, <2>3 DEF TInv, TasksAhead
<1> QED
  BY <1>1, OthersKeep DEF TInv

\* A shard that stops, by a crash, a kill or at its end, keeps the layer.
LEMMA StopsTask ==
    ASSUME TInv, \A y \in AllShards : pc'[y] = pc[y] \/ pc'[y] \in Over,
           UNCHANGED <<starts, run, at, outcome, out, summary, last, reported>>
    PROVE  TInv'
<1>1. OutRecord' = OutRecord /\ StatusRow' = StatusRow
  BY DEF OutRecord, StatusRow
<1>2. ASSUME NEW y \in AllShards PROVE WorkFits(y)' /\ TasksAhead(y)'
  <2>1. CASE pc'[y] \in Over
    BY <2>1 DEF WorkFits, TasksAhead, Busy, Over
  <2>2. CASE pc'[y] = pc[y]
    BY <1>1, <2>2 DEF TInv, WorkFits, TasksAhead, Key
  <2> QED
    BY <2>1, <2>2
<1>3. TaskTypes' /\ \A q \in Keys : ReportFits(q)'
  BY <1>1 DEF TInv, TaskTypes, ReportFits
<1> QED
  BY <1>2, <1>3 DEF TInv

\* A start of a wave: the number of its run is greater than any before.
LEMMA StartedTask ==
    ASSUME WInv, TInv, NEW v \in Waves, NEW first, Started(v, first),
           UNCHANGED <<out, summary, last, reported>>
    PROVE  TInv'
<1>1. starts \in Nat /\ starts' = starts + 1 /\ 0..starts \subseteq 0..starts' /\ 1..starts \subseteq 1..starts'
  BY DEF WInv, WaveTypes, Started
<1>2. OutRecord \subseteq OutRecord' /\ StatusRow \subseteq StatusRow'
  BY <1>1 DEF OutRecord, StatusRow
<1>3. TaskTypes'
  <2>1. outcome' \in [AllShards -> {"S", "FAIL", None}]
    BY DEF TInv, TaskTypes, Started
  <2>2. out' \in [Keys -> {None} \cup OutRecord'] /\ reported' \in [Keys -> StatusRow' \cup {None}]
    BY <1>2 DEF TInv, TaskTypes
  <2>3. summary' \in [Keys -> {None} \cup 1..starts'] /\ last' \in [Keys -> 0..starts']
    BY <1>1 DEF TInv, TaskTypes
  <2> QED
    BY <2>1, <2>2, <2>3 DEF TaskTypes
<1>4. ASSUME NEW y \in AllShards PROVE WorkFits(y)' /\ TasksAhead(y)'
  <2>1. CASE y \in Shards[v]
    <3>1. pc'[y] = "next" /\ run'[y] = starts + 1
      BY <2>1 DEF Started
    <3>2. WorkFits(y)'
      BY <3>1 DEF WorkFits, Busy
    <3>3. \A i \in 1..Len(Tasks[y]) : last[Tasks[y][i]] \in 0..starts
      BY TaskLists DEF TInv, TaskTypes
    <3>4. TasksAhead(y)'
      BY <1>1, <3>1, <3>3 DEF TasksAhead
    <3> QED
      BY <3>2, <3>4
  <2>2. CASE y \notin Shards[v]
    <3>1. /\ pc'[y] = pc[y] /\ run'[y] = run[y] /\ at'[y] = at[y] /\ outcome'[y] = outcome[y]
          /\ Key(y)' = Key(y)
      BY <2>2 DEF Started, Key
    <3>2. WorkFits(y)'
      BY <1>2, <3>1 DEF TInv, WorkFits
    <3>3. TasksAhead(y)'
      BY <3>1 DEF TInv, TasksAhead
    <3> QED
      BY <3>2, <3>3
  <2> QED
    BY <2>1, <2>2
<1>5. \A q \in Keys : ReportFits(q)'
  BY <1>2 DEF TInv, ReportFits
<1> QED
  BY <1>3, <1>4, <1>5 DEF TInv

\* None is no out_root.
LEMMA NoneIsNoOut == WInv => None \notin OutRecord
<1> SUFFICES ASSUME WInv PROVE None \notin OutRecord
  OBVIOUS
<1>1. 1..starts \subseteq Nat /\ 0..Variants \subseteq Nat
  BY DEF WInv, WaveTypes, Variants
<1> QED
  BY <1>1, BatchAssumption DEF OutRecord

\* What is left of an out_root is one of the same run.
LEMMA RemainsFacts ==
    ASSUME WInv, NEW o \in {None} \cup OutRecord, NEW r \in Remains(o)
    PROVE  /\ r \in {None} \cup OutRecord /\ (r = None <=> o = None)
           /\ r # None => r.run = o.run /\ r.used = o.used /\ r.whole = o.whole
<1>1. CASE o = None
  BY <1>1 DEF Remains
<1>2. CASE o # None
  <2>1. o \in OutRecord /\ o.built \in 0..Variants /\ o.timed \in BOOLEAN
    BY <1>2 DEF OutRecord
  <2>2. r \in [run : {o.run}, used : {o.used}, built : 0..o.built, timed : {FALSE, o.timed}, whole : {o.whole}]
    BY <1>2 DEF Remains
  <2>3. /\ r.run = o.run /\ r.used = o.used /\ r.whole = o.whole
        /\ r.built \in 0..o.built /\ r.timed \in {FALSE, o.timed}
    BY <2>2
  <2>4. r.built \in 0..Variants
    BY <2>1, <2>3 DEF Variants
  <2>5. r.timed \in BOOLEAN
    BY <2>1, <2>3
  <2>6. o.run \in 1..starts /\ o.used \in BOOLEAN /\ o.whole \in BOOLEAN
    BY <2>1 DEF OutRecord
  <2>7. r = [run |-> r.run, used |-> r.used, built |-> r.built, timed |-> r.timed, whole |-> r.whole]
    BY <2>2
  <2>8. r \in OutRecord
    BY <2>3, <2>4, <2>5, <2>6, <2>7 DEF OutRecord
  <2> QED
    BY <1>2, <2>3, <2>8, NoneIsNoOut
<1> QED
  BY <1>1, <1>2

\* The removal of the old out_root begins.
LEMMA RemoveOutTask == ASSUME WInv, TInv, NEW x \in AllShards, RemoveOut(x) PROVE TInv'
<1>0. PICK k : k = Key(x)
  OBVIOUS
<1>1. /\ pc[x] = "next" /\ at[x] \in 1..Len(Tasks[x]) /\ k \in Keys
      /\ UNCHANGED <<starts, active, run, at, outcome, summary, reported>>
  BY <1>0, TaskLists DEF RemoveOut, WInv, WaveTypes, PlaceFits, Key
<1>2. run[x] \in 1..starts /\ last[k] < run[x]
  <2>1. run[x] \in 1..starts
    BY <1>1 DEF WInv, WaveTypes, PlaceFits
  <2>2. TasksAhead(x) /\ pc[x] \notin Over
    BY <1>1 DEF TInv, Over
  <2> QED
    BY <1>0, <1>1, <2>1, <2>2 DEF TasksAhead, Key
<1>3. PICK o \in Remains(out[k]) : out' = [out EXCEPT ![k] = o]
  BY <1>0 DEF RemoveOut
<1>4. o \in {None} \cup OutRecord
  BY <1>1, <1>3, RemainsFacts DEF TInv, TaskTypes
<1>5. last' = [last EXCEPT ![k] = run[x]] /\ pc' = [pc EXCEPT ![x] = "clear"]
  BY <1>0 DEF RemoveOut, Goto
<1>6. Moves(x, "clear") /\ "clear" \in Places /\ "clear" \notin Over
  BY <1>1, <1>5 DEF Moves, Busy, Over, Places
<1>7. TaskTypes'
  <2>1. OutRecord' = OutRecord /\ StatusRow' = StatusRow
    BY <1>1 DEF OutRecord, StatusRow
  <2> QED
    BY <1>1, <1>2, <1>3, <1>4, <1>5, <2>1 DEF TInv, TaskTypes
<1>8. /\ last'[k] = run[x] /\ summary'[k] = summary[k] /\ reported'[k] = reported[k]
      /\ pc'[x] = "clear" /\ Key(x)' = k /\ run'[x] = run[x]
  BY <1>0, <1>1, <1>5 DEF TInv, TaskTypes, WInv, WaveTypes, Key
<1>9. ASSUME reported[k] # None
      PROVE  reported[k].run \in Nat /\ reported[k].run < run[x]
  <2>1. reported[k] \in StatusRow /\ last[k] \in 0..starts /\ ReportFits(k)
    BY <1>1, <1>9 DEF TInv, TaskTypes
  <2>2. reported[k].run \in 1..starts /\ reported[k].run <= last[k]
    BY <1>9, <2>1 DEF ReportFits, StatusRow
  <2>3. starts \in Nat
    BY DEF WInv, WaveTypes
  <2> QED
    BY <1>2, <2>1, <2>2, <2>3
<1>10. WorkFits(x)'
  BY <1>2, <1>8, <1>9 DEF WorkFits
<1>11. ReportFits(k)'
  <2>1. ReportFits(k) /\ (summary[k] # None => summary[k] \in Nat) /\ last[k] \in Nat /\ run[x] \in Nat
    BY <1>1, <1>2 DEF TInv, TaskTypes
  <2> QED
    BY <1>2, <1>8, <1>9, <2>1 DEF ReportFits
<1>12. \A q \in Keys \ {k} : KeyState(q)' = KeyState(q)
  BY <1>1, <1>3, <1>5 DEF TInv, TaskTypes, KeyState
<1> QED
  BY <1>0, <1>1, <1>6, <1>7, <1>10, <1>11, <1>12, OwnSuffices

\* The old out_root is gone, or its removal fails half way.
LEMMA OutRemovedTask == ASSUME WInv, TInv, NEW x \in AllShards, OutRemoved(x) PROVE TInv'
<1>0. PICK k : k = Key(x)
  OBVIOUS
<1>1. /\ pc[x] = "clear" /\ pc[x] \in Busy
      /\ UNCHANGED <<starts, active, run, at, outcome, summary, last, reported>>
  BY DEF OutRemoved, Busy
<1>2. /\ at[x] \in 1..Len(Tasks[x]) /\ k \in Keys /\ run[x] \in 1..starts /\ last[k] = run[x]
      /\ reported[k] # None => reported[k].run < run[x]
  BY <1>0, <1>1, BusyKey DEF TInv, WorkFits, WInv, WaveTypes, PlaceFits
<1>3. CASE out' = [out EXCEPT ![k] = None] /\ Goto(x, "unlink")
  <2>1. Moves(x, "unlink") /\ "unlink" \in Places /\ "unlink" \notin Over
    BY <1>1, <1>2, <1>3 DEF Moves, Goto, Busy, Over, Places
  <2>2. TaskTypes'
    BY <1>1, <1>3 DEF TInv, TaskTypes, OutRecord, StatusRow
  <2>3. /\ last'[k] = run[x] /\ summary'[k] = summary[k] /\ reported'[k] = reported[k]
        /\ pc'[x] = "unlink" /\ Key(x)' = k /\ run'[x] = run[x]
    BY <1>0, <1>1, <1>2, <1>3 DEF TInv, TaskTypes, WInv, WaveTypes, Goto, Key
  <2>4. WorkFits(x)'
    BY <1>2, <2>3 DEF WorkFits
  <2>5. ReportFits(k)'
    <3>1. ReportFits(k) /\ (reported[k] # None => reported[k].run \in Nat)
      BY <1>2 DEF TInv, TaskTypes, StatusRow
    <3> QED
      BY <1>2, <2>3, <3>1 DEF ReportFits, WInv, WaveTypes
  <2>6. \A q \in Keys \ {k} : KeyState(q)' = KeyState(q)
    BY <1>1, <1>3 DEF TInv, TaskTypes, KeyState
  <2> QED
    BY <1>0, <1>1, <1>2, <2>1, <2>2, <2>4, <2>5, <2>6, OwnSuffices
<1>4. CASE Goto(x, "crashed") /\ out' = out
  <2>1. \A y \in AllShards : pc'[y] = pc[y] \/ pc'[y] \in Over
    BY <1>4 DEF Goto, WInv, WaveTypes, Over
  <2> QED
    BY <1>1, <1>4, <2>1, StopsTask
<1> QED
  BY <1>0, <1>3, <1>4 DEF OutRemoved

\* Facts about a busy shard and its key that the steps of its task share.
LEMMA BusyFacts ==
    ASSUME WInv, TInv, NEW x \in AllShards, pc[x] \in Busy
    PROVE  /\ at[x] \in 1..Len(Tasks[x]) /\ Key(x) \in Keys /\ run[x] \in 1..starts
           /\ last[Key(x)] = run[x]
           /\ pc[x] \notin {"clear", "unlink"} => out[Key(x)] \in OutRecord /\ out[Key(x)].run = run[x]
<1>1. at[x] \in 1..Len(Tasks[x]) /\ Key(x) \in Keys
  BY BusyKey
<1>2. run[x] \in 1..starts
  BY DEF WInv, WaveTypes, PlaceFits
<1> QED
  BY <1>1, <1>2 DEF TInv, WorkFits

\* The old summaries go, and an empty out_root is made.
LEMMA RemoveSummaryTask == ASSUME WInv, TInv, NEW x \in AllShards, RemoveSummary(x) PROVE TInv'
<1>0. PICK k : k = Key(x)
  OBVIOUS
<1>1. pc[x] = "unlink" /\ pc[x] \in Busy
  BY DEF RemoveSummary, Busy
<1>2. /\ at[x] \in 1..Len(Tasks[x]) /\ k \in Keys /\ run[x] \in 1..starts /\ last[k] = run[x]
      /\ reported[k] # None => reported[k].run < run[x]
  BY <1>0, <1>1, BusyFacts DEF TInv, WorkFits
<1>3. /\ out' = [out EXCEPT ![k] = EmptyOut(x)]
      /\ summary' = [summary EXCEPT ![k] = None]
      /\ pc' = [pc EXCEPT ![x] = "source"]
      /\ UNCHANGED <<starts, active, run, at, outcome, last, reported>>
  BY <1>0 DEF RemoveSummary, Goto, history
<1>4. Moves(x, "source") /\ "source" \in Places /\ "source" \notin Over
  BY <1>1, <1>2, <1>3 DEF Moves, Busy, Over, Places
<1>5. EmptyOut(x) \in OutRecord /\ OutRecord' = OutRecord /\ StatusRow' = StatusRow
  BY <1>2, <1>3 DEF EmptyOut, OutRecord, StatusRow, Variants
<1>6. TaskTypes'
  BY <1>3, <1>5 DEF TInv, TaskTypes
<1>7. /\ out'[k] = EmptyOut(x) /\ summary'[k] = None /\ last'[k] = last[k] /\ reported'[k] = reported[k]
      /\ pc'[x] = "source" /\ Key(x)' = k /\ run'[x] = run[x]
  BY <1>0, <1>2, <1>3 DEF TInv, TaskTypes, WInv, WaveTypes, Key
<1>8. EmptyOut(x).run = run[x] /\ EmptyOut(x).built = 0
  BY DEF EmptyOut
<1>9. WorkFits(x)'
  BY <1>2, <1>5, <1>7, <1>8 DEF WorkFits, Variants
<1>10. ReportFits(k)'
  <2>1. reported[k] # None => reported[k].run \in Nat
    BY <1>2 DEF TInv, TaskTypes, StatusRow
  <2> QED
    BY <1>2, <1>7, <2>1 DEF ReportFits, WInv, WaveTypes
<1>11. \A q \in Keys \ {k} : KeyState(q)' = KeyState(q)
  BY <1>3 DEF TInv, TaskTypes, KeyState
<1> QED
  BY <1>0, <1>2, <1>3, <1>4, <1>6, <1>9, <1>10, <1>11, OwnSuffices

\* Preparing the source leaves out_root, summaries and rows alone.
LEMMA PrepareTask ==
    ASSUME WInv, TInv, NEW x \in AllShards, NEW l \in Places, Moves(x, l),
           pc[x] \in {"source", "unpack", "install", "clone"},
           UNCHANGED <<out, summary, last, reported>>,
           \/ l \in {"unpack", "install", "clone", "build"} /\ outcome' = outcome
           \/ l = "row" /\ outcome' = [outcome EXCEPT ![x] = "FAIL"]
    PROVE  TInv'
<1>0. PICK k : k = Key(x)
  OBVIOUS
<1>1. pc[x] \in Busy /\ pc[x] \notin {"clear", "unlink", "row"} /\ l \in Busy /\ l \notin Over
  BY DEF Busy, Over
<1>2. at[x] \in 1..Len(Tasks[x]) /\ k \in Keys /\ WorkFits(x)
  BY <1>0, <1>1, BusyFacts DEF TInv
<1>3. starts' = starts /\ OutRecord' = OutRecord /\ StatusRow' = StatusRow
  BY DEF Moves, OutRecord, StatusRow
<1>4. TaskTypes'
  BY <1>3 DEF TInv, TaskTypes
<1>5. pc'[x] = l /\ at' = at /\ Key(x)' = k /\ run'[x] = run[x]
  BY <1>0, <1>1 DEF Moves, WInv, WaveTypes, Key, Busy
<1>6. WorkFits(x)'
  <2>1. outcome'[x] = outcome[x] \/ outcome'[x] = "FAIL"
    BY DEF TInv, TaskTypes
  <2>2. l = "row" => outcome'[x] = "FAIL"
    BY DEF TInv, TaskTypes
  <2> QED
    BY <1>0, <1>1, <1>2, <1>3, <1>5, <2>2 DEF WorkFits
<1>7. ReportFits(k)'
  BY <1>2, <1>3 DEF TInv, ReportFits
<1>8. \A q \in Keys \ {k} : KeyState(q)' = KeyState(q)
  BY DEF KeyState
<1>9. \A y \in AllShards \ {x} : outcome'[y] = outcome[y]
  BY DEF TInv, TaskTypes
<1> QED
  BY <1>0, <1>1, <1>2, <1>4, <1>6, <1>7, <1>8, <1>9, OwnSuffices

\* Download, unpacking, and the steps of git.
LEMMA PreparationTask ==
    ASSUME WInv, TInv, NEW x \in AllShards,
           Download(x) \/ Unpack(x) \/ Install(x) \/ PrepareGit(x) \/ CloneEnds(x)
    PROVE  TInv'
<1>1. PICK l \in Places :
         /\ Moves(x, l)
         /\ \/ l \in {"unpack", "install", "clone", "build"} /\ outcome' = outcome
            \/ l = "row" /\ outcome' = [outcome EXCEPT ![x] = "FAIL"]
  <2> USE DEF Goto, Decide, Places, Busy, Over, Moves
  <2>0. pc[x] \in Busy => at[x] <= Len(Tasks[x])
    BY DEF WInv, PlaceFits
  <2>1. CASE Download(x)
    BY <2>0, <2>1 DEF Download
  <2>2. CASE Unpack(x)
    BY <2>0, <2>2 DEF Unpack
  <2>3. CASE Install(x)
    BY <2>0, <2>3 DEF Install
  <2>4. CASE PrepareGit(x)
    BY <2>0, <2>4 DEF PrepareGit
  <2>5. CASE CloneEnds(x)
    BY <2>0, <2>5 DEF CloneEnds
  <2> QED
    BY <2>1, <2>2, <2>3, <2>4, <2>5
<1>2. /\ pc[x] \in {"source", "unpack", "install", "clone"}
      /\ UNCHANGED <<out, summary, last, reported>>
  BY DEF Download, Unpack, Install, PrepareGit, CloneEnds, files, history
<1> QED
  BY <1>1, <1>2, PrepareTask

\* A step of the task that changes its out_root only, and its summary.
LEMMA WorkTask ==
    ASSUME WInv, TInv, NEW x \in AllShards, NEW l \in {"build", "run", "summarize", "row"},
           Moves(x, l), pc[x] \in {"build", "run", "summarize"},
           NEW k, k = Key(x), NEW o \in OutRecord, o.run = run[x],
           out' = [out EXCEPT ![k] = o],
           NEW m \in {None, run[x]}, summary' = [summary EXCEPT ![k] = m],
           NEW s \in {"S", "FAIL", None}, outcome' = [outcome EXCEPT ![x] = s],
           UNCHANGED <<last, reported>>,
           l = "build" => o.built < Variants,
           l = "run" => o.built = Variants,
           l = "summarize" => o.built = Variants /\ o.timed,
           l = "row" => s \in {"S", "FAIL"} /\ (s = "S" => o.built = Variants /\ o.timed),
           m # None => l = "row" /\ s = "S"
    PROVE  TInv'
<1>1. pc[x] \in Busy /\ pc[x] \notin {"clear", "unlink", "row"} /\ l \notin Over /\ l \in Places /\ l \in Busy
  BY DEF Busy, Over, Places
<1>2. at[x] \in 1..Len(Tasks[x]) /\ k \in Keys /\ WorkFits(x) /\ run[x] \in 1..starts
  BY <1>1, BusyFacts DEF TInv
<1>3. starts' = starts /\ OutRecord' = OutRecord /\ StatusRow' = StatusRow
  BY DEF Moves, OutRecord, StatusRow
<1>4. TaskTypes'
  <2>1. outcome' \in [AllShards -> {"S", "FAIL", None}]
    BY DEF TInv, TaskTypes
  <2>2. out' \in [Keys -> {None} \cup OutRecord]
    BY DEF TInv, TaskTypes
  <2>3. summary' \in [Keys -> {None} \cup 1..starts]
    BY <1>2 DEF TInv, TaskTypes
  <2> QED
    BY <1>3, <2>1, <2>2, <2>3 DEF TInv, TaskTypes
<1>5. /\ pc'[x] = l /\ at' = at /\ Key(x)' = k /\ run'[x] = run[x]
      /\ out'[k] = o /\ summary'[k] = m /\ outcome'[x] = s
  BY <1>1, <1>2 DEF Moves, WInv, WaveTypes, Key, Busy, TInv, TaskTypes
<1>6. WorkFits(x)'
  BY <1>1, <1>2, <1>3, <1>5 DEF WorkFits
<1>7. ReportFits(k)'
  <2>1. reported[k] # None => reported[k].run < run[x] /\ reported[k].run \in Nat
    BY <1>1, <1>2 DEF TInv, TaskTypes, WorkFits, StatusRow
  <2>2. last[k] = run[x] /\ last'[k] = last[k] /\ reported'[k] = reported[k]
    BY <1>1, <1>2 DEF WorkFits
  <2> QED
    BY <1>2, <1>5, <2>1, <2>2 DEF ReportFits, WInv, WaveTypes
<1>8. \A q \in Keys \ {k} : KeyState(q)' = KeyState(q)
  BY DEF KeyState, TInv, TaskTypes
<1>9. \A y \in AllShards \ {x} : outcome'[y] = outcome[y]
  BY DEF TInv, TaskTypes
<1> QED
  BY <1>1, <1>2, <1>4, <1>6, <1>7, <1>8, <1>9, OwnSuffices

\* One more variant is built, or a build fails.
LEMMA BuildVariantTask == ASSUME WInv, TInv, NEW x \in AllShards, BuildVariant(x) PROVE TInv'
<1>0. PICK k : k = Key(x)
  OBVIOUS
<1>1. pc[x] = "build" /\ pc[x] \in Busy
  BY DEF BuildVariant, Busy
<1>2. /\ at[x] \in 1..Len(Tasks[x]) /\ k \in Keys /\ run[x] \in 1..starts
      /\ out[k] \in OutRecord /\ out[k].run = run[x] /\ out[k].built < Variants /\ summary[k] = None
  BY <1>0, <1>1, BusyFacts DEF TInv, WorkFits
<1>3. UNCHANGED <<starts, active, run, at, summary, last, reported>>
  BY DEF BuildVariant, history
<1>4. summary' = [summary EXCEPT ![k] = None] /\ None \in {None, run[x]}
  BY <1>2, <1>3 DEF TInv, TaskTypes
<1>5. CASE Built(x)
  <2>0. PICK o : o = [out[k] EXCEPT !.used = TRUE, !.built = @ + 1,
                                    !.whole = @ /\ src[Project(x)] = "whole"]
    OBVIOUS
  <2>1. out' = [out EXCEPT ![k] = o]
    <3>1. out' = [out EXCEPT ![k].used = TRUE, ![k].built = @ + 1,
                             ![k].whole = @ /\ src[Project(x)] = "whole"]
      BY <1>0, <1>5 DEF Built
    <3>2. [out EXCEPT ![k].used = TRUE, ![k].built = @ + 1,
                      ![k].whole = @ /\ src[Project(x)] = "whole"] = [out EXCEPT ![k] = o]
      BY <1>2, <2>0 DEF TInv, TaskTypes, OutRecord
    <3> QED
      BY <3>1, <3>2
  <2>2. o \in OutRecord /\ o.run = run[x] /\ o.built = out[k].built + 1
    <3>1. out[k].built \in 0..2 /\ out[k].run \in 1..starts /\ out[k].timed \in BOOLEAN
      BY <1>2 DEF OutRecord, Variants
    <3>2. /\ o.run = out[k].run /\ o.used = TRUE /\ o.built = out[k].built + 1
          /\ o.timed = out[k].timed
      BY <1>2, <2>0 DEF OutRecord
    <3>3. o.whole \in BOOLEAN
      BY <1>2, <2>0 DEF OutRecord
    <3>4. o = [run |-> o.run, used |-> o.used, built |-> o.built, timed |-> o.timed, whole |-> o.whole]
      BY <1>2, <2>0 DEF OutRecord
    <3>5. o.built \in 0..Variants
      BY <3>1, <3>2 DEF Variants
    <3> QED
      BY <1>2, <3>1, <3>2, <3>3, <3>4, <3>5 DEF OutRecord
  <2>3. out'[k] = o
    BY <1>2, <2>1 DEF TInv, TaskTypes
  <2>4. o.built \in 0..3
    BY <2>2 DEF OutRecord, Variants
  <2>5. outcome[x] \in {"S", "FAIL", None} /\ outcome' = [outcome EXCEPT ![x] = outcome[x]]
    BY <1>5 DEF Built, TInv, TaskTypes
  <2>6. CASE o.built = Variants
    <3>1. pc' = [pc EXCEPT ![x] = "run"]
      BY <1>0, <1>5, <2>3, <2>6 DEF Built, Goto
    <3>2. Moves(x, "run")
      BY <1>1, <1>2, <1>3, <3>1 DEF Moves, Busy, Over
    <3> QED
      BY <1>0, <1>1, <1>3, <1>4, <2>1, <2>2, <2>5, <2>6, <3>2, WorkTask
  <2>7. CASE o.built # Variants
    <3>1. pc' = [pc EXCEPT ![x] = "build"]
      BY <1>0, <1>5, <2>3, <2>7 DEF Built, Goto
    <3>3. o.built < Variants
      BY <2>4, <2>7 DEF Variants
    <3>2. Moves(x, "build")
      BY <1>1, <1>2, <1>3, <3>1 DEF Moves, Busy, Over
    <3> QED
      BY <1>0, <1>1, <1>3, <1>4, <2>1, <2>2, <2>5, <3>2, <3>3, WorkTask
  <2> QED
    BY <2>6, <2>7
<1>6. CASE out' = [out EXCEPT ![k].used = TRUE] /\ Decide(x, "FAIL")
  <2>0. PICK o : o = [out[k] EXCEPT !.used = TRUE]
    OBVIOUS
  <2>1. out' = [out EXCEPT ![k] = o] /\ pc' = [pc EXCEPT ![x] = "row"]
        /\ outcome' = [outcome EXCEPT ![x] = "FAIL"]
    BY <1>6, <2>0 DEF Decide, Goto
  <2>2. o \in OutRecord /\ o.run = run[x]
    BY <1>2, <2>0 DEF OutRecord
  <2>3. Moves(x, "row")
    BY <1>1, <1>2, <1>3, <2>1 DEF Moves, Busy, Over
  <2> QED
    BY <1>0, <1>1, <1>3, <1>4, <2>1, <2>2, <2>3, WorkTask
<1> QED
  BY <1>0, <1>5, <1>6 DEF BuildVariant

\* The variants have been timed.
LEMMA RunVariantsTask == ASSUME WInv, TInv, NEW x \in AllShards, RunVariants(x) PROVE TInv'
<1>0. PICK k : k = Key(x)
  OBVIOUS
<1>1. pc[x] = "run" /\ pc[x] \in Busy
  BY DEF RunVariants, Busy
<1>2. /\ at[x] \in 1..Len(Tasks[x]) /\ k \in Keys /\ run[x] \in 1..starts
      /\ out[k] \in OutRecord /\ out[k].run = run[x] /\ out[k].built = Variants /\ summary[k] = None
  BY <1>0, <1>1, BusyFacts DEF TInv, WorkFits
<1>3. UNCHANGED <<starts, active, run, at, outcome, summary, last, reported>>
  BY DEF RunVariants, history
<1>4. summary' = [summary EXCEPT ![k] = None] /\ None \in {None, run[x]}
  BY <1>2, <1>3 DEF TInv, TaskTypes
<1>5. PICK o : o = [out[k] EXCEPT !.timed = TRUE]
  OBVIOUS
<1>6. out' = [out EXCEPT ![k] = o] /\ pc' = [pc EXCEPT ![x] = "summarize"]
  BY <1>0, <1>5 DEF RunVariants, Goto
<1>7. o \in OutRecord /\ o.run = run[x] /\ o.built = Variants /\ o.timed
  BY <1>2, <1>5 DEF OutRecord
<1>8. Moves(x, "summarize")
  BY <1>1, <1>2, <1>3, <1>6 DEF Moves, Busy, Over
<1>9. outcome[x] \in {"S", "FAIL", None} /\ outcome' = [outcome EXCEPT ![x] = outcome[x]]
  BY <1>3 DEF TInv, TaskTypes
<1> QED
  BY <1>0, <1>1, <1>3, <1>4, <1>6, <1>7, <1>8, <1>9, WorkTask

\* The summary is written, or is not and nobody looks.
LEMMA SummarizeTask == ASSUME WInv, TInv, NEW x \in AllShards, Summarize(x) PROVE TInv'
<1>0. PICK k : k = Key(x)
  OBVIOUS
<1>1. pc[x] = "summarize" /\ pc[x] \in Busy
  BY DEF Summarize, Busy
<1>2. /\ at[x] \in 1..Len(Tasks[x]) /\ k \in Keys /\ run[x] \in 1..starts
      /\ out[k] \in OutRecord /\ out[k].run = run[x] /\ out[k].built = Variants /\ out[k].timed
      /\ summary[k] = None
  BY <1>0, <1>1, BusyFacts DEF TInv, WorkFits
<1>3. UNCHANGED <<starts, active, run, at, out, last, reported>>
  BY DEF Summarize, history
<1>4. PICK m \in {None, run[x]} : summary' = [summary EXCEPT ![k] = m]
  BY <1>0, <1>2 DEF Summarize, TInv, TaskTypes
<1>5. /\ out' = [out EXCEPT ![k] = out[k]] /\ pc' = [pc EXCEPT ![x] = "row"]
      /\ outcome' = [outcome EXCEPT ![x] = "S"]
  BY <1>2, <1>3 DEF Summarize, Decide, Goto, TInv, TaskTypes
<1>6. Moves(x, "row")
  BY <1>1, <1>2, <1>3, <1>5 DEF Moves, Busy, Over
<1> QED
  BY <1>0, <1>1, <1>2, <1>3, <1>4, <1>5, <1>6, WorkTask

\* The row is written, and the next task is ahead.
LEMMA WriteRowTask == ASSUME WInv, TInv, NEW x \in AllShards, WriteRow(x) PROVE TInv'
<1>0. PICK k : k = Key(x)
  OBVIOUS
<1>1. pc[x] = "row" /\ pc[x] \in Busy /\ pc[x] \notin Over
  BY DEF WriteRow, Busy, Over
<1>2. /\ at[x] \in 1..Len(Tasks[x]) /\ k \in Keys /\ run[x] \in 1..starts /\ last[k] = run[x]
      /\ outcome[x] \in {"S", "FAIL"} /\ out[k] \in OutRecord /\ out[k].run = run[x]
      /\ outcome[x] = "S" => out[k].built = Variants /\ out[k].timed
      /\ summary[k] # None => outcome[x] = "S" /\ summary[k] = run[x]
  BY <1>0, <1>1, BusyFacts DEF TInv, WorkFits
<1>3. PICK r : r = [key |-> k, status |-> outcome[x], run |-> run[x]]
  OBVIOUS
<1>4. /\ reported' = [reported EXCEPT ![k] = r]
      /\ pc' = [pc EXCEPT ![x] = "next"] /\ at' = [at EXCEPT ![x] = @ + 1]
      /\ UNCHANGED <<starts, active, run, outcome, out, summary, last>>
  BY <1>0, <1>3 DEF WriteRow, Goto, Row, files
<1>5. r \in StatusRow /\ OutRecord' = OutRecord /\ StatusRow' = StatusRow
  BY <1>2, <1>3, <1>4 DEF StatusRow, OutRecord
<1>6. TaskTypes'
  BY <1>4, <1>5 DEF TInv, TaskTypes
<1>7. Moves(x, "next") /\ "next" \in Places /\ "next" \notin Over
  BY <1>1, <1>4 DEF Moves, Places, Over
<1>8. WorkFits(x)'
  BY <1>4 DEF WInv, WaveTypes, WorkFits, Busy
<1>9. ReportFits(k)'
  <2>1. reported'[k] = r /\ out'[k] = out[k] /\ summary'[k] = summary[k] /\ last'[k] = run[x]
    BY <1>2, <1>4 DEF TInv, TaskTypes
  <2>2. r.run = run[x] /\ r.status = outcome[x]
    BY <1>3
  <2> QED
    BY <1>2, <1>5, <2>1, <2>2 DEF ReportFits
<1>10. \A q \in Keys \ {k} : KeyState(q)' = KeyState(q)
  BY <1>4 DEF KeyState, TInv, TaskTypes
<1> QED
  BY <1>0, <1>2, <1>4, <1>6, <1>7, <1>8, <1>9, <1>10, OwnSuffices

\* A step of run_one keeps the second layer.
LEMMA RunOneTask == ASSUME WInv, TInv, NEW x \in AllShards, RunOne(x) PROVE TInv'
  BY RemoveOutTask, OutRemovedTask, RemoveSummaryTask, PreparationTask, BuildVariantTask, RunVariantsTask,
     SummarizeTask, WriteRowTask DEF RunOne

\* The second layer holds in every reachable state.
LEMMA TaskInvariance == Spec => []TInv
<1>1. Init => TInv
  <2> SUFFICES ASSUME Init PROVE TInv
    OBVIOUS
  <2>1. TaskTypes
    BY DEF Init, TaskTypes
  <2>2. \A x \in AllShards : WorkFits(x) /\ TasksAhead(x)
    BY DEF Init, WorkFits, TasksAhead, Busy, Over
  <2>3. \A k \in Keys : ReportFits(k)
    BY DEF Init, ReportFits
  <2> QED
    BY <2>1, <2>2, <2>3 DEF TInv
<1>2. WInv /\ TInv /\ [Next]_vars => TInv'
  <2> SUFFICES ASSUME WInv, TInv, [Next]_vars PROVE TInv'
    OBVIOUS
  <2>1. ASSUME NEW v \in Batches, StartWave(v) PROVE TInv'
    BY <2>1, StartedTask DEF StartWave, Batches, files
  <2>2. CASE StartComparison
    BY <2>2, StartedTask, BatchAssumption DEF StartComparison, files, history
  <2>3. ASSUME NEW v \in Waves, KillWave(v) PROVE TInv'
    <3>1. \A y \in AllShards : pc'[y] = pc[y] \/ pc'[y] \in Over
      BY <2>3 DEF KillWave, Over
    <3> QED
      BY <2>3, <3>1, StopsTask DEF KillWave, files, history
  <2>4. ASSUME NEW x \in AllShards, Finish(x) PROVE TInv'
    <3>1. \A y \in AllShards : pc'[y] = pc[y] \/ pc'[y] \in Over
      BY <2>4 DEF Finish, Goto, WInv, WaveTypes, Over
    <3> QED
      BY <2>4, <3>1, StopsTask DEF Finish, files, history
  <2>5. CASE (\E v \in Waves : WaveEnds(v)) \/ Collect \/ UNCHANGED vars
    BY <2>5, StopsTask DEF WaveEnds, Collect, vars, shards, files, history
  <2>6. ASSUME NEW x \in AllShards, RunOne(x) PROVE TInv'
    BY <2>6, RunOneTask
  <2> QED
    BY <2>1, <2>2, <2>3, <2>4, <2>5, <2>6, ComparisonShard
    DEF Next, ShardStep, ComparisonStep, CollectResults
<1> QED
  BY <1>1, <1>2, WaveInvariance, PTL DEF Spec

(* The inductive argument for the property checked by the run "batch": a    *)
(* task that reported success left three builds and three timed variants of *)
(* its own run, until a later run takes it up and begins to remove them,    *)
(* for any lists of tasks, shards side by side, kills, restarts and         *)
(* removals that die half way (run_one).                                    *)
THEOREM SuccessComplete == Spec => []SuccessIsComplete
<1>1. TInv => SuccessIsComplete
  BY DEF TInv, ReportFits, SuccessIsComplete
<1> QED
  BY <1>1, TaskInvariance, PTL

-----------------------------------------------------------------------------
(* Layer 3: the status files.  A status file holds the rows of the tasks    *)
(* before the current one, in their order, from the one the run began with. *)

RowTypes == rows \in [AllShards -> Seq(StatusRow)]

RowsFit(x) ==
    /\ Len(rows[x]) <= at[x] - 1
    /\ \A i \in 1..Len(rows[x]) :
          /\ rows[x][i].key = Tasks[x][at[x] - 1 - Len(rows[x]) + i]
          /\ rows[x][i].run = run[x]
    /\ x \in ShardsOf(Batches) => Len(rows[x]) = at[x] - 1
    /\ at[x] > Len(Tasks[x]) => rows[x] # << >>

RInv == RowTypes /\ \A x \in AllShards : RowsFit(x)

\* What the types say of one status file.
LEMMA RowFacts ==
    ASSUME WInv, RInv, NEW x \in AllShards
    PROVE  /\ rows[x] \in Seq(StatusRow) /\ Len(rows[x]) \in Nat /\ DOMAIN rows[x] = 1..Len(rows[x])
           /\ at[x] \in Nat /\ at[x] >= 1 /\ at[x] <= Len(Tasks[x]) + 1 /\ Len(Tasks[x]) \in Nat
           /\ \A i \in 1..Len(rows[x]) : rows[x][i] \in StatusRow
<1>1. rows[x] \in Seq(StatusRow)
  BY DEF RInv, RowTypes
<1>2. at[x] \in 1..(Len(Tasks[x]) + 1) /\ Len(Tasks[x]) \in Nat
  BY TaskLists DEF WInv, PlaceFits
<1> QED
  BY <1>1, <1>2, LenProperties

\* A row of a status file is one of a task before the current one.
LEMMA RowIsTask ==
    ASSUME WInv, RInv, NEW x \in AllShards, NEW i \in 1..Len(rows[x])
    PROVE  \E j \in 1..Len(Tasks[x]) : j < at[x] /\ rows[x][i].key = Tasks[x][j]
<1>1. at[x] - 1 - Len(rows[x]) + i \in 1..(at[x] - 1)
  BY RowFacts DEF RInv, RowsFit
<1>2. at[x] - 1 - Len(rows[x]) + i \in 1..Len(Tasks[x]) /\ at[x] - 1 - Len(rows[x]) + i < at[x]
  BY <1>1, RowFacts
<1>3. rows[x][i].key = Tasks[x][at[x] - 1 - Len(rows[x]) + i]
  BY DEF RInv, RowsFit
<1> QED
  BY <1>2, <1>3

\* Steps that touch neither the status files nor the places in the lists.
LEMMA RowsStay ==
    ASSUME RInv, UNCHANGED <<starts, run, at, rows>>
    PROVE  RInv'
  BY DEF RInv, RowTypes, RowsFit, StatusRow

\* A start empties the status files of the wave.
LEMMA StartedRows ==
    ASSUME WInv, RInv, NEW v \in Waves, NEW first, Started(v, first),
           \A x \in Shards[v] : first \in 1..Len(Tasks[x]),
           v \in Batches => first = 1
    PROVE  RInv'
<1>1. starts \in Nat /\ starts' = starts + 1 /\ 1..starts \subseteq 1..starts'
  BY DEF WInv, WaveTypes, Started
<1>2. StatusRow \subseteq StatusRow'
  BY <1>1 DEF StatusRow
<1>3. ASSUME NEW x \in AllShards PROVE rows'[x] \in Seq(StatusRow') /\ RowsFit(x)'
  <2>1. CASE x \in Shards[v]
    <3>1. rows'[x] = << >> /\ at'[x] = first /\ first \in 1..Len(Tasks[x]) /\ Len(Tasks[x]) \in Nat
      BY <2>1, TaskLists DEF Started
    <3>2. Len(rows'[x]) = 0 /\ rows'[x] \in Seq(StatusRow')
      BY <3>1, EmptySeq
    <3>3. x \in ShardsOf(Batches) => first = 1
      <4>1. CASE v = Comparison
        BY <2>1, <4>1, ComparisonShard
      <4>2. CASE v # Comparison
        BY <4>2 DEF Batches
      <4> QED
        BY <4>1, <4>2
    <3> QED
      BY <3>1, <3>2, <3>3 DEF RowsFit
  <2>2. CASE x \notin Shards[v]
    <3>1. rows'[x] = rows[x] /\ at'[x] = at[x] /\ run'[x] = run[x]
      BY <2>2 DEF Started
    <3>2. rows[x] \in Seq(StatusRow) /\ RowsFit(x)
      BY DEF RInv, RowTypes
    <3> QED
      BY <1>2, <3>1, <3>2, SeqMonotonic DEF RowsFit
  <2> QED
    BY <2>1, <2>2
<1>4. RowTypes'
  BY <1>3 DEF RowTypes, Started
<1> QED
  BY <1>3, <1>4 DEF RInv

\* A row is appended, and the place in the list goes on by one.
LEMMA WriteRowRows == ASSUME WInv, TInv, RInv, NEW x \in AllShards, WriteRow(x) PROVE RInv'
<1>0. PICK r : r = Row(x)
  OBVIOUS
<1>1. /\ rows' = [rows EXCEPT ![x] = Append(@, r)] /\ at' = [at EXCEPT ![x] = @ + 1]
      /\ UNCHANGED <<starts, run>> /\ pc[x] = "row" /\ pc[x] \in Busy
  BY <1>0 DEF WriteRow, Busy
<1>2. at[x] \in 1..Len(Tasks[x]) /\ Key(x) \in Keys /\ run[x] \in 1..starts /\ outcome[x] \in {"S", "FAIL"}
  BY <1>1, BusyFacts DEF TInv, WorkFits
<1>3. r \in StatusRow /\ StatusRow' = StatusRow /\ r.key = Tasks[x][at[x]] /\ r.run = run[x]
  BY <1>0, <1>1, <1>2 DEF StatusRow, Row, Key
<1>4. /\ rows'[x] = Append(rows[x], r) /\ at'[x] = at[x] + 1 /\ rows[x] \in Seq(StatusRow)
      /\ Len(rows[x]) \in Nat /\ at[x] \in Nat /\ Len(Tasks[x]) \in Nat /\ run'[x] = run[x]
  BY <1>1, RowFacts DEF RInv, RowTypes, WInv, WaveTypes
<1>5. /\ rows'[x] \in Seq(StatusRow) /\ Len(rows'[x]) = Len(rows[x]) + 1 /\ rows'[x] # << >>
      /\ \A i \in 1..Len(rows[x]) : rows'[x][i] = rows[x][i]
      /\ rows'[x][Len(rows[x]) + 1] = r
  BY <1>3, <1>4, AppendProperties
<1>6. RowsFit(x)'
  <2>1. RowsFit(x)
    BY DEF RInv
  <2>2. Len(rows'[x]) <= at'[x] - 1 /\ (x \in ShardsOf(Batches) => Len(rows'[x]) = at'[x] - 1)
    BY <1>4, <1>5, <2>1 DEF RowsFit
  <2>3. at'[x] - 1 - Len(rows'[x]) = at[x] - 1 - Len(rows[x])
    <3>1. \A a, n \in Nat : (a + 1) - 1 - (n + 1) = a - 1 - n
      OBVIOUS
    <3> QED
      BY <1>4, <1>5, <3>1
  <2>4. ASSUME NEW i \in 1..Len(rows'[x])
        PROVE  rows'[x][i].key = Tasks[x][at[x] - 1 - Len(rows[x]) + i] /\ rows'[x][i].run = run[x]
    <3>1. CASE i \in 1..Len(rows[x])
      BY <1>5, <2>1, <3>1 DEF RowsFit
    <3>2. CASE i = Len(rows[x]) + 1
      <4>0. \A a, n \in Nat : a - 1 - n + (n + 1) = a
        OBVIOUS
      <4>1. at[x] - 1 - Len(rows[x]) + i = at[x]
        BY <1>4, <3>2, <4>0
      <4> QED
        BY <1>3, <1>5, <3>2, <4>1
    <3> QED
      BY <1>4, <1>5, <3>1, <3>2
  <2> QED
    BY <1>4, <1>5, <2>2, <2>3, <2>4 DEF RowsFit
<1>7. ASSUME NEW y \in AllShards \ {x} PROVE RowsFit(y)'
  <2>1. rows'[y] = rows[y] /\ at'[y] = at[y] /\ run'[y] = run[y]
    BY <1>1 DEF RInv, RowTypes, WInv, WaveTypes
  <2> QED
    BY <2>1 DEF RInv, RowsFit
<1>8. RowTypes'
  BY <1>1, <1>3, <1>4, <1>5 DEF RInv, RowTypes
<1> QED
  BY <1>6, <1>7, <1>8 DEF RInv

\* The steps of run_one other than WriteRow leave status files and places alone.
LEMMA OtherStepsRows ==
    ASSUME NEW x \in AllShards, RunOne(x) \/ Finish(x), ~WriteRow(x)
    PROVE  UNCHANGED <<starts, run, at, rows>>
  BY DEF RunOne, RemoveOut, OutRemoved, RemoveSummary, Download, Unpack, Install, PrepareGit, CloneEnds,
         BuildVariant, RunVariants, Summarize, Finish

\* The third layer holds in every reachable state.
LEMMA RowInvariance == Spec => []RInv
<1>1. Init => RInv
  <2> SUFFICES ASSUME Init PROVE RInv
    OBVIOUS
  <2>1. ASSUME NEW x \in AllShards PROVE rows[x] = << >> /\ at[x] = 1 /\ Len(Tasks[x]) \in Nat /\ Len(Tasks[x]) >= 1
    BY TaskLists DEF Init
  <2>2. RowTypes
    BY EmptySeq DEF Init, RowTypes
  <2>3. Len(<< >>) = 0
    BY EmptySeq
  <2>4. \A x \in AllShards : RowsFit(x)
    BY <2>1, <2>3 DEF RowsFit
  <2> QED
    BY <2>2, <2>4 DEF RInv
<1>2. WInv /\ TInv /\ RInv /\ [Next]_vars => RInv'
  <2> SUFFICES ASSUME WInv, TInv, RInv, [Next]_vars PROVE RInv'
    OBVIOUS
  <2>1. ASSUME NEW v \in Batches, StartWave(v) PROVE RInv'
    <3>1. v \in Waves /\ \A x \in Shards[v] : 1 \in 1..Len(Tasks[x])
      BY TaskLists DEF Batches, AllShards, ShardsOf
    <3> QED
      BY <2>1, <3>1, StartedRows DEF StartWave
  <2>2. CASE StartComparison
    <3>1. PICK first \in UNION {DOMAIN Tasks[x] : x \in Shards[Comparison]} : Started(Comparison, first)
      BY <2>2 DEF StartComparison
    <3>2. \A x \in Shards[Comparison] : first \in 1..Len(Tasks[x])
      BY ComparisonShard, TaskLists
    <3> QED
      BY <3>1, <3>2, StartedRows, BatchAssumption DEF Batches
  <2>3. CASE (\E v \in Waves : KillWave(v) \/ WaveEnds(v)) \/ Collect \/ UNCHANGED vars
    BY <2>3, RowsStay DEF KillWave, WaveEnds, Collect, vars, shards
  <2>4. ASSUME NEW x \in AllShards, RunOne(x) \/ Finish(x) PROVE RInv'
    BY <2>4, WriteRowRows, OtherStepsRows, RowsStay
  <2> QED
    BY <2>1, <2>2, <2>3, <2>4, ComparisonShard DEF Next, ShardStep, ComparisonStep, CollectResults
<1> QED
  BY <1>1, <1>2, WaveInvariance, TaskInvariance, PTL DEF Spec

\* What Reverse does to a sequence.
LEMMA ReverseProperties ==
    ASSUME NEW S, NEW s \in Seq(S)
    PROVE  /\ Reverse(s) \in Seq(S) /\ Len(Reverse(s)) = Len(s)
           /\ \A i \in 1..Len(s) : Reverse(s)[i] = s[Len(s) - i + 1]
<1>1. Len(s) \in Nat /\ \A i \in 1..Len(s) : s[i] \in S
  BY LenProperties
<1>2. \A i \in 1..Len(s) : s[(Len(s) - i) + 1] \in S
  BY <1>1
<1>3. Reverse(s) \in [1..Len(s) -> S] /\ \A i \in 1..Len(s) : Reverse(s)[i] = s[(Len(s) - i) + 1]
  BY <1>1, <1>2 DEF Reverse
<1> QED
  BY <1>1, <1>3

\* A sequence is a suffix of another that ends with its elements.
LEMMA SuffixOf ==
    ASSUME NEW S, NEW s \in Seq(S), NEW t \in Seq(S), Len(s) <= Len(t),
           \A i \in 1..Len(s) : s[i] = t[Len(t) - Len(s) + i]
    PROVE  IsSuffix(s, t)
<1> DEFINE n == Len(s)
<1>1. n \in Nat /\ Len(t) \in Nat
  BY LenProperties
<1>2. /\ Reverse(s) \in Seq(S) /\ Reverse(t) \in Seq(S) /\ Len(Reverse(s)) = n /\ Len(Reverse(t)) = Len(t)
      /\ \A i \in 1..n : Reverse(s)[i] = s[n - i + 1]
      /\ \A i \in 1..Len(t) : Reverse(t)[i] = t[Len(t) - i + 1]
  BY ReverseProperties
<1>3. \A i \in 1..n : Reverse(s)[i] = Reverse(t)[i]
  <2> TAKE i \in 1..n
  <2>1. n - i + 1 \in 1..n /\ i \in 1..Len(t) /\ Len(t) - n + (n - i + 1) = Len(t) - i + 1
    BY <1>1
  <2> QED
    BY <1>2, <2>1
<1>4. /\ SubSeq(Reverse(s), 1, n) \in Seq(S) /\ SubSeq(Reverse(t), 1, n) \in Seq(S)
      /\ Len(SubSeq(Reverse(s), 1, n)) = n /\ Len(SubSeq(Reverse(t), 1, n)) = n
      /\ \A i \in 1..n : SubSeq(Reverse(s), 1, n)[i] = Reverse(s)[i]
      /\ \A i \in 1..n : SubSeq(Reverse(t), 1, n)[i] = Reverse(t)[i]
  <2>1. \A i \in 1..n : Reverse(s)[i] \in S /\ Reverse(t)[i] \in S
    BY <1>1, <1>2, LenProperties
  <2> QED
    BY <1>1, <2>1, SubSeqProperties
<1>5. SubSeq(Reverse(s), 1, n) = SubSeq(Reverse(t), 1, n)
  BY <1>3, <1>4, SeqEqual
<1> QED
  BY <1>2, <1>5 DEF IsSuffix, IsPrefix

(* A shard that came to its end has one row for every task it was started   *)
(* with, in their order, however many of them failed ("keep the batch       *)
(* moving", the handler of run_one), and however often the wave was killed  *)
(* and started anew: the run "batch" checks it on small lists.              *)
THEOREM TasksReported == Spec => []EveryTaskReported
<1>1. WInv /\ RInv => EveryTaskReported
  <2> SUFFICES ASSUME WInv, RInv, NEW x \in AllShards, pc[x] = "done"
               PROVE  /\ x \in ShardsOf(Batches) => Reported(x) = Tasks[x]
                      /\ rows[x] # << >> /\ IsSuffix(Reported(x), Tasks[x])
    BY DEF EveryTaskReported
  <2>1. at[x] = Len(Tasks[x]) + 1 /\ rows[x] # << >> /\ RowsFit(x)
    <3>1. at[x] > Len(Tasks[x])
      BY DEF WInv, PlaceFits
    <3> QED
      BY <3>1, RowFacts DEF RInv, RowsFit
  <2>2. /\ Len(rows[x]) \in Nat /\ DOMAIN rows[x] = 1..Len(rows[x]) /\ Len(Tasks[x]) \in Nat
        /\ \A i \in 1..Len(rows[x]) : rows[x][i].key \in Keys
    BY RowFacts DEF StatusRow
  <2>3. /\ Reported(x) \in Seq(Keys) /\ Len(Reported(x)) = Len(rows[x])
        /\ \A i \in 1..Len(rows[x]) : Reported(x)[i] = rows[x][i].key
    <3>1. Reported(x) \in [1..Len(rows[x]) -> Keys]
      BY <2>2 DEF Reported
    <3> QED
      BY <2>2, <3>1 DEF Reported
  <2>4. Len(rows[x]) <= Len(Tasks[x])
    BY <2>1, <2>2 DEF RowsFit
  <2>5. \A i \in 1..Len(rows[x]) : Reported(x)[i] = Tasks[x][Len(Tasks[x]) - Len(rows[x]) + i]
    <3>1. \A n \in Nat : (n + 1) - 1 = n
      OBVIOUS
    <3>2. at[x] - 1 = Len(Tasks[x])
      BY <2>1, <2>2, <3>1
    <3> QED
      BY <2>1, <2>3, <3>2 DEF RowsFit
  <2>6. Tasks[x] \in Seq(Keys)
    BY TaskLists
  <2>7. IsSuffix(Reported(x), Tasks[x])
    BY <2>3, <2>4, <2>5, <2>6, SuffixOf
  <2>8. ASSUME x \in ShardsOf(Batches) PROVE Reported(x) = Tasks[x]
    <3>1. Len(rows[x]) = Len(Tasks[x])
      BY <2>1, <2>2, <2>8 DEF RowsFit
    <3> QED
      BY <2>2, <2>3, <2>5, <2>6, <3>1, SeqEqual
  <2> QED
    BY <2>1, <2>7, <2>8
<1> QED
  BY <1>1, WaveInvariance, RowInvariance, PTL

-----------------------------------------------------------------------------
(* What a step of run_one leaves alone. *)

\* None is no row.
LEMMA NoneIsNoRow == WInv => None \notin StatusRow
<1> SUFFICES ASSUME WInv PROVE None \notin StatusRow
  OBVIOUS
<1>1. 1..starts \subseteq Nat
  BY DEF WInv, WaveTypes
<1> QED
  BY <1>1, BatchAssumption DEF StatusRow

\* The place and the key of a shard that takes a step of run_one.
LEMMA StepKey ==
    ASSUME WInv, NEW x \in AllShards, RunOne(x)
    PROVE  /\ at[x] \in 1..Len(Tasks[x]) /\ Key(x) \in Keys /\ pc[x] \in {"next"} \cup Busy
           /\ x \in ShardsOf(Batches) <=> Key(x) \notin Compared
<1>1. pc[x] \in {"next"} \cup Busy /\ (pc[x] = "next" => at[x] <= Len(Tasks[x]))
  BY DEF RunOne, RemoveOut, OutRemoved, RemoveSummary, Download, Unpack, Install, PrepareGit, CloneEnds,
         BuildVariant, RunVariants, Summarize, WriteRow, Busy
<1>2. at[x] \in 1..Len(Tasks[x]) /\ Key(x) \in Keys
  BY <1>1, TaskLists DEF WInv, WaveTypes, PlaceFits, Key
<1>3. x \in ShardsOf(Batches) => Key(x) \notin Compared
  BY <1>2, BatchKeys DEF Key
<1>4. x \notin ShardsOf(Batches) => Key(x) \in Compared
  BY <1>2, ComparedKeys, ComparisonShard DEF Key
<1> QED
  BY <1>1, <1>2, <1>3, <1>4

\* A step of run_one touches its own shard, status file and key only, and no
\* table.
LEMMA RunOneFrame ==
    ASSUME WInv, TInv, RInv, NEW x \in AllShards, RunOne(x)
    PROVE  /\ UNCHANGED <<starts, active, run, batch, md, csv, ordered>>
           /\ \A y \in AllShards \ {x} : pc'[y] = pc[y] /\ at'[y] = at[y] /\ rows'[y] = rows[y]
           /\ \A q \in Keys \ {Key(x)} : KeyState(q)' = KeyState(q)
           /\ pc'[x] \in {"next", "crashed"} \cup Busy
<1> USE DEF TInv, TaskTypes, WInv, WaveTypes, RInv, RowTypes, KeyState, Goto, Decide, Busy,
            files, history, tables, sources
<1>1. CASE RemoveOut(x)
  BY <1>1 DEF RemoveOut
<1>2. CASE RemoveSummary(x)
  BY <1>2 DEF RemoveSummary
<1>3. CASE Download(x)
  BY <1>3 DEF Download
<1>4. CASE Unpack(x)
  BY <1>4 DEF Unpack
<1>5. CASE Install(x)
  BY <1>5 DEF Install
<1>6. CASE PrepareGit(x)
  BY <1>6 DEF PrepareGit
<1>7. CASE CloneEnds(x)
  BY <1>7 DEF CloneEnds
<1>8. CASE BuildVariant(x)
  BY <1>8 DEF BuildVariant, Built
<1>9. CASE RunVariants(x)
  BY <1>9 DEF RunVariants
<1>10. CASE Summarize(x)
  BY <1>10 DEF Summarize
<1>11. CASE WriteRow(x)
  BY <1>11 DEF WriteRow
<1>12. CASE OutRemoved(x)
  BY <1>12 DEF OutRemoved
<1> QED
  BY <1>1, <1>2, <1>3, <1>4, <1>5, <1>6, <1>7, <1>8, <1>9, <1>10, <1>11, <1>12 DEF RunOne

\* Steps of run_one that neither begin a task nor write its row.
LEMMA InnerSteps ==
    ASSUME NEW x \in AllShards, RunOne(x), ~RemoveOut(x), ~WriteRow(x)
    PROVE  UNCHANGED <<last, reported, rows>>
  BY DEF RunOne, OutRemoved, RemoveSummary, Download, Unpack, Install, PrepareGit, CloneEnds,
         BuildVariant, RunVariants, Summarize, history

-----------------------------------------------------------------------------
(* Layer 4: the tables of the comparison. *)

\* The rows of the comparison's status file are the latest of their keys.
RowsAreLast ==
    \A i \in 1..Len(rows[TheShard]) :
        LET r == rows[TheShard][i] IN reported[r.key] = r /\ last[r.key] = run[TheShard]

\* A comparison that has ended shows the summaries that are there.
TableShows ==
    pc[TheShard] = "done" =>
        /\ \A k \in Compared : md[k] = summary[k]
        /\ csv = md \/ \A k \in Compared : md[k] = None

CInv == RowsAreLast /\ TableShows

\* The rows of the comparison are of its keys, and not of the task at hand.
LEMMA ComparisonRows ==
    ASSUME WInv, RInv, NEW i \in 1..Len(rows[TheShard])
    PROVE  /\ rows[TheShard][i].key \in Compared /\ rows[TheShard][i].key \in Keys
           /\ at[TheShard] \in 1..Len(Tasks[TheShard]) => rows[TheShard][i].key # Key(TheShard)
<1>1. PICK j \in 1..Len(Tasks[TheShard]) : j < at[TheShard] /\ rows[TheShard][i].key = Tasks[TheShard][j]
  BY RowIsTask, ComparisonShard
<1>2. Tasks[TheShard][j] \in Compared /\ Tasks[TheShard][j] \in Keys
  BY ComparedKeys
<1>3. ASSUME at[TheShard] \in 1..Len(Tasks[TheShard])
      PROVE  Tasks[TheShard][j] # Tasks[TheShard][at[TheShard]]
  BY <1>1, <1>3, ComparisonShard, TaskLists
<1> QED
  BY <1>1, <1>2, <1>3 DEF Key

\* Steps that leave the shard of the comparison alone, and its keys, or let it stop.
LEMMA ComparisonStays ==
    ASSUME WInv, RInv, CInv, rows'[TheShard] = rows[TheShard], run'[TheShard] = run[TheShard],
           \A k \in Compared : KeyState(k)' = KeyState(k), UNCHANGED <<md, csv>>,
           pc'[TheShard] = "done" => pc[TheShard] = "done"
    PROVE  CInv'
<1>1. RowsAreLast'
  BY ComparisonRows DEF CInv, RowsAreLast, KeyState
<1>2. TableShows'
  BY DEF CInv, TableShows, KeyState
<1> QED
  BY <1>1, <1>2 DEF CInv

\* The steps of the comparison's own tasks.
LEMMA ComparisonRuns == ASSUME WInv, TInv, RInv, CInv, RunOne(TheShard) PROVE CInv'
<1> DEFINE x == TheShard
<1>0. x \in AllShards
  BY ComparisonShard
<1>1. at[x] \in 1..Len(Tasks[x]) /\ Key(x) \in Keys
  BY <1>0, StepKey
<1>2. run' = run /\ pc'[x] # "done" /\ \A q \in Keys \ {Key(x)} : KeyState(q)' = KeyState(q)
  BY <1>0, RunOneFrame DEF Busy
<1>3. TableShows'
  BY <1>2 DEF TableShows
<1>4. ASSUME NEW i \in 1..Len(rows[x])
      PROVE  LET r == rows[x][i] IN reported'[r.key] = r /\ last'[r.key] = run[x]
  <2>1. rows[x][i].key \in Keys \ {Key(x)}
    BY <1>1, ComparisonRows
  <2> QED
    BY <1>2, <2>1 DEF CInv, RowsAreLast, KeyState
<1>5. CASE ~WriteRow(x)
  <2>1. rows' = rows
    BY <1>0, <1>5, OtherStepsRows
  <2>2. RowsAreLast'
    BY <1>2, <1>4, <2>1 DEF RowsAreLast
  <2> QED
    BY <1>3, <2>2 DEF CInv
<1>6. CASE WriteRow(x)
  <2>0. PICK r : r = Row(x)
    OBVIOUS
  <2>1. /\ rows'[x] = Append(rows[x], r) /\ rows[x] \in Seq(StatusRow) /\ reported'[Key(x)] = r
        /\ last' = last /\ r.key = Key(x) /\ pc[x] \in Busy
    BY <1>0, <1>1, <1>6, <2>0 DEF WriteRow, RInv, RowTypes, TInv, TaskTypes, Row, Busy
  <2>2. r \in StatusRow /\ last[Key(x)] = run[x]
    <3>1. run[x] \in 1..starts /\ last[Key(x)] = run[x] /\ outcome[x] \in {"S", "FAIL"}
      BY <1>0, <1>6, <2>1, BusyFacts DEF TInv, WorkFits, WriteRow
    <3> QED
      BY <1>1, <2>0, <3>1 DEF StatusRow, Row
  <2>3. /\ Len(rows'[x]) = Len(rows[x]) + 1 /\ Len(rows[x]) \in Nat
        /\ \A i \in 1..Len(rows[x]) : rows'[x][i] = rows[x][i]
        /\ rows'[x][Len(rows[x]) + 1] = r
    BY <2>1, <2>2, AppendProperties, LenProperties
  <2>4. ASSUME NEW i \in 1..Len(rows'[x])
        PROVE  reported'[rows'[x][i].key] = rows'[x][i] /\ last'[rows'[x][i].key] = run[x]
    <3>1. CASE i \in 1..Len(rows[x])
      BY <1>4, <2>3, <3>1
    <3>2. CASE i = Len(rows[x]) + 1
      BY <2>1, <2>2, <2>3, <3>2
    <3> QED
      BY <2>3, <3>1, <3>2
  <2>5. RowsAreLast'
    BY <1>2, <2>4 DEF RowsAreLast
  <2> QED
    BY <1>3, <2>5 DEF CInv
<1> QED
  BY <1>5, <1>6

\* The fourth layer holds in every reachable state.
LEMMA ComparisonInvariance == Spec => []CInv
<1>0. TheShard \in AllShards /\ Shards[Comparison] = {TheShard} /\ TheShard \notin ShardsOf(Batches)
  BY ComparisonShard
<1>1. Init => CInv
  <2> SUFFICES ASSUME Init PROVE CInv
    OBVIOUS
  <2>1. rows[TheShard] = << >> /\ pc[TheShard] = "off" /\ Len(<< >>) = 0
    BY <1>0, EmptySeq DEF Init
  <2> QED
    BY <2>1 DEF CInv, RowsAreLast, TableShows
<1>2. WInv /\ TInv /\ RInv /\ CInv /\ [Next]_vars => CInv'
  <2> SUFFICES ASSUME WInv, TInv, RInv, CInv, [Next]_vars PROVE CInv'
    OBVIOUS
  <2>1. ASSUME NEW v \in Batches, StartWave(v) PROVE CInv'
    <3>1. TheShard \notin Shards[v]
      BY <1>0 DEF ShardsOf
    <3>2. /\ rows'[TheShard] = rows[TheShard] /\ run'[TheShard] = run[TheShard]
          /\ pc'[TheShard] = pc[TheShard] /\ UNCHANGED <<out, summary, last, reported, md, csv>>
      BY <1>0, <2>1, <3>1 DEF StartWave, Started, files, tables
    <3> QED
      BY <3>2, ComparisonStays DEF KeyState
  <2>2. CASE StartComparison
    <3>1. rows'[TheShard] = << >> /\ pc'[TheShard] = "next" /\ Len(<< >>) = 0
      BY <1>0, <2>2, EmptySeq DEF StartComparison, Started
    <3> QED
      BY <3>1 DEF CInv, RowsAreLast, TableShows
  <2>3. ASSUME NEW v \in Waves, KillWave(v) PROVE CInv'
    <3>1. /\ UNCHANGED <<rows, run, out, summary, last, reported, md, csv>>
          /\ pc'[TheShard] = "done" => pc[TheShard] = "done"
      BY <1>0, <2>3 DEF KillWave, files, tables, history
    <3> QED
      BY <3>1, ComparisonStays DEF KeyState
  <2>4. CASE (\E v \in Waves : WaveEnds(v)) \/ Collect \/ UNCHANGED vars
    <3>1. UNCHANGED <<rows, run, pc, out, summary, last, reported, md, csv>>
      BY <2>4 DEF WaveEnds, Collect, vars, shards, files, tables, history
    <3> QED
      BY <3>1, ComparisonStays DEF KeyState
  <2>5. ASSUME NEW x \in ShardsOf(Batches), RunOne(x) PROVE CInv'
    <3>1. x \in AllShards /\ x # TheShard
      BY <1>0, ComparisonShard
    <3>2. /\ rows'[TheShard] = rows[TheShard] /\ run' = run /\ pc'[TheShard] = pc[TheShard]
          /\ UNCHANGED <<md, csv>> /\ \A q \in Keys \ {Key(x)} : KeyState(q)' = KeyState(q)
      BY <1>0, <2>5, <3>1, RunOneFrame
    <3>3. Compared \subseteq Keys \ {Key(x)}
      BY <2>5, <3>1, StepKey DEF Compared
    <3> QED
      BY <3>2, <3>3, ComparisonStays
  <2>6. ASSUME NEW x \in ShardsOf(Batches), Finish(x), UNCHANGED tables PROVE CInv'
    <3>1. x \in AllShards /\ x # TheShard
      BY <1>0, ComparisonShard
    <3>2. /\ UNCHANGED <<rows, run, out, summary, last, reported, md, csv>>
          /\ pc'[TheShard] = pc[TheShard]
      BY <1>0, <2>6, <3>1 DEF Finish, Goto, files, tables, history, WInv, WaveTypes
    <3> QED
      BY <3>2, ComparisonStays DEF KeyState
  <2>7. ASSUME RunOne(TheShard) PROVE CInv'
    BY <2>7, ComparisonRuns
  <2>8. ASSUME CollectResults(TheShard) PROVE CInv'
    <3>1. UNCHANGED <<rows, run, summary, last, reported>>
      BY <2>8 DEF CollectResults, Finish, files, history
    <3>2. RowsAreLast'
      BY <3>1 DEF CInv, RowsAreLast
    <3>3. \A k \in Compared : md'[k] = summary'[k]
      BY <2>8, <3>1 DEF CollectResults
    <3>4. csv' = md' \/ \A k \in Compared : md'[k] = None
      BY <2>8 DEF CollectResults
    <3> QED
      BY <3>2, <3>3, <3>4 DEF CInv, TableShows
  <2> QED
    BY <1>0, <2>1, <2>2, <2>3, <2>4, <2>5, <2>6, <2>7, <2>8 DEF Next, ShardStep, ComparisonStep
<1> QED
  BY <1>1, <1>2, WaveInvariance, TaskInvariance, RowInvariance, PTL DEF Spec

(* When a comparison has come to its end, its table shows a project it ran  *)
(* with the data of that comparison and a status of success, or without     *)
(* data, whatever earlier comparisons left, and the csv file shows the same *)
(* or there is nothing to show (run_one and collect_results of              *)
(* run_oss_asanmm_comparison.py).                                           *)
THEOREM ComparisonCurrent == Spec => []ComparisonIsCurrent
<1>1. WInv /\ TInv /\ RInv /\ CInv => ComparisonIsCurrent
  <2> SUFFICES ASSUME WInv, TInv, RInv, CInv, pc[TheShard] = "done"
               PROVE  /\ \A i \in DOMAIN rows[TheShard] :
                            LET r == rows[TheShard][i]
                            IN  md[r.key] # None => md[r.key] = run[TheShard] /\ r.status = "S"
                      /\ csv = md \/ \A k \in Compared : md[k] = None
    BY ComparisonShard DEF ComparisonIsCurrent
  <2>1. csv = md \/ \A k \in Compared : md[k] = None
    BY DEF CInv, TableShows
  <2>2. ASSUME NEW i \in DOMAIN rows[TheShard], md[rows[TheShard][i].key] # None
        PROVE  md[rows[TheShard][i].key] = run[TheShard] /\ rows[TheShard][i].status = "S"
    <3>0. PICK r : r = rows[TheShard][i]
      OBVIOUS
    <3>1. i \in 1..Len(rows[TheShard]) /\ r \in StatusRow
      BY <3>0, ComparisonShard, RowFacts
    <3>2. r.key \in Compared /\ r.key \in Keys
      BY <3>0, <3>1, ComparisonRows
    <3>3. r.run = run[TheShard]
      BY <3>0, <3>1, ComparisonShard DEF RInv, RowsFit
    <3>4. reported[r.key] = r /\ last[r.key] = run[TheShard] /\ md[r.key] = summary[r.key]
      BY <3>0, <3>1, <3>2 DEF CInv, RowsAreLast, TableShows
    <3>5. reported[r.key] # None /\ summary[r.key] # None /\ ReportFits(r.key)
      BY <2>2, <3>0, <3>1, <3>2, <3>4, NoneIsNoRow DEF TInv
    <3>6. summary[r.key] <= reported[r.key].run
      BY <3>3, <3>4, <3>5 DEF ReportFits
    <3> QED
      BY <3>0, <3>3, <3>4, <3>5, <3>6 DEF ReportFits
  <2> QED
    BY <2>1, <2>2
<1> QED
  BY <1>1, WaveInvariance, TaskInvariance, RowInvariance, ComparisonInvariance, PTL

-----------------------------------------------------------------------------
(* Layer 5: the merged status files. *)

\* The greatest element of a set is what Max gives.
LEMMA MaxIs ==
    ASSUME NEW S \in SUBSET Nat, NEW m \in S, \A y \in S : y <= m
    PROVE  Max(S) = m
<1>1. \E z \in S : \A y \in S : z >= y
  <2>1. \A y \in S : m >= y
    OBVIOUS
  <2> QED
    BY <2>1
<1>2. Max(S) \in S /\ \A y \in S : Max(S) >= y
  BY <1>1 DEF Max
<1>3. PICK c \in S : c = Max(S)
  BY <1>2
<1>4. c >= m /\ c <= m
  BY <1>2, <1>3
<1>5. c \in Nat /\ m \in Nat
  OBVIOUS
<1> QED
  BY <1>3, <1>4, <1>5

\* No file of a wave after the one under way has rows.
OrderKept ==
    \A v \in active \cap Batches, u \in Batches : \A y \in Shards[u] : rows[y] # << >> => u <= v

\* The last row of the last file that has one for the key is the latest that
\* was written; without any, it is the one collected before.
HeldLast(k) ==
    /\ Holders(k) = {} => batch[k] = reported[k]
    /\ Holders(k) # {} =>
          \E x \in Holders(k) :
              /\ \A y \in Holders(k) : y <= x
              /\ \E i \in RowsFor(x, k) : rows[x][i] = reported[k] /\ \A j \in RowsFor(x, k) : j <= i

LInv == ordered => OrderKept /\ \A k \in Keys \ Compared : HeldLast(k)

\* So the collection finds it.
LEMMA MergedHeld == ASSUME WInv, RInv, NEW k, HeldLast(k) PROVE Merged(k) = reported[k]
<1>1. CASE Holders(k) = {}
  BY <1>1 DEF HeldLast, Merged
<1>2. CASE Holders(k) # {}
  <2>1. PICK x \in Holders(k) :
           /\ \A y \in Holders(k) : y <= x
           /\ \E i \in RowsFor(x, k) : rows[x][i] = reported[k] /\ \A j \in RowsFor(x, k) : j <= i
    BY <1>2 DEF HeldLast
  <2>2. PICK i \in RowsFor(x, k) : rows[x][i] = reported[k] /\ \A j \in RowsFor(x, k) : j <= i
    BY <2>1
  <2>3. Holders(k) \in SUBSET Nat
    BY BatchAssumption DEF Holders, ShardsOf, Batches
  <2>4. RowsFor(x, k) \in SUBSET Nat
    <3>1. x \in AllShards
      BY ComparisonShard DEF Holders
    <3> QED
      BY <3>1, RowFacts DEF RowsFor
  <2>5. Max(Holders(k)) = x /\ Max(RowsFor(x, k)) = i
    BY <2>1, <2>2, <2>3, <2>4, MaxIs
  <2> QED
    BY <1>2, <2>2, <2>5 DEF Merged, LastRow
<1> QED
  BY <1>1, <1>2

\* Steps that leave the rows of the batches alone.
LEMMA HeldStays ==
    ASSUME NEW k, HeldLast(k), \A x \in ShardsOf(Batches) : rows'[x] = rows[x],
           reported'[k] = reported[k], Holders(k) = {} => batch'[k] = batch[k]
    PROVE  HeldLast(k)'
<1>1. \A x \in ShardsOf(Batches) : RowsFor(x, k)' = RowsFor(x, k)
  BY DEF RowsFor
<1>2. Holders(k)' = Holders(k) /\ Holders(k) \subseteq ShardsOf(Batches)
  BY <1>1 DEF Holders
<1> QED
  BY <1>1, <1>2 DEF HeldLast

\* No step but the start of a wave and a row of a batch disturbs the order.
LEMMA MergeStays ==
    ASSUME LInv, \A x \in ShardsOf(Batches) : rows'[x] = rows[x], ordered' = ordered,
           active' \cap Batches \subseteq active,
           \A k \in Keys \ Compared : reported'[k] = reported[k], batch' = batch
    PROVE  LInv'
<1> SUFFICES ASSUME ordered' PROVE OrderKept' /\ \A k \in Keys \ Compared : HeldLast(k)'
  BY DEF LInv
<1>1. OrderKept'
  <2>1. \A u \in Batches : \A y \in Shards[u] : rows'[y] = rows[y]
    BY DEF ShardsOf
  <2> QED
    BY <2>1 DEF LInv, OrderKept
<1>2. \A k \in Keys \ Compared : HeldLast(k)'
  BY HeldStays DEF LInv
<1> QED
  BY <1>1, <1>2

\* A batch that is started in order finds its status files empty.
LEMMA StartMerge == ASSUME LInv, NEW v \in Batches, StartWave(v) PROVE LInv'
<1> SUFFICES ASSUME ordered' PROVE OrderKept' /\ \A k \in Keys \ Compared : HeldLast(k)'
  BY DEF LInv
<1>1. ordered /\ \A u \in Batches : \A y \in Shards[u] : rows[y] # << >> => u < v
  BY DEF StartWave
<1>2. v \in Nat /\ Batches \subseteq Nat /\ Batches \subseteq Waves
  BY BatchAssumption DEF Batches
<1>3. \A x \in Shards[v] : rows[x] = << >>
  BY <1>1, <1>2
<1>4. ASSUME NEW u \in Batches, NEW y \in Shards[u] PROVE rows'[y] = rows[y]
  <2>1. y \in AllShards
    BY <1>2 DEF AllShards, ShardsOf
  <2> QED
    BY <1>3, <2>1 DEF StartWave, Started
<1>5. active' \cap Batches = {v}
  BY DEF StartWave, Started
<1>6. OrderKept'
  BY <1>1, <1>2, <1>4, <1>5 DEF OrderKept
<1>7. \A x \in ShardsOf(Batches) : rows'[x] = rows[x]
  BY <1>4 DEF ShardsOf
<1>8. reported' = reported /\ batch' = batch
  BY DEF StartWave, tables
<1>9. \A k \in Keys \ Compared : HeldLast(k)'
  BY <1>1, <1>7, <1>8, HeldStays DEF LInv
<1> QED
  BY <1>6, <1>9

\* The row of a shard is in the last file that has one for the key.
LEMMA WriteRowMerge ==
    ASSUME WInv, TInv, RInv, LInv, NEW x \in ShardsOf(Batches), WriteRow(x)
    PROVE  LInv'
<1> SUFFICES ASSUME ordered' PROVE OrderKept' /\ \A k \in Keys \ Compared : HeldLast(k)'
  BY DEF LInv
<1>0. PICK k, r : k = Key(x) /\ r = Row(x)
  OBVIOUS
<1>1. /\ x \in AllShards /\ pc[x] = "row" /\ pc[x] \in Busy
      /\ rows' = [rows EXCEPT ![x] = Append(@, r)] /\ reported' = [reported EXCEPT ![k] = r]
      /\ r.key = k /\ UNCHANGED <<active, batch, ordered>>
  BY <1>0, ComparisonShard DEF WriteRow, Busy, Row, tables
<1>2. /\ at[x] \in 1..Len(Tasks[x]) /\ k \in Keys /\ r \in StatusRow
  <2>1. /\ at[x] \in 1..Len(Tasks[x]) /\ k \in Keys /\ run[x] \in 1..starts
        /\ outcome[x] \in {"S", "FAIL"}
    BY <1>0, <1>1, BusyFacts DEF TInv, WorkFits
  <2> QED
    BY <1>0, <2>1 DEF StatusRow, Row
<1>3. ordered /\ OrderKept /\ \A q \in Keys \ Compared : HeldLast(q)
  BY <1>1 DEF LInv
<1>4. PICK w \in Batches : x \in Shards[w]
  BY DEF ShardsOf
<1>5. w \in Waves /\ w \in active /\ w \in Nat /\ Batches \subseteq Nat /\ Batches \subseteq Waves
  BY <1>1, <1>4, BatchAssumption DEF Batches, WInv, ActiveWaves, Over
<1>6. /\ rows'[x] = Append(rows[x], r) /\ rows[x] \in Seq(StatusRow) /\ Len(rows[x]) \in Nat
      /\ Len(rows'[x]) = Len(rows[x]) + 1 /\ DOMAIN rows[x] = 1..Len(rows[x])
      /\ DOMAIN rows'[x] = 1..(Len(rows[x]) + 1)
      /\ \A i \in 1..Len(rows[x]) : rows'[x][i] = rows[x][i]
      /\ rows'[x][Len(rows[x]) + 1] = r
  <2>1. rows'[x] = Append(rows[x], r) /\ rows[x] \in Seq(StatusRow)
    BY <1>1 DEF RInv, RowTypes
  <2> QED
    BY <1>2, <2>1, AppendProperties, LenProperties
<1>7. \A y \in AllShards \ {x} : rows'[y] = rows[y]
  BY <1>1 DEF RInv, RowTypes
<1>8. OrderKept'
  <2> SUFFICES ASSUME NEW v \in active \cap Batches, NEW u \in Batches, NEW y \in Shards[u],
                      rows'[y] # << >>
               PROVE  u <= v
    BY <1>1 DEF OrderKept
  <2>1. CASE y = x
    <3>1. u = w /\ v = w
      BY <1>4, <1>5, <2>1, OneWaveEach DEF WInv, ActiveWaves
    <3> QED
      BY <1>5, <3>1
  <2>2. CASE y # x
    <3>1. y \in AllShards
      BY <1>5 DEF AllShards, ShardsOf
    <3> QED
      BY <1>3, <1>7, <2>2, <3>1 DEF OrderKept
  <2> QED
    BY <2>1, <2>2
<1>9. HeldLast(k)'
  <2> DEFINE n == Len(rows[x]) + 1
  <2>1. n \in RowsFor(x, k)' /\ \A j \in RowsFor(x, k)' : j <= n
    BY <1>1, <1>6 DEF RowsFor
  <2>2. x \in Holders(k)'
    BY <2>1 DEF Holders
  <2>3. ASSUME NEW y \in Holders(k)' PROVE y <= x
    <3>1. y \in ShardsOf(Batches) /\ y \in AllShards /\ RowsFor(y, k)' # {}
      BY ComparisonShard DEF Holders
    <3>2. PICK u \in Batches : y \in Shards[u]
      BY <3>1 DEF ShardsOf
    <3>3. x \in Nat /\ y \in Nat
      BY <1>4, <1>5, <3>2, BatchAssumption
    <3>4. CASE y = x
      BY <3>3, <3>4
    <3>5. CASE y # x
      <4>1. rows'[y] = rows[y]
        BY <1>7, <3>1, <3>5
      <4>2. PICK i \in DOMAIN rows[y] : rows[y][i].key = k
        BY <3>1, <4>1 DEF RowsFor
      <4>3. i \in 1..Len(rows[y]) /\ rows[y] # << >>
        BY <3>1, <4>2, RowFacts, EmptySeq
      <4>4. PICK j \in 1..Len(Tasks[y]) : k = Tasks[y][j]
        BY <3>1, <4>2, <4>3, RowIsTask
      <4>5. u <= w
        BY <1>3, <1>4, <1>5, <3>2, <4>3 DEF OrderKept
      <4>6. u # w
        <5> SUFFICES ASSUME u = w PROVE FALSE
          OBVIOUS
        <5>1. Tasks[x][at[x]] = Tasks[y][j] /\ j \in DOMAIN Tasks[y] /\ at[x] \in DOMAIN Tasks[x]
          BY <1>0, <1>1, <1>2, <3>1, <4>4, TaskLists DEF Key
        <5>2. Tasks[x][at[x]][1] # Tasks[y][j][1]
          BY <1>4, <1>5, <3>2, <3>5, <5>1, BatchAssumption
        <5> QED
          BY <5>1, <5>2
      <4>7. u < w
        BY <1>5, <4>5, <4>6
      <4>8. y < x
        BY <1>4, <1>5, <3>2, <4>7, BatchAssumption
      <4> QED
        BY <3>3, <4>8
    <3> QED
      BY <3>4, <3>5
  <2>4. rows'[x][n] = reported'[k]
    BY <1>1, <1>2, <1>6 DEF TInv, TaskTypes
  <2> QED
    BY <2>1, <2>2, <2>3, <2>4 DEF HeldLast
<1>10. ASSUME NEW q \in Keys \ Compared, q # k PROVE HeldLast(q)'
  <2>1. ASSUME NEW y \in ShardsOf(Batches)
        PROVE  /\ RowsFor(y, q)' = RowsFor(y, q)
               /\ \A i \in RowsFor(y, q) : rows'[y][i] = rows[y][i]
    <3>1. CASE y = x
      <4>1. ASSUME NEW i \in 1..(Len(rows[x]) + 1), rows'[x][i].key = q
            PROVE  i \in 1..Len(rows[x])
        <5>1. i # Len(rows[x]) + 1
          BY <1>1, <1>6, <1>10, <4>1
        <5>2. \A n \in Nat : \A j \in 1..(n + 1) : j # n + 1 => j \in 1..n
          OBVIOUS
        <5> QED
          BY <1>6, <5>1, <5>2
      <4> QED
        <5>1. ASSUME NEW i PROVE i \in RowsFor(x, q)' <=> i \in RowsFor(x, q)
          <6>1. ASSUME i \in RowsFor(x, q)' PROVE i \in RowsFor(x, q)
            <7>1. i \in 1..(Len(rows[x]) + 1) /\ rows'[x][i].key = q
              BY <1>6, <6>1 DEF RowsFor
            <7>2. i \in 1..Len(rows[x])
              BY <4>1, <7>1
            <7> QED
              BY <1>6, <7>1, <7>2 DEF RowsFor
          <6>2. ASSUME i \in RowsFor(x, q) PROVE i \in RowsFor(x, q)'
            <7>1. i \in 1..Len(rows[x]) /\ rows[x][i].key = q
              BY <1>6, <6>2 DEF RowsFor
            <7>2. i \in 1..(Len(rows[x]) + 1) /\ rows'[x][i] = rows[x][i]
              BY <1>6, <7>1
            <7> QED
              BY <1>6, <7>1, <7>2 DEF RowsFor
          <6> QED
            BY <6>1, <6>2
        <5>2. RowsFor(x, q)' = RowsFor(x, q)
          BY <5>1
        <5>3. RowsFor(x, q) \subseteq 1..Len(rows[x])
          BY <1>6 DEF RowsFor
        <5> QED
          BY <1>6, <3>1, <5>2, <5>3
    <3>2. CASE y # x
      BY <1>7, <3>2, ComparisonShard DEF RowsFor
    <3> QED
      BY <3>1, <3>2
  <2>2. Holders(q)' = Holders(q) /\ Holders(q) \subseteq ShardsOf(Batches)
    BY <2>1 DEF Holders
  <2>3. reported'[q] = reported[q] /\ batch' = batch /\ HeldLast(q)
    BY <1>1, <1>3, <1>10 DEF TInv, TaskTypes
  <2> QED
    BY <2>1, <2>2, <2>3 DEF HeldLast
<1> QED
  BY <1>8, <1>9, <1>10

\* The collection keeps what it has found.
LEMMA CollectMerge == ASSUME WInv, RInv, LInv, Collect PROVE LInv'
<1> SUFFICES ASSUME ordered' PROVE OrderKept' /\ \A k \in Keys \ Compared : HeldLast(k)'
  BY DEF LInv
<1>1. ordered /\ UNCHANGED <<active, rows, reported>>
  BY DEF Collect, history
<1>2. OrderKept'
  BY <1>1 DEF LInv, OrderKept
<1>3. ASSUME NEW k \in Keys \ Compared PROVE HeldLast(k)'
  <2>1. HeldLast(k)
    BY <1>1 DEF LInv
  <2>2. batch'[k] = Merged(k)
    BY DEF Collect, TableRow
  <2>3. Holders(k) = {} => batch'[k] = batch[k]
    BY <2>2 DEF Merged
  <2> QED
    BY <1>1, <2>1, <2>3, HeldStays
<1> QED
  BY <1>2, <1>3

\* The fifth layer holds in every reachable state.
LEMMA MergeInvariance == Spec => []LInv
<1>0. TheShard \in AllShards /\ Shards[Comparison] = {TheShard} /\ TheShard \notin ShardsOf(Batches)
  BY ComparisonShard
<1>1. Init => LInv
  <2> SUFFICES ASSUME Init PROVE LInv
    OBVIOUS
  <2>1. OrderKept
    BY DEF Init, OrderKept
  <2>2. \A x \in ShardsOf(Batches) : rows[x] = << >> /\ DOMAIN rows[x] = {}
    BY ComparisonShard DEF Init
  <2>3. ASSUME NEW k \in Keys PROVE HeldLast(k)
    <3>1. Holders(k) = {}
      BY <2>2 DEF Holders, RowsFor
    <3> QED
      BY <3>1 DEF Init, HeldLast
  <2> QED
    BY <2>1, <2>3 DEF LInv
<1>2. WInv /\ TInv /\ RInv /\ LInv /\ [Next]_vars => LInv'
  <2> SUFFICES ASSUME WInv, TInv, RInv, LInv, [Next]_vars PROVE LInv'
    OBVIOUS
  <2>1. ASSUME NEW v \in Batches, StartWave(v) PROVE LInv'
    BY <2>1, StartMerge
  <2>2. CASE StartComparison
    <3>1. \A x \in ShardsOf(Batches) : x \in AllShards /\ x \notin Shards[Comparison]
      BY <1>0, ComparisonShard
    <3>2. \A x \in ShardsOf(Batches) : rows'[x] = rows[x]
      BY <2>2, <3>1 DEF StartComparison, Started
    <3>3. active' = active \cup {Comparison} /\ UNCHANGED <<ordered, reported, batch>>
      BY <2>2 DEF StartComparison, Started, tables, history
    <3> QED
      BY <3>2, <3>3, MergeStays DEF Batches
  <2>3. CASE (\E v \in Waves : KillWave(v) \/ WaveEnds(v)) \/ UNCHANGED vars
    <3>1. UNCHANGED <<rows, ordered, reported, batch>> /\ active' \subseteq active
      BY <2>3 DEF KillWave, WaveEnds, vars, tables, history
    <3> QED
      BY <3>1, MergeStays
  <2>4. ASSUME NEW x \in AllShards, Finish(x), UNCHANGED batch PROVE LInv'
    <3>1. UNCHANGED <<rows, ordered, reported, batch, active>>
      BY <2>4 DEF Finish, history
    <3> QED
      BY <3>1, MergeStays
  <2>5. ASSUME NEW x \in ShardsOf(Batches), RunOne(x), ~WriteRow(x) PROVE LInv'
    <3>1. x \in AllShards
      BY ComparisonShard
    <3>2. UNCHANGED <<rows, ordered, batch, active>>
      BY <2>5, <3>1, RunOneFrame, OtherStepsRows
    <3>3. reported' = reported
      BY <2>5, <3>1, InnerSteps DEF RemoveOut
    <3> QED
      BY <3>2, <3>3, MergeStays
  <2>6. ASSUME NEW x \in ShardsOf(Batches), WriteRow(x) PROVE LInv'
    BY <2>6, WriteRowMerge
  <2>7. ASSUME RunOne(TheShard) PROVE LInv'
    <3>1. /\ UNCHANGED <<ordered, batch, active>>
          /\ \A y \in AllShards \ {TheShard} : rows'[y] = rows[y]
          /\ \A q \in Keys \ {Key(TheShard)} : KeyState(q)' = KeyState(q)
      BY <1>0, <2>7, RunOneFrame
    <3>2. Key(TheShard) \in Compared
      BY <1>0, <2>7, StepKey
    <3>3. \A q \in Keys \ Compared : reported'[q] = reported[q]
      BY <3>1, <3>2 DEF KeyState
    <3>4. \A y \in ShardsOf(Batches) : rows'[y] = rows[y]
      BY <1>0, <3>1, ComparisonShard
    <3> QED
      BY <3>1, <3>3, <3>4, MergeStays
  <2>8. CASE Collect
    BY <2>8, CollectMerge
  <2> QED
    BY <1>0, <2>1, <2>2, <2>3, <2>4, <2>5, <2>6, <2>7, <2>8, ComparisonShard
    DEF Next, ShardStep, ComparisonStep, CollectResults, tables
<1> QED
  BY <1>1, <1>2, WaveInvariance, TaskInvariance, RowInvariance, PTL DEF Spec

(* When the batch waves were started in the order in which their files are  *)
(* merged, a collection between them gives every key the latest row any run *)
(* has written, for any number of waves, shards and reruns, killed or not   *)
(* (collect_oss_batch_results.py and collect_oss_all_results.sh).           *)
THEOREM MergedLatest == Spec => []MergedIsLatest
<1>1. WInv /\ RInv /\ LInv => MergedIsLatest
  BY MergedHeld DEF LInv, MergedIsLatest
<1> QED
  BY <1>1, WaveInvariance, RowInvariance, MergeInvariance, PTL

(* And then the table shows no data but those of the run whose status       *)
(* stands beside them, and none beside a failure, also after runs that died *)
(* while they removed old results, unless the data are of a later run that  *)
(* was stopped before it reported.                                          *)
THEOREM DataFits == Spec => []DataFitStatus
<1>1. WInv /\ TInv /\ RInv /\ LInv => DataFitStatus
  <2> SUFFICES ASSUME WInv, TInv, RInv, LInv, ordered, NEW k \in Keys \ Compared,
                      summary[k] # None, reported[k] # None, summary[k] <= reported[k].run
               PROVE  TableRow(k).row.status = "S" /\ TableRow(k).data = TableRow(k).row.run
    BY DEF DataFitStatus
  <2>1. Merged(k) = reported[k]
    BY MergedHeld DEF LInv
  <2>2. reported[k].status = "S" /\ summary[k] = reported[k].run
    BY DEF TInv, ReportFits
  <2> QED
    BY <2>1, <2>2 DEF TableRow
<1> QED
  BY <1>1, WaveInvariance, TaskInvariance, RowInvariance, MergeInvariance, PTL

-----------------------------------------------------------------------------
(* Layer 6: the sources.                                                    *)

Preparing == {"unpack", "install", "clone", "build"}

SourceTypes ==
    /\ archive \in [Projects -> Trees] /\ src \in [Projects -> Trees]
    /\ tmp \in [Projects -> AllShards \cup {None}]
    /\ ordered \in BOOLEAN /\ disturbed \subseteq Keys

\* Two shards that prepare the same project know each other.
Apart ==
    \A x, y \in AllShards :
        x # y /\ pc[x] \in Preparing /\ pc[y] \in Preparing /\ Project(x) = Project(y) =>
            Key(x) \in disturbed /\ Key(y) \in disturbed

\* A shard that nobody has met finds of an archive what it has left there.
Undisturbed(x) ==
    pc[x] \in Preparing /\ Project(x) \notin GitProjects /\ Key(x) \notin disturbed =>
        /\ pc[x] = "install" => src[Project(x)] = "absent" /\ tmp[Project(x)] = x
        /\ pc[x] = "build" => src[Project(x)] = "whole"

SInv == SourceTypes /\ Apart /\ (\A x \in AllShards : Undisturbed(x)) /\ BuiltFromWhole

\* Steps that leave the sources alone and let no shard begin to prepare.
LEMMA SourceStays ==
    ASSUME SInv, UNCHANGED <<src, tmp, disturbed>>,
           archive' \in [Projects -> Trees], ordered' \in BOOLEAN,
           \A y \in AllShards : pc'[y] \in Preparing => pc'[y] = pc[y] /\ at'[y] = at[y],
           BuiltFromWhole'
    PROVE  SInv'
<1>1. SourceTypes'
  BY DEF SInv, SourceTypes
<1>2. \A y \in AllShards : pc'[y] \in Preparing =>
        pc'[y] = pc[y] /\ Key(y)' = Key(y) /\ Project(y)' = Project(y)
  BY DEF Key, Project
<1>3. Apart'
  BY <1>2 DEF SInv, Apart
<1>4. \A y \in AllShards : Undisturbed(y)'
  BY <1>2 DEF SInv, Undisturbed
<1> QED
  BY <1>1, <1>3, <1>4 DEF SInv

\* What was built is as it was, and no mark is lost.
LEMMA BuiltStays ==
    ASSUME SInv, out' = out, disturbed \subseteq disturbed'
    PROVE  BuiltFromWhole'
  BY DEF SInv, BuiltFromWhole

\* A step of the preparation: it changes the source of its own project, and
\* every shard that is at work there is marked.
LEMMA SourceMove ==
    ASSUME WInv, SInv, NEW x \in AllShards, NEW l \in Busy, Moves(x, l),
           at[x] \in 1..Len(Tasks[x]), Key(x) \in Keys,
           archive' \in [Projects -> Trees],
           NEW t \in Trees, src' = [src EXCEPT ![Project(x)] = t],
           NEW u \in AllShards \cup {None}, tmp' = [tmp EXCEPT ![Project(x)] = u],
           disturbed \subseteq disturbed', disturbed' \subseteq Keys, UNCHANGED <<out, ordered>>,
           \A y \in AllShards \ {x} : pc[y] \in Preparing /\ Project(y) = Project(x) =>
               Key(x) \in disturbed' /\ Key(y) \in disturbed',
           Undisturbed(x)'
    PROVE  SInv'
<1>1. SourceTypes'
  BY DEF SInv, SourceTypes
<1>2. /\ at' = at /\ \A y \in AllShards : Key(y)' = Key(y) /\ Project(y)' = Project(y)
      /\ \A y \in AllShards \ {x} : pc'[y] = pc[y]
  BY DEF Moves, Key, Project, Busy, WInv, WaveTypes
<1>3. Apart'
  <2> SUFFICES ASSUME NEW y \in AllShards, NEW z \in AllShards, y # z,
                      pc'[y] \in Preparing, pc'[z] \in Preparing, Project(y) = Project(z)
               PROVE  Key(y) \in disturbed' /\ Key(z) \in disturbed'
    BY <1>2 DEF Apart
  <2>1. CASE y # x /\ z # x
    BY <1>2, <2>1 DEF SInv, Apart
  <2>2. CASE y = x \/ z = x
    BY <1>2, <2>2
  <2> QED
    BY <2>1, <2>2
<1>4. ASSUME NEW y \in AllShards \ {x} PROVE Undisturbed(y)'
  <2> SUFFICES ASSUME pc[y] \in Preparing, Project(y) \notin GitProjects, Key(y) \notin disturbed'
               PROVE  /\ pc[y] = "install" => src'[Project(y)] = "absent" /\ tmp'[Project(y)] = y
                      /\ pc[y] = "build" => src'[Project(y)] = "whole"
    BY <1>2 DEF Undisturbed
  <2>1. Project(y) # Project(x)
    OBVIOUS
  <2>2. Project(y) \in Projects
    BY BusyKey DEF Preparing, Busy
  <2>3. src'[Project(y)] = src[Project(y)] /\ tmp'[Project(y)] = tmp[Project(y)]
    BY <2>1, <2>2 DEF SInv, SourceTypes
  <2> QED
    BY <2>3 DEF SInv, Undisturbed
<1>5. BuiltFromWhole'
  BY BuiltStays
<1> QED
  BY <1>1, <1>3, <1>4, <1>5 DEF SInv

\* Whom a shard meets is marked.
LEMMA DisturbMarks ==
    ASSUME WInv, SInv, NEW x \in AllShards, pc[x] \in Busy, Disturb(x)
    PROVE  /\ disturbed \subseteq disturbed' /\ disturbed' \subseteq Keys
           /\ \A y \in AllShards \ {x} : pc[y] \in Preparing /\ Project(y) = Project(x) =>
                 Key(x) \in disturbed' /\ Key(y) \in disturbed'
<1>1. Key(x) \in Keys /\ \A y \in AllShards : pc[y] \in Preparing => Key(y) \in Keys
  BY BusyKey DEF Preparing, Busy
<1> QED
  BY <1>1 DEF Disturb, Preparing, SInv, SourceTypes

\* Facts about a shard that prepares its source.
LEMMA SourceFacts ==
    ASSUME WInv, SInv, NEW x \in AllShards, pc[x] \in {"source"} \cup Preparing
    PROVE  /\ pc[x] \in Busy /\ pc[x] \notin Over /\ at[x] \in 1..Len(Tasks[x]) /\ at[x] <= Len(Tasks[x])
           /\ Key(x) \in Keys /\ Project(x) \in Projects
           /\ archive[Project(x)] \in Trees /\ src[Project(x)] \in Trees
           /\ tmp[Project(x)] \in AllShards \cup {None}
           /\ src = [src EXCEPT ![Project(x)] = src[Project(x)]]
           /\ tmp = [tmp EXCEPT ![Project(x)] = tmp[Project(x)]]
<1>1. pc[x] \in Busy /\ pc[x] \notin Over
  BY DEF Preparing, Busy, Over
<1>2. at[x] \in 1..Len(Tasks[x]) /\ Key(x) \in Keys /\ Project(x) \in Projects
  BY <1>1, BusyKey
<1>3. at[x] <= Len(Tasks[x])
  BY <1>1 DEF WInv, PlaceFits
<1> QED
  BY <1>1, <1>2, <1>3 DEF SInv, SourceTypes

\* The state of a shard and its key after a move to l.
LEMMA MovedShard ==
    ASSUME WInv, NEW x \in AllShards, NEW l \in Busy, Moves(x, l)
    PROVE  pc'[x] = l /\ at' = at /\ Key(x)' = Key(x) /\ Project(x)' = Project(x)
  BY DEF Moves, Key, Project, Busy, WInv, WaveTypes

\* A preparation that fails: the task ends with its row.
LEMMA PreparationFails ==
    ASSUME WInv, SInv, NEW x \in AllShards, pc[x] \in {"source"} \cup Preparing,
           pc' = [pc EXCEPT ![x] = "row"], at' = at, archive' \in [Projects -> Trees],
           UNCHANGED <<src, tmp, out, ordered, disturbed>>
    PROVE  SInv'
<1>1. \A y \in AllShards : pc'[y] \in Preparing => pc'[y] = pc[y] /\ at'[y] = at[y]
  BY DEF WInv, WaveTypes, Preparing
<1>2. BuiltFromWhole'
  BY BuiltStays
<1>3. ordered' \in BOOLEAN
  BY DEF SInv, SourceTypes
<1> QED
  BY <1>1, <1>2, <1>3, SourceStays

\* The archive is there and the removal of the old source begins, or it is not.
LEMMA DownloadSource == ASSUME WInv, SInv, NEW x \in AllShards, Download(x) PROVE SInv'
<1>0. PICK p : p = Project(x)
  OBVIOUS
<1>1. pc[x] = "source" /\ UNCHANGED <<starts, active, run, at, tmp, out, ordered>>
  BY DEF Download, files
<1>2. /\ pc[x] \in Busy /\ pc[x] \notin Over /\ at[x] \in 1..Len(Tasks[x]) /\ at[x] <= Len(Tasks[x])
      /\ Key(x) \in Keys /\ p \in Projects /\ tmp = [tmp EXCEPT ![p] = tmp[p]]
      /\ tmp[p] \in AllShards \cup {None} /\ src[p] \in Trees
  BY <1>0, <1>1, SourceFacts
<1>3. archive' \in [Projects -> Trees]
  BY <1>0 DEF Download, SInv, SourceTypes
<1>4. CASE src' = [src EXCEPT ![p] = Torn(p)] /\ Disturb(x) /\ Goto(x, "unpack")
  <2>1. Torn(p) \in Trees
    BY DEF Torn, Trees
  <2>2. "unpack" \in Busy /\ Moves(x, "unpack")
    BY <1>1, <1>2, <1>4 DEF Moves, Goto, Busy
  <2>3. Undisturbed(x)'
    BY <2>2, MovedShard DEF Undisturbed
  <2> QED
    BY <1>0, <1>1, <1>2, <1>3, <1>4, <2>1, <2>2, <2>3, DisturbMarks, SourceMove
<1>5. CASE Decide(x, "FAIL") /\ UNCHANGED <<src, disturbed>>
  BY <1>1, <1>3, <1>5, PreparationFails DEF Decide, Goto
<1> QED
  BY <1>0, <1>4, <1>5 DEF Download

\* The old source is gone and tar has begun, or another made the removal fail.
LEMMA UnpackSource == ASSUME WInv, SInv, NEW x \in AllShards, Unpack(x) PROVE SInv'
<1>0. PICK p : p = Project(x)
  OBVIOUS
<1>1. pc[x] = "unpack" /\ UNCHANGED <<starts, active, run, at, archive, out, ordered, disturbed>>
  BY DEF Unpack, files, history
<1>2. /\ pc[x] \in Busy /\ pc[x] \notin Over /\ at[x] \in 1..Len(Tasks[x]) /\ at[x] <= Len(Tasks[x])
      /\ Key(x) \in Keys /\ p \in Projects
  BY <1>0, <1>1, SourceFacts DEF Preparing
<1>3. archive' \in [Projects -> Trees] /\ disturbed \subseteq disturbed' /\ disturbed' \subseteq Keys
  BY <1>1 DEF SInv, SourceTypes
<1>4. CASE src' = [src EXCEPT ![p] = "absent"] /\ tmp' = [tmp EXCEPT ![p] = x] /\ Goto(x, "install")
  <2>1. "absent" \in Trees /\ x \in AllShards \cup {None}
    BY DEF Trees
  <2>2. "install" \in Busy /\ Moves(x, "install")
    BY <1>1, <1>2, <1>4 DEF Moves, Goto, Busy
  <2>3. src'[p] = "absent" /\ tmp'[p] = x
    BY <1>2, <1>4 DEF SInv, SourceTypes
  <2>4. Undisturbed(x)'
    BY <1>0, <2>2, <2>3, MovedShard DEF Undisturbed
  <2>5. \A y \in AllShards \ {x} : pc[y] \in Preparing /\ Project(y) = Project(x) =>
            Key(x) \in disturbed' /\ Key(y) \in disturbed'
    BY <1>1 DEF SInv, Apart, Preparing
  <2> QED
    BY <1>0, <1>1, <1>2, <1>3, <1>4, <2>1, <2>2, <2>4, <2>5, SourceMove
<1>5. CASE Decide(x, "FAIL") /\ UNCHANGED <<src, tmp>>
  BY <1>1, <1>3, <1>5, PreparationFails DEF Decide, Goto, Preparing
<1> QED
  BY <1>0, <1>4, <1>5 DEF Unpack

\* The tree is renamed to the source directory, or is not.
LEMMA InstallSource == ASSUME WInv, SInv, NEW x \in AllShards, Install(x) PROVE SInv'
<1>0. PICK p, t : p = Project(x) /\ t = IF tmp[p] = x THEN "whole" ELSE "partial"
  OBVIOUS
<1>1. pc[x] = "install" /\ UNCHANGED <<starts, active, run, at, archive, out, ordered, disturbed>>
  BY DEF Install, files, history
<1>2. /\ pc[x] \in Busy /\ pc[x] \notin Over /\ at[x] \in 1..Len(Tasks[x]) /\ at[x] <= Len(Tasks[x])
      /\ Key(x) \in Keys /\ p \in Projects
  BY <1>0, <1>1, SourceFacts DEF Preparing
<1>3. archive' \in [Projects -> Trees] /\ disturbed \subseteq disturbed' /\ disturbed' \subseteq Keys
  BY <1>1 DEF SInv, SourceTypes
<1>4. CASE src' = [src EXCEPT ![p] = t] /\ tmp' = [tmp EXCEPT ![p] = None] /\ Goto(x, "build")
  <2>1. t \in Trees /\ None \in AllShards \cup {None}
    BY <1>0 DEF Trees
  <2>2. "build" \in Busy /\ Moves(x, "build")
    BY <1>1, <1>2, <1>4 DEF Moves, Goto, Busy
  <2>3. src'[p] = t
    BY <1>2, <1>4 DEF SInv, SourceTypes
  <2>4. Undisturbed(x)'
    <3> SUFFICES ASSUME Project(x) \notin GitProjects, Key(x) \notin disturbed PROVE src'[p] = "whole"
      BY <1>0, <1>1, <2>2, MovedShard DEF Undisturbed
    <3>1. tmp[p] = x
      BY <1>0, <1>1 DEF SInv, Undisturbed, Preparing
    <3> QED
      BY <1>0, <2>3, <3>1
  <2>5. \A y \in AllShards \ {x} : pc[y] \in Preparing /\ Project(y) = Project(x) =>
            Key(x) \in disturbed' /\ Key(y) \in disturbed'
    BY <1>1 DEF SInv, Apart, Preparing
  <2> QED
    BY <1>0, <1>1, <1>2, <1>3, <1>4, <2>1, <2>2, <2>4, <2>5, SourceMove
<1>5. CASE Decide(x, "FAIL") /\ UNCHANGED <<src, tmp>>
  BY <1>1, <1>3, <1>5, PreparationFails DEF Decide, Goto, Preparing
<1> QED
  BY <1>0, <1>4, <1>5 DEF Install

\* A clone or an update of one.
LEMMA GitSource == ASSUME WInv, SInv, NEW x \in AllShards, PrepareGit(x) PROVE SInv'
<1>0. PICK p : p = Project(x)
  OBVIOUS
<1>1. /\ pc[x] = "source" /\ p \in GitProjects /\ Disturb(x)
      /\ UNCHANGED <<starts, active, run, at, archive, tmp, out, ordered>>
  BY <1>0 DEF PrepareGit, files
<1>2. /\ pc[x] \in Busy /\ pc[x] \notin Over /\ at[x] \in 1..Len(Tasks[x]) /\ at[x] <= Len(Tasks[x])
      /\ Key(x) \in Keys /\ p \in Projects /\ tmp = [tmp EXCEPT ![p] = tmp[p]]
      /\ src = [src EXCEPT ![p] = src[p]] /\ tmp[p] \in AllShards \cup {None} /\ src[p] \in Trees
  BY <1>0, <1>1, SourceFacts
<1>3. archive' \in [Projects -> Trees]
  BY <1>1 DEF SInv, SourceTypes
<1>4. PICK t \in Trees : src' = [src EXCEPT ![p] = t]
  BY <1>0, <1>2 DEF PrepareGit, Trees
<1>5. PICK l \in {"clone", "build", "row"} : pc' = [pc EXCEPT ![x] = l]
  BY <1>0 DEF PrepareGit, Goto, Decide
<1>6. l \in Busy /\ Moves(x, l)
  BY <1>1, <1>2, <1>5 DEF Moves, Busy
<1>7. Undisturbed(x)'
  BY <1>0, <1>1, <1>6, MovedShard DEF Undisturbed
<1> QED
  BY <1>0, <1>1, <1>2, <1>3, <1>4, <1>6, <1>7, DisturbMarks, SourceMove

\* The clone has ended or was stopped.
LEMMA CloneSource == ASSUME WInv, SInv, NEW x \in AllShards, CloneEnds(x) PROVE SInv'
<1>0. PICK p : p = Project(x)
  OBVIOUS
<1>1. pc[x] = "clone" /\ UNCHANGED <<starts, active, run, at, archive, tmp, out, ordered, disturbed>>
  BY <1>0 DEF CloneEnds, files, history
<1>2. /\ pc[x] \in Busy /\ pc[x] \notin Over /\ at[x] \in 1..Len(Tasks[x]) /\ at[x] <= Len(Tasks[x])
      /\ Key(x) \in Keys /\ p \in Projects /\ tmp = [tmp EXCEPT ![p] = tmp[p]]
      /\ src = [src EXCEPT ![p] = src[p]] /\ tmp[p] \in AllShards \cup {None} /\ src[p] \in Trees
  BY <1>0, <1>1, SourceFacts DEF Preparing
<1>3. archive' \in [Projects -> Trees] /\ disturbed \subseteq disturbed' /\ disturbed' \subseteq Keys
  BY <1>1 DEF SInv, SourceTypes
<1>4. PICK t \in Trees, l \in {"build", "row"} :
         src' = [src EXCEPT ![p] = t] /\ pc' = [pc EXCEPT ![x] = l] /\ (l = "build" => t = "whole")
  BY <1>0, <1>2 DEF CloneEnds, Goto, Decide, Trees
<1>5. l \in Busy /\ Moves(x, l)
  BY <1>1, <1>2, <1>4 DEF Moves, Busy
<1>6. Undisturbed(x)'
  <2>1. src'[p] = t
    BY <1>2, <1>4 DEF SInv, SourceTypes
  <2> QED
    BY <1>0, <1>4, <1>5, <2>1, MovedShard DEF Undisturbed, Preparing
<1>7. \A y \in AllShards \ {x} : pc[y] \in Preparing /\ Project(y) = Project(x) =>
          Key(x) \in disturbed' /\ Key(y) \in disturbed'
  BY <1>1 DEF SInv, Apart, Preparing
<1> QED
  BY <1>0, <1>1, <1>2, <1>3, <1>4, <1>5, <1>6, <1>7, SourceMove

\* The removal of the old out_root begins: what is left was built from the
\* same source.
LEMMA RemoveOutSource == ASSUME WInv, TInv, SInv, NEW x \in AllShards, RemoveOut(x) PROVE SInv'
<1>0. PICK k : k = Key(x)
  OBVIOUS
<1>1. pc[x] = "next" /\ UNCHANGED <<at, archive, src, tmp, ordered, disturbed>>
  BY DEF RemoveOut, sources
<1>2. at[x] \in 1..Len(Tasks[x]) /\ k \in Keys
  BY <1>0, StepKey DEF RunOne
<1>3. PICK o \in Remains(out[k]) : out' = [out EXCEPT ![k] = o]
  BY <1>0 DEF RemoveOut
<1>4. (o = None <=> out[k] = None) /\ (o # None => o.whole = out[k].whole)
  BY <1>2, RemainsFacts DEF TInv, TaskTypes
<1>5. \A y \in AllShards : pc'[y] \in Preparing => pc'[y] = pc[y] /\ at'[y] = at[y]
  BY <1>1 DEF RemoveOut, Goto, WInv, WaveTypes, Preparing
<1>6. BuiltFromWhole' /\ archive' \in [Projects -> Trees] /\ ordered' \in BOOLEAN
  BY <1>1, <1>2, <1>3, <1>4 DEF SInv, SourceTypes, BuiltFromWhole, TInv, TaskTypes
<1> QED
  BY <1>1, <1>5, <1>6, SourceStays

\* The old out_root is gone, and whom it met with it; or its removal fails.
LEMMA OutRemovedSource == ASSUME WInv, TInv, SInv, NEW x \in AllShards, OutRemoved(x) PROVE SInv'
<1>0. PICK k : k = Key(x)
  OBVIOUS
<1>1. pc[x] = "clear" /\ UNCHANGED <<at, archive, src, tmp, ordered>>
  BY DEF OutRemoved, sources
<1>2. at[x] \in 1..Len(Tasks[x]) /\ k \in Keys
  BY <1>0, StepKey DEF RunOne
<1>3. CASE out' = [out EXCEPT ![k] = None] /\ disturbed' = disturbed \ {k} /\ Goto(x, "unlink")
  <2>1. \A y \in AllShards : pc'[y] \in Preparing =>
           y # x /\ pc[y] = pc'[y] /\ Key(y)' = Key(y) /\ Project(y)' = Project(y)
    BY <1>1, <1>3 DEF Goto, WInv, WaveTypes, Preparing, Key, Project
  <2>2. ASSUME NEW y \in AllShards, pc'[y] \in Preparing PROVE Key(y) # k
    <3>1. y # x /\ pc[y] \in Busy /\ pc[y] \notin Over /\ pc[x] \notin Over
      BY <1>1, <2>1, <2>2 DEF Preparing, Busy, Over
    <3>2. at[y] \in 1..Len(Tasks[y])
      BY <3>1, BusyKey
    <3> QED
      BY <1>0, <1>2, <3>1, <3>2, LiveApart DEF Key
  <2>3. SourceTypes'
    BY <1>1, <1>3 DEF SInv, SourceTypes
  <2>4. Apart'
    BY <1>3, <2>1, <2>2 DEF SInv, Apart
  <2>5. \A y \in AllShards : Undisturbed(y)'
    BY <1>1, <1>3, <2>1, <2>2 DEF SInv, Undisturbed
  <2>6. BuiltFromWhole'
    BY <1>2, <1>3 DEF SInv, BuiltFromWhole, TInv, TaskTypes
  <2> QED
    BY <2>3, <2>4, <2>5, <2>6 DEF SInv
<1>4. CASE Goto(x, "crashed") /\ UNCHANGED <<out, disturbed>>
  <2>1. \A y \in AllShards : pc'[y] \in Preparing => pc'[y] = pc[y] /\ at'[y] = at[y]
    BY <1>1, <1>4 DEF Goto, WInv, WaveTypes, Preparing
  <2>2. BuiltFromWhole' /\ archive' \in [Projects -> Trees] /\ ordered' \in BOOLEAN
    BY <1>1, <1>4, BuiltStays DEF SInv, SourceTypes
  <2> QED
    BY <1>1, <1>4, <2>1, <2>2, SourceStays
<1> QED
  BY <1>0, <1>3, <1>4 DEF OutRemoved

\* What a build copies is whole, when nobody has met the shard.
LEMMA BuildSource == ASSUME WInv, TInv, SInv, NEW x \in AllShards, BuildVariant(x) PROVE SInv'
<1>0. PICK k : k = Key(x)
  OBVIOUS
<1>1. pc[x] = "build" /\ pc[x] \in Busy /\ UNCHANGED <<at, archive, src, tmp, ordered, disturbed>>
  BY DEF BuildVariant, Busy, sources, history
<1>2. /\ at[x] \in 1..Len(Tasks[x]) /\ k \in Keys /\ out[k] \in OutRecord /\ k[1] = Project(x)
      /\ archive' \in [Projects -> Trees] /\ ordered' \in BOOLEAN
  BY <1>0, <1>1, BusyFacts, BusyKey DEF SInv, SourceTypes
<1>3. \A y \in AllShards : pc'[y] \in Preparing => pc'[y] = pc[y] /\ at'[y] = at[y]
  BY <1>1 DEF BuildVariant, Built, Goto, Decide, WInv, WaveTypes, Preparing
<1>4. \A q \in Keys \ {k} : out'[q] = out[q]
  BY <1>0 DEF BuildVariant, Built, TInv, TaskTypes
<1>5. ASSUME k[1] \notin GitProjects, k \notin disturbed PROVE out'[k].whole
  <2>1. src[Project(x)] = "whole"
    BY <1>0, <1>1, <1>2, <1>5 DEF SInv, Undisturbed, Preparing
  <2>2. out[k].whole
    <3>1. OutRecord \subseteq [run : Nat, used : BOOLEAN, built : Nat, timed : BOOLEAN, whole : BOOLEAN]
      BY DEF OutRecord, Variants, WInv, WaveTypes
    <3>2. out[k] # None
      BY <1>2, <3>1, BatchAssumption
    <3> QED
      BY <1>2, <1>5, <3>2 DEF SInv, BuiltFromWhole
  <2>3. CASE Built(x)
    <3>1. out' = [out EXCEPT ![k].used = TRUE, ![k].built = @ + 1,
                             ![k].whole = @ /\ src[Project(x)] = "whole"]
      BY <1>0, <2>3 DEF Built
    <3>2. out'[k].whole = (out[k].whole /\ src[Project(x)] = "whole")
      BY <1>2, <3>1 DEF TInv, TaskTypes, OutRecord
    <3> QED
      BY <2>1, <2>2, <3>2
  <2>4. CASE out' = [out EXCEPT ![k].used = TRUE]
    <3>1. out'[k].whole = out[k].whole
      BY <1>2, <2>4 DEF TInv, TaskTypes, OutRecord
    <3> QED
      BY <2>2, <3>1
  <2> QED
    BY <1>0, <2>3, <2>4 DEF BuildVariant
<1>6. BuiltFromWhole'
  BY <1>1, <1>2, <1>4, <1>5 DEF SInv, BuiltFromWhole
<1> QED
  BY <1>1, <1>2, <1>3, <1>6, SourceStays

\* The steps of a task that are no preparation and no build.
LEMMA LateSource ==
    ASSUME WInv, TInv, SInv, NEW x \in AllShards,
           RemoveSummary(x) \/ RunVariants(x) \/ Summarize(x) \/ WriteRow(x)
    PROVE  SInv'
<1>0. PICK k : k = Key(x)
  OBVIOUS
<1>1. pc[x] \in Busy /\ UNCHANGED <<archive, src, tmp, ordered, disturbed>>
  BY DEF RemoveSummary, RunVariants, Summarize, WriteRow, Busy, sources, history
<1>2. k \in Keys /\ (pc[x] \notin {"clear", "unlink"} => out[k] \in OutRecord)
  BY <1>0, <1>1, BusyFacts
<1>3. \A y \in AllShards : pc'[y] \in Preparing => pc'[y] = pc[y] /\ at'[y] = at[y]
  BY DEF RemoveSummary, RunVariants, Summarize, WriteRow, Goto, Decide, WInv, WaveTypes, Preparing
<1>4. BuiltFromWhole'
  <2>1. CASE RemoveSummary(x)
    <3>1. out' = [out EXCEPT ![k] = EmptyOut(x)]
      BY <1>0, <2>1 DEF RemoveSummary
    <3>2. out'[k].whole /\ \A q \in Keys \ {k} : out'[q] = out[q]
      BY <1>2, <3>1 DEF EmptyOut, TInv, TaskTypes
    <3> QED
      BY <1>1, <3>2 DEF SInv, BuiltFromWhole
  <2>2. CASE RunVariants(x)
    <3>1. out' = [out EXCEPT ![k].timed = TRUE] /\ out[k] \in OutRecord
      BY <1>0, <1>2, <2>2 DEF RunVariants
    <3>2. out'[k].whole = out[k].whole /\ \A q \in Keys \ {k} : out'[q] = out[q]
      BY <1>2, <3>1 DEF TInv, TaskTypes, OutRecord
    <3>3. out[k] # None
      <4>1. OutRecord \subseteq [run : Nat, used : BOOLEAN, built : Nat, timed : BOOLEAN, whole : BOOLEAN]
        BY DEF OutRecord, Variants, WInv, WaveTypes
      <4> QED
        BY <3>1, <4>1, BatchAssumption
    <3> QED
      BY <1>1, <3>2, <3>3 DEF SInv, BuiltFromWhole
  <2>3. CASE Summarize(x) \/ WriteRow(x)
    BY <1>1, <2>3, BuiltStays DEF Summarize, WriteRow, files
  <2> QED
    BY <2>1, <2>2, <2>3
<1>5. archive' \in [Projects -> Trees] /\ ordered' \in BOOLEAN
  BY <1>1 DEF SInv, SourceTypes
<1> QED
  BY <1>1, <1>3, <1>4, <1>5, SourceStays

\* The sixth layer holds in every reachable state.
LEMMA SourceInvariance == Spec => []SInv
<1>1. Init => SInv
  <2> SUFFICES ASSUME Init PROVE SInv
    OBVIOUS
  <2>1. SourceTypes
    BY DEF Init, SourceTypes, Trees
  <2>2. Apart /\ \A x \in AllShards : Undisturbed(x)
    BY DEF Init, Apart, Undisturbed, Preparing
  <2>3. BuiltFromWhole
    BY DEF Init, BuiltFromWhole
  <2> QED
    BY <2>1, <2>2, <2>3 DEF SInv
<1>2. WInv /\ TInv /\ SInv /\ [Next]_vars => SInv'
  <2> SUFFICES ASSUME WInv, TInv, SInv, [Next]_vars PROVE SInv'
    OBVIOUS
  <2>0. archive \in [Projects -> Trees] /\ ordered \in BOOLEAN
    BY DEF SInv, SourceTypes
  <2>1. ASSUME NEW v \in Waves, NEW first, Started(v, first),
               UNCHANGED <<sources, out, disturbed>>, ordered' \in BOOLEAN
        PROVE  SInv'
    <3>1. UNCHANGED <<archive, src, tmp>> /\ BuiltFromWhole'
      BY <2>1, BuiltStays DEF sources
    <3>2. \A y \in AllShards : pc'[y] \in Preparing => pc'[y] = pc[y] /\ at'[y] = at[y]
      BY <2>1 DEF Started, Preparing
    <3> QED
      BY <2>0, <2>1, <3>1, <3>2, SourceStays
  <2>2. ASSUME NEW v \in Batches, StartWave(v) PROVE SInv'
    BY <2>1, <2>2 DEF StartWave, Batches, files
  <2>3. CASE StartComparison
    BY <2>0, <2>1, <2>3, BatchAssumption DEF StartComparison, files, history
  <2>4. ASSUME NEW v \in Waves, KillWave(v) PROVE SInv'
    <3>1. /\ UNCHANGED <<archive, src, tmp, ordered, disturbed, out>>
          /\ \A y \in AllShards : pc'[y] \in Preparing => pc'[y] = pc[y] /\ at'[y] = at[y]
      BY <2>4 DEF KillWave, sources, files, history, Preparing
    <3> QED
      BY <2>0, <3>1, BuiltStays, SourceStays
  <2>5. ASSUME NEW x \in AllShards, Finish(x) PROVE SInv'
    <3>1. /\ UNCHANGED <<archive, src, tmp, ordered, disturbed, out>>
          /\ \A y \in AllShards : pc'[y] \in Preparing => pc'[y] = pc[y] /\ at'[y] = at[y]
      BY <2>5 DEF Finish, Goto, sources, files, history, Preparing, WInv, WaveTypes
    <3> QED
      BY <2>0, <3>1, BuiltStays, SourceStays
  <2>6. CASE (\E v \in Waves : WaveEnds(v)) \/ Collect \/ UNCHANGED vars
    <3>1. UNCHANGED <<archive, src, tmp, ordered, disturbed, out, pc, at>>
      BY <2>6 DEF WaveEnds, Collect, vars, shards, sources, files, history
    <3> QED
      BY <2>0, <3>1, BuiltStays, SourceStays
  <2>7. ASSUME NEW x \in AllShards, RunOne(x) PROVE SInv'
    BY <2>7, RemoveOutSource, OutRemovedSource, DownloadSource, UnpackSource, InstallSource, GitSource, CloneSource,
       BuildSource, LateSource DEF RunOne
  <2> QED
    BY <2>2, <2>3, <2>4, <2>5, <2>6, <2>7, ComparisonShard
    DEF Next, ShardStep, ComparisonStep, CollectResults
<1> QED
  BY <1>1, <1>2, WaveInvariance, TaskInvariance, PTL DEF Spec

(* What was built from an archive was built from the whole of it, as long   *)
(* as no other shard prepared the same project in the meantime, whatever    *)
(* killed runs and broken downloads have left (prepare_archive).            *)
THEOREM BuiltWhole == Spec => []BuiltFromWhole
<1>1. SInv => BuiltFromWhole
  BY DEF SInv
<1> QED
  BY <1>1, SourceInvariance, PTL

-----------------------------------------------------------------------------
(* Layer 7: the collected tables.                                           *)

\* What is merged is a row, whenever a file has one.
LEMMA MergedIsRow ==
    ASSUME WInv, RInv, NEW k, Holders(k) # {}
    PROVE  Merged(k) \in StatusRow
<1>1. Holders(k) \in SUBSET Nat /\ Holders(k) \subseteq AllShards /\ IsFiniteSet(Holders(k))
  <2>1. Holders(k) \subseteq AllShards
    BY ComparisonShard DEF Holders
  <2>2. AllShards \subseteq Nat
    BY BatchAssumption DEF AllShards, ShardsOf
  <2> QED
    BY <2>1, <2>2, BatchAssumption, FS_Subset
<1>2. PICK x \in Holders(k) : \A y \in Holders(k) : y <= x
  BY <1>1, GreatestNatural
<1>3. x \in AllShards /\ RowsFor(x, k) # {} /\ RowsFor(x, k) \subseteq 1..Len(rows[x]) /\ Len(rows[x]) \in Nat
  BY <1>1, RowFacts DEF Holders, RowsFor
<1>4. RowsFor(x, k) \in SUBSET Nat /\ IsFiniteSet(RowsFor(x, k))
  <2>1. IsFiniteSet(1..Len(rows[x]))
    BY <1>3, FS_Interval
  <2> QED
    BY <1>3, <2>1, FS_Subset
<1>5. PICK i \in RowsFor(x, k) : \A j \in RowsFor(x, k) : j <= i
  BY <1>3, <1>4, GreatestNatural
<1>6. Max(Holders(k)) = x /\ Max(RowsFor(x, k)) = i
  BY <1>1, <1>2, <1>4, <1>5, MaxIs
<1>7. rows[x][i] \in StatusRow
  BY <1>3, RowFacts
<1> QED
  BY <1>6, <1>7 DEF Merged, LastRow

TableTypes ==
    /\ batch \in [Keys -> StatusRow \cup {None}]
    /\ md \in [Compared -> {None} \cup 1..starts]
    /\ csv \in [Compared -> {None} \cup 1..starts]

\* The collection writes rows, or what was there.
LEMMA CollectTypes ==
    ASSUME WInv, RInv, TableTypes, Collect
    PROVE  TableTypes' /\ \A k \in Keys : batch[k] # None => batch'[k] # None
<1>1. starts' = starts /\ md' = md /\ csv' = csv /\ StatusRow' = StatusRow
  BY DEF Collect, StatusRow
<1>2. batch' = [k \in Keys |-> Merged(k)]
  BY DEF Collect, TableRow
<1>3. ASSUME NEW k \in Keys
      PROVE  Merged(k) \in StatusRow \cup {None} /\ (batch[k] # None => Merged(k) # None)
  <2>1. CASE Holders(k) = {}
    BY <2>1 DEF Merged, TableTypes
  <2>2. CASE Holders(k) # {}
    BY <2>2, MergedIsRow, NoneIsNoRow
  <2> QED
    BY <2>1, <2>2
<1> QED
  BY <1>1, <1>2, <1>3 DEF TableTypes

\* The seventh layer holds in every reachable state.
LEMMA TableInvariance == Spec => []TableTypes
<1>1. Init => TableTypes
  BY DEF Init, TableTypes
<1>2. WInv /\ TInv /\ RInv /\ TableTypes /\ [Next]_vars => TableTypes'
  <2> SUFFICES ASSUME WInv, TInv, RInv, TableTypes, [Next]_vars PROVE TableTypes'
    OBVIOUS
  <2>1. ASSUME starts' = starts, UNCHANGED tables PROVE TableTypes'
    BY <2>1 DEF TableTypes, StatusRow, tables
  <2>2. ASSUME NEW v \in Waves, NEW first, Started(v, first), UNCHANGED tables PROVE TableTypes'
    <3>1. 1..starts \subseteq 1..starts' /\ UNCHANGED <<batch, md, csv>>
      BY <2>2 DEF WInv, WaveTypes, Started, tables
    <3>2. StatusRow \subseteq StatusRow'
      BY <3>1 DEF StatusRow
    <3> QED
      BY <3>1, <3>2 DEF TableTypes
  <2>3. ASSUME NEW v \in Batches, StartWave(v) PROVE TableTypes'
    BY <2>2, <2>3 DEF StartWave, Batches
  <2>4. CASE StartComparison
    BY <2>2, <2>4, BatchAssumption DEF StartComparison
  <2>5. CASE \E v \in Waves : KillWave(v) \/ WaveEnds(v)
    BY <2>1, <2>5 DEF KillWave, WaveEnds
  <2>6. CASE UNCHANGED vars
    BY <2>1, <2>6 DEF vars
  <2>7. ASSUME NEW x \in AllShards, RunOne(x) PROVE TableTypes'
    BY <2>1, <2>7, RunOneFrame DEF tables
  <2>8. ASSUME NEW x \in AllShards, Finish(x), UNCHANGED tables PROVE TableTypes'
    BY <2>1, <2>8 DEF Finish
  <2>9. ASSUME NEW x \in AllShards, CollectResults(x) PROVE TableTypes'
    <3>1. starts' = starts /\ batch' = batch /\ summary \in [Keys -> {None} \cup 1..starts]
      BY <2>9 DEF CollectResults, Finish, TInv, TaskTypes
    <3>2. md' \in [Compared -> {None} \cup 1..starts]
      BY <2>9, <3>1, ComparedKeys DEF CollectResults
    <3>3. csv' \in [Compared -> {None} \cup 1..starts]
      BY <2>9, <3>2 DEF CollectResults, TableTypes
    <3> QED
      BY <3>1, <3>2, <3>3 DEF TableTypes, StatusRow
  <2>10. CASE Collect
    BY <2>10, CollectTypes
  <2> QED
    BY <2>3, <2>4, <2>5, <2>6, <2>7, <2>8, <2>9, <2>10, ComparisonShard
    DEF Next, ShardStep, ComparisonStep
<1> QED
  BY <1>1, <1>2, WaveInvariance, TaskInvariance, RowInvariance, PTL DEF Spec

(* The state keeps its types: no run is summarized, reported or collected   *)
(* before it was started, for any number of starts.                         *)
THEOREM TypeCorrect == Spec => []TypeOK
<1>1. WInv /\ TInv /\ RInv /\ SInv /\ TableTypes => TypeOK
  <2> SUFFICES ASSUME WInv, TInv, RInv, SInv, TableTypes PROVE TypeOK
    OBVIOUS
  <2>1. /\ starts \in 0..MaxStarts /\ active \subseteq Waves /\ run \in [AllShards -> 0..starts]
        /\ pc \in [AllShards -> Over \cup {"next", "clear", "unlink", "source", "unpack", "install", "clone",
                                           "build", "run", "summarize", "row"}]
        /\ \A x \in AllShards : at[x] \in 1..(Len(Tasks[x]) + 1)
    BY DEF WInv, WaveTypes, PlaceFits, Places, Busy
  <2>2. /\ outcome \in [AllShards -> {"S", "FAIL", None}]
        /\ out \in [Keys -> {None} \cup [run : 1..starts, used : BOOLEAN, built : 0..Variants,
                                         timed : BOOLEAN, whole : BOOLEAN]]
        /\ summary \in [Keys -> {None} \cup 1..starts]
        /\ last \in [Keys -> 0..starts]
        /\ reported \in [Keys -> StatusRow \cup {None}]
    BY DEF TInv, TaskTypes, OutRecord
  <2>3. rows \in [AllShards -> Seq(StatusRow)]
    BY DEF RInv, RowTypes
  <2> QED
    BY <2>1, <2>2, <2>3 DEF SInv, SourceTypes, TableTypes, TypeOK
<1> QED
  BY <1>1, WaveInvariance, TaskInvariance, RowInvariance, SourceInvariance, TableInvariance, PTL

(* A collection loses no key that an earlier one had, in whatever order the *)
(* waves were started and however often (collect_oss_batch_results.py reads *)
(* the status file of all batches back before it writes it).                *)
THEOREM CollectionsKeep == Spec => CollectedStays
<1>1. WInv /\ RInv /\ TableTypes /\ [Next]_vars => [\A k \in Keys : batch[k] # None => batch'[k] # None]_vars
  <2> SUFFICES ASSUME WInv, RInv, TableTypes, Next
               PROVE  \A k \in Keys : batch[k] # None => batch'[k] # None
    OBVIOUS
  <2>1. CASE Collect
    BY <2>1, CollectTypes
  <2>2. CASE ~Collect
    <3>1. batch' = batch
      BY <2>2 DEF Next, StartWave, StartComparison, KillWave, WaveEnds, ShardStep, ComparisonStep,
                  CollectResults, RunOne, RemoveOut, OutRemoved, RemoveSummary, Download, Unpack, Install,
                  PrepareGit, CloneEnds, BuildVariant, RunVariants, Summarize, WriteRow, tables
    <3> QED
      BY <3>1
  <2> QED
    BY <2>1, <2>2
<1> QED
  BY <1>1, WaveInvariance, RowInvariance, TableInvariance, PTL DEF Spec, CollectedStays
=============================================================================
