------------------------ MODULE CheckExecutionProofs ------------------------
(* Proofs about CheckGraphBuilder and CheckExecution, for all functions, all *)
(* placements of checks in them and all runs: the check graph says what     *)
(* runs of the functions do, and deletions along its dominance are covered. *)
EXTENDS CheckExecution, FiniteSetTheorems, FiniteFacts, TLAPS

-----------------------------------------------------------------------------
(* The inductive invariant, in three parts: the functions and their checks, *)
(* which never change; the graph as far as it has been built; the run.      *)

\* What the functions of GraphInit look like.
Static ==
    /\ succ \in [Blocks -> SUBSET Blocks]
    /\ BB \in [Nodes -> Blocks]
    /\ kind \in [Nodes -> CheckKinds]
    /\ Type \in [Nodes -> AccessTypes]
    /\ WellFormedBranches
    /\ WellFormedChecks

\* There is a path of at least one branch from block a to block b.
PathTo(a, b) ==
    \A R \in SUBSET Blocks :
        /\ succ[a] \subseteq R
        /\ \A c \in R : succ[c] \subseteq R
        => b \in R

\* The double loop has dealt with the pair of m and n.
PairDone(m, n) == m < From \/ (m = From /\ n < To)

\* The edges entered so far are right, and none is entered early.
EdgesInv ==
    \A m, n \in Nodes :
        /\ ~PairDone(m, n) => n \notin Successors[m]
        /\ PairDone(m, n) /\ AnchorBlock(m) # AnchorBlock(n)
           => (n \in Successors[m] <=> PathTo(AnchorBlock(m), AnchorBlock(n)))

\* The search has seen only what lies on paths, and what it has taken from
\* the queue it has followed.
SearchInv ==
    pc = "search" =>
        /\ From \in Nodes
        /\ AnchorBlock(From) # AnchorBlock(To)
        /\ \A b \in Worklist \cup Visited : PathTo(AnchorBlock(From), b)
        /\ succ[AnchorBlock(From)] \subseteq Worklist \cup Visited
        /\ \A c \in Visited : succ[c] \subseteq Worklist \cup Visited
        /\ AnchorBlock(To) \notin Visited

PhaseInv ==
    /\ pc \in {"dominance", "built"} => From = NumNodes + 1
    /\ pc = "built" => Dominators = [n \in Nodes |-> DominatorsOf(n)]
    /\ pc # "built" => block = NoBlock

\* A check with one place of its own is anchored there; the others are report
\* calls with several guards.
OnePlace(n) == Cardinality(TestBlocks(n)) = 1

\* Where the run has come: along paths from the anchors of what it has
\* performed, and around the anchors of what it has not.
RunInv ==
    /\ block = NoBlock => left = {} /\ ran = {}
    /\ block # NoBlock =>
          /\ ReachableAvoiding(block, {})
          /\ left \subseteq TestedIn(block)
          /\ TestedIn(block) \ left \subseteq ran
          /\ \A m \in ran : OnePlace(m) =>
                AnchorBlock(m) = block \/ PathTo(AnchorBlock(m), block)
          /\ \A d \in Nodes \ ran :
                \/ ReachableAvoiding(block, {AnchorBlock(d)})
                \/ AnchorBlock(d) = block /\ d \in left

IInv ==
    /\ Static
    /\ TypeOK
    /\ EdgesInv
    /\ SearchInv
    /\ PhaseInv
    /\ RunInv
    /\ DominatorsRan

-----------------------------------------------------------------------------
(* Paths *)

\* A block that is avoided is not reached.
LEMMA AvoidedNotReached ==
    ASSUME Static, NEW b \in Blocks, NEW S, b \in S
    PROVE  ~ReachableAvoiding(b, S)
<1>1. Entry[Fn[b]] \in Blocks
  BY GraphAssumption
<1>2. \A c \in Blocks \ S : succ[c] \subseteq Blocks
  BY DEF Static
<1>3. Blocks \ S \in SUBSET Blocks /\ b \notin Blocks \ S
  OBVIOUS
<1>4. {Entry[Fn[b]]} \ S \subseteq Blocks \ S
  BY <1>1
<1>5. \A c \in Blocks \ S : succ[c] \ S \subseteq Blocks \ S
  BY <1>2
<1> QED
  BY <1>3, <1>4, <1>5 DEF ReachableAvoiding

\* The entry of a function is reached unless it is avoided.
LEMMA EntryReached ==
    ASSUME NEW f \in Functions, NEW S, Entry[f] \notin S
    PROVE  ReachableAvoiding(Entry[f], S)
  BY GraphAssumption DEF ReachableAvoiding

\* A branch goes on from a block that is reached.
LEMMA BranchReached ==
    ASSUME Static, NEW a \in Blocks, NEW b \in succ[a], NEW S, b \notin S,
           ReachableAvoiding(a, S)
    PROVE  ReachableAvoiding(b, S)
<1>1. Fn[b] = Fn[a]
  BY DEF Static, WellFormedBranches
<1>2. SUFFICES ASSUME NEW R \in SUBSET Blocks,
                      {Entry[Fn[b]]} \ S \subseteq R,
                      \A c \in R : succ[c] \ S \subseteq R
               PROVE  b \in R
  BY DEF ReachableAvoiding
<1>3. a \in R
  BY <1>1, <1>2 DEF ReachableAvoiding
<1> QED
  BY <1>2, <1>3

\* Blocks with a path between them are blocks of one function.
LEMMA PathInFunction ==
    ASSUME Static, NEW a \in Blocks, NEW b, PathTo(a, b)
    PROVE  b \in Blocks /\ Fn[b] = Fn[a]
<1> DEFINE R == {c \in Blocks : Fn[c] = Fn[a]}
<1>1. \A c \in R : succ[c] \subseteq R
  <2>1. SUFFICES ASSUME NEW c \in R, NEW d \in succ[c] PROVE d \in R
    OBVIOUS
  <2>2. d \in Blocks /\ Fn[d] = Fn[c]
    BY DEF Static, WellFormedBranches
  <2> QED
    BY <2>2
<1>2. succ[a] \subseteq R
  BY <1>1
<1>3. b \in R
  BY <1>1, <1>2 DEF PathTo
<1> QED
  BY <1>3

\* A branch is a path, and a path followed by a branch is one.
LEMMA PathSteps ==
    ASSUME NEW a, NEW b
    PROVE  /\ \A c \in succ[a] : PathTo(a, c)
           /\ PathTo(a, b) => \A c \in succ[b] : PathTo(a, c)
  BY DEF PathTo

-----------------------------------------------------------------------------
(* Anchors *)

\* Where each kind of check is anchored and tested.
LEMMA AnchorCases ==
    ASSUME Static, NEW n \in Nodes
    PROVE  \/ /\ kind[n] = "inline"
              /\ findCheckAnchor(n) = CallPlace(n)
              /\ TestBlocks(n) = {BB[n]}
           \/ /\ kind[n] = "report"
              /\ \E p \in Blocks : /\ findCheckAnchor(n) = BranchPlace(p)
                                   /\ TestBlocks(n) = {p}
                                   /\ IsConditional(p)
                                   /\ BB[n] \in succ[p]
           \/ /\ kind[n] = "report"
              /\ ~OnePlace(n)
              /\ findCheckAnchor(n) = CallPlace(n)
<1>1. kind[n] \in {"inline", "report"}
  BY DEF Static, CheckKinds
<1>2. CASE kind[n] = "inline"
  BY <1>2 DEF findCheckAnchor, TestBlocks
<1>3. CASE kind[n] = "report"
  <2>1. TestBlocks(n) = predecessors(BB[n])
    BY <1>3 DEF TestBlocks
  <2>2. CASE OnePlace(n)
    <3>1. IsFiniteSet(predecessors(BB[n]))
      BY FS_Subset, GraphAssumption DEF predecessors
    <3>2. PICK p : predecessors(BB[n]) = {p}
      BY <2>1, <2>2, <3>1, FS_Singleton DEF OnePlace
    <3>3. p \in Blocks /\ BB[n] \in succ[p]
      BY <3>2 DEF predecessors
    <3>4. IsConditional(p)
      BY <1>3, <3>2 DEF Static, WellFormedChecks
    <3>5. Cardinality(predecessors(BB[n])) = 1
      BY <2>1, <2>2 DEF OnePlace
    <3>6. findCheckAnchor(n) = BranchPlace(p)
      BY <1>3, <3>2, <3>4, <3>5 DEF findCheckAnchor
    <3> QED
      BY <1>3, <2>1, <3>2, <3>3, <3>4, <3>6
  <2>3. CASE ~OnePlace(n)
    <3>1. Cardinality(predecessors(BB[n])) # 1
      BY <2>1, <2>3 DEF OnePlace
    <3>2. findCheckAnchor(n) = CallPlace(n)
      BY <3>1 DEF findCheckAnchor
    <3> QED
      BY <1>3, <2>3, <3>2
  <2> QED
    BY <2>2, <2>3
<1> QED
  BY <1>1, <1>2, <1>3

\* A check with one place is tested at its anchor, and anchors are blocks.
LEMMA AnchorPlace ==
    ASSUME Static, NEW n \in Nodes
    PROVE  /\ AnchorBlock(n) \in Blocks
           /\ OnePlace(n) => TestBlocks(n) = {AnchorBlock(n)}
           /\ ~OnePlace(n) => kind[n] = "report" /\ AnchorBlock(n) = BB[n]
           /\ kind[n] = "report" => TestBlocks(n) = predecessors(BB[n])
<1>1. BB[n] \in Blocks
  BY DEF Static
<1>2. \A x : Cardinality({x}) = 1
  BY FS_Singleton
<1>3. CASE kind[n] = "inline"
  <2>1. findCheckAnchor(n) = CallPlace(n) /\ TestBlocks(n) = {BB[n]}
    BY <1>3, AnchorCases
  <2>2. AnchorBlock(n) = BB[n]
    BY <2>1 DEF AnchorBlock, CallPlace
  <2>3. Cardinality(TestBlocks(n)) = 1
    BY <2>1, <1>2
  <2> QED
    BY <1>1, <1>3, <2>1, <2>2, <2>3 DEF OnePlace
<1>4. CASE kind[n] = "report" /\ OnePlace(n)
  <2>1. PICK p \in Blocks : findCheckAnchor(n) = BranchPlace(p) /\ TestBlocks(n) = {p}
    BY <1>4, AnchorCases
  <2>2. AnchorBlock(n) = p
    BY <2>1 DEF AnchorBlock, BranchPlace
  <2> QED
    BY <1>4, <2>1, <2>2 DEF TestBlocks
<1>5. CASE kind[n] = "report" /\ ~OnePlace(n)
  <2>1. findCheckAnchor(n) = CallPlace(n)
    <3>1. \A p : TestBlocks(n) # {p}
      BY <1>2, <1>5 DEF OnePlace
    <3> QED
      BY <1>5, <3>1, AnchorCases
  <2>2. AnchorBlock(n) = BB[n]
    BY <2>1 DEF AnchorBlock, CallPlace
  <2> QED
    BY <1>1, <1>5, <2>2 DEF TestBlocks
<1>6. kind[n] \in {"inline", "report"}
  BY DEF Static, CheckKinds
<1> QED
  BY <1>3, <1>4, <1>5, <1>6

\* Steps do not change the functions, and so nothing that is computed from them.
LEMMA ProgramStays ==
    ASSUME UNCHANGED program
    PROVE  /\ Static => Static'
           /\ \A n : AnchorBlock(n)' = AnchorBlock(n)
           /\ \A n : TestBlocks(n)' = TestBlocks(n)
           /\ \A n : OnePlace(n)' <=> OnePlace(n)
           /\ \A b : TestedIn(b)' = TestedIn(b)
           /\ \A n : DominatorsOf(n)' = DominatorsOf(n)
           /\ \A a, b : PathTo(a, b)' <=> PathTo(a, b)
           /\ \A b, S : ReachableAvoiding(b, S)' <=> ReachableAvoiding(b, S)
<1>0. succ' = succ /\ BB' = BB /\ kind' = kind /\ Type' = Type
  BY DEF program
<1>1. Static => Static'
  BY <1>0 DEF Static, WellFormedBranches, WellFormedChecks, predecessors, IsConditional
<1>2. \A n : findCheckAnchor(n)' = findCheckAnchor(n)
  BY <1>0 DEF findCheckAnchor, predecessors, IsConditional, BranchPlace, CallPlace
<1>3. \A n : AnchorBlock(n)' = AnchorBlock(n)
  BY <1>0 DEF AnchorBlock, findCheckAnchor, predecessors, IsConditional, BranchPlace, CallPlace
<1>4. \A n : TestBlocks(n)' = TestBlocks(n)
  BY <1>0 DEF TestBlocks, predecessors
<1>5. \A n : OnePlace(n)' <=> OnePlace(n)
  BY <1>0 DEF OnePlace, TestBlocks, predecessors
<1>6. \A b : TestedIn(b)' = TestedIn(b)
  BY <1>0 DEF TestedIn, TestBlocks, predecessors
<1>7. \A a, b : PathTo(a, b)' <=> PathTo(a, b)
  BY <1>0 DEF PathTo
<1>8. \A b, S : ReachableAvoiding(b, S)' <=> ReachableAvoiding(b, S)
  BY <1>0 DEF ReachableAvoiding
<1>9. \A n : DominatorsOf(n)' = DominatorsOf(n)
  BY <1>0 DEF DominatorsOf, AnchorFn, dominates, ReachableAvoiding, findCheckAnchor,
              predecessors, IsConditional, BranchPlace, CallPlace
<1> QED
  BY <1>1, <1>3, <1>4, <1>5, <1>6, <1>7, <1>8, <1>9

-----------------------------------------------------------------------------
(* The graph: what the double loop and the searches enter.                  *)

LEMMA InitInv == Init => IInv
<1> SUFFICES ASSUME Init PROVE IInv
  OBVIOUS
<1>1. Static
  BY DEF Init, GraphInit, Static
<1>2. TypeOK
  BY GraphAssumption DEF Init, GraphInit, TypeOK, GraphTypeOK, Nodes
<1>3. EdgesInv
  <2>1. \A m, n \in Nodes : ~PairDone(m, n)
    BY DEF Init, GraphInit, PairDone, Nodes
  <2> QED
    BY <2>1 DEF EdgesInv, Init, GraphInit
<1>4. SearchInv /\ PhaseInv /\ RunInv /\ DominatorsRan
  BY DEF Init, GraphInit, SearchInv, PhaseInv, RunInv, DominatorsRan
<1> QED
  BY <1>1, <1>2, <1>3, <1>4 DEF IInv

\* What is left to do for a step that enters the answer for the current pair.
LEMMA PairAnswered ==
    ASSUME Static, TypeOK, EdgesInv, UNCHANGED program, From \in Nodes, NextPair,
           NEW found \in BOOLEAN,
           Successors' = IF found THEN [Successors EXCEPT ![From] = @ \cup {To}]
                                  ELSE Successors,
           AnchorBlock(From) # AnchorBlock(To)
             => (found <=> PathTo(AnchorBlock(From), AnchorBlock(To)))
    PROVE  /\ EdgesInv'
           /\ Successors' \in [Nodes -> SUBSET Nodes]
           /\ From' \in 1..(NumNodes + 1) /\ To' \in Nodes
<1>1. To \in Nodes /\ Successors \in [Nodes -> SUBSET Nodes]
  BY DEF TypeOK, GraphTypeOK
<1>2. \A m, n \in Nodes : /\ From' \in 1..(NumNodes + 1) /\ To' \in Nodes
                          /\ PairDone(m, n)' <=> PairDone(m, n) \/ (m = From /\ n = To)
  <2>1. NumNodes \in Nat \ {0} /\ From \in 1..NumNodes /\ To \in 1..NumNodes
    BY <1>1, GraphAssumption DEF Nodes
  <2>2. CASE To < NumNodes
    <3>1. From' = From /\ To' = To + 1
      BY <2>2 DEF NextPair
    <3> QED
      BY <2>1, <2>2, <3>1 DEF PairDone, Nodes
  <2>3. CASE ~(To < NumNodes)
    <3>1. From' = From + 1 /\ To' = 1
      BY <2>3 DEF NextPair
    <3>2. To = NumNodes
      BY <2>1, <2>3
    <3> QED
      BY <2>1, <3>1, <3>2 DEF PairDone, Nodes
  <2> QED
    BY <2>2, <2>3
<1>3. From' \in 1..(NumNodes + 1) /\ To' \in Nodes
  BY <1>1, <1>2
<1>4. Successors' \in [Nodes -> SUBSET Nodes]
  BY <1>1
<1>5. \A m, n \in Nodes :
         n \in Successors'[m] <=> n \in Successors[m] \/ (found /\ m = From /\ n = To)
  BY <1>1
<1>6. ~PairDone(From, To)
  BY <1>1 DEF PairDone, Nodes
<1>7. ASSUME NEW m \in Nodes, NEW n \in Nodes
      PROVE  /\ ~PairDone(m, n)' => n \notin Successors'[m]
             /\ PairDone(m, n)' /\ AnchorBlock(m) # AnchorBlock(n)
                => (n \in Successors'[m] <=> PathTo(AnchorBlock(m), AnchorBlock(n)))
  <2>1. CASE m = From /\ n = To
    <3>1. PairDone(m, n)'
      BY <1>2, <2>1
    <3>2. n \in Successors'[m] <=> found
      BY <1>5, <1>6, <2>1 DEF EdgesInv
    <3> QED
      BY <2>1, <3>1, <3>2
  <2>2. CASE ~(m = From /\ n = To)
    <3>1. PairDone(m, n)' <=> PairDone(m, n)
      BY <1>2, <2>2
    <3>2. n \in Successors'[m] <=> n \in Successors[m]
      BY <1>5, <2>2
    <3> QED
      BY <3>1, <3>2 DEF EdgesInv
  <2> QED
    BY <2>1, <2>2
<1>8. EdgesInv'
  BY <1>7, ProgramStays DEF EdgesInv
<1> QED
  BY <1>3, <1>4, <1>8

\* While the graph is built nothing runs.
LEMMA BuildOnly ==
    ASSUME IInv, pc # "built", UNCHANGED <<program, block, left, ran>>
    PROVE  /\ block = NoBlock
           /\ Static' /\ RunInv' /\ DominatorsRan'
           /\ (block \in Blocks \cup {NoBlock})' /\ (left \subseteq Nodes)'
           /\ (ran \subseteq Nodes)'
<1>1. block = NoBlock
  BY DEF IInv, PhaseInv
<1>2. left = {} /\ ran = {}
  BY <1>1 DEF IInv, RunInv
<1>3. Static'
  BY ProgramStays DEF IInv
<1>4. block' = NoBlock /\ left' = {} /\ ran' = {}
  BY <1>1, <1>2
<1>5. RunInv'
  BY <1>4 DEF RunInv
<1>6. DominatorsRan'
  BY <1>4 DEF DominatorsRan
<1> QED
  BY <1>1, <1>3, <1>4, <1>5, <1>6

\* A step of the builder that does not touch the edges.
LEMMA EdgesStay ==
    ASSUME EdgesInv, UNCHANGED <<program, From, To, Successors>>
    PROVE  EdgesInv'
<1>1. \A m, n : PairDone(m, n)' <=> PairDone(m, n)
  BY DEF PairDone
<1>2. \A m, n \in Nodes :
         /\ ~PairDone(m, n)' => n \notin Successors'[m]
         /\ PairDone(m, n)' /\ AnchorBlock(m) # AnchorBlock(n)
            => (n \in Successors'[m] <=> PathTo(AnchorBlock(m), AnchorBlock(n)))
  BY <1>1 DEF EdgesInv
<1> QED
  BY <1>2, ProgramStays DEF EdgesInv

LEMMA ShortAnswerInv ==
    ASSUME IInv, ShortAnswer, UNCHANGED <<block, left, ran>>
    PROVE  IInv'
<1>0. Static /\ TypeOK /\ EdgesInv /\ UNCHANGED program
  BY DEF IInv, ShortAnswer
<1>1. From \in Nodes /\ To \in Nodes /\ pc = "reach" /\ pc' = "reach" /\ NextPair
  BY <1>0 DEF ShortAnswer, TypeOK, GraphTypeOK
<1> DEFINE found == From # To /\ instructionComesBefore(findCheckAnchor(From), findCheckAnchor(To))
<1>2. Successors' = IF found THEN [Successors EXCEPT ![From] = @ \cup {To}] ELSE Successors
  BY DEF ShortAnswer
<1>3. AnchorBlock(From) # AnchorBlock(To) => ~found
  BY DEF AnchorBlock, instructionComesBefore
<1>4. ASSUME AnchorBlock(From) # AnchorBlock(To)
      PROVE  ~PathTo(AnchorBlock(From), AnchorBlock(To))
  <2>1. From # To
    BY <1>4
  <2>2. Fn[AnchorBlock(From)] # Fn[AnchorBlock(To)]
    BY <1>4, <2>1 DEF ShortAnswer, AnchorFn, AnchorBlock
  <2>3. AnchorBlock(From) \in Blocks
    BY <1>0, <1>1, AnchorPlace
  <2> QED
    BY <1>0, <2>2, <2>3, PathInFunction
<1>5. found \in BOOLEAN
  OBVIOUS
<1>6. AnchorBlock(From) # AnchorBlock(To)
        => (found <=> PathTo(AnchorBlock(From), AnchorBlock(To)))
  BY <1>3, <1>4
<1> HIDE DEF found
<1>7. /\ EdgesInv'
      /\ Successors' \in [Nodes -> SUBSET Nodes]
      /\ From' \in 1..(NumNodes + 1) /\ To' \in Nodes
  BY <1>0, <1>1, <1>2, <1>5, <1>6, PairAnswered
<1>8. UNCHANGED <<program, Worklist, Visited, Dominators>>
  BY DEF ShortAnswer
<1>9. TypeOK'
  BY <1>0, <1>1, <1>7, <1>8 DEF TypeOK, GraphTypeOK, program
<1>10. SearchInv' /\ PhaseInv'
  <2>1. block = NoBlock
    BY <1>1, <1>0, BuildOnly
  <2> QED
    BY <1>1, <2>1 DEF SearchInv, PhaseInv
<1> QED
  BY <1>0, <1>1, <1>7, <1>9, <1>10, BuildOnly DEF IInv

LEMMA StartSearchInv ==
    ASSUME IInv, StartSearch, UNCHANGED <<block, left, ran>>
    PROVE  IInv'
<1>0. Static /\ TypeOK /\ EdgesInv /\ UNCHANGED program
  BY DEF IInv, StartSearch
<1>1. /\ From \in Nodes /\ To \in Nodes /\ pc = "reach" /\ pc' = "search"
      /\ AnchorBlock(From) # AnchorBlock(To)
      /\ Worklist' = succ[AnchorBlock(From)] /\ Visited' = {}
      /\ UNCHANGED <<From, To, Successors, Dominators>>
  BY <1>0 DEF StartSearch, TypeOK, GraphTypeOK
<1>2. succ[AnchorBlock(From)] \subseteq Blocks
  BY <1>0, <1>1, AnchorPlace DEF Static
<1>3. TypeOK'
  BY <1>0, <1>1, <1>2 DEF TypeOK, GraphTypeOK, program
<1>4. AnchorBlock(From)' = AnchorBlock(From) /\ AnchorBlock(To)' = AnchorBlock(To)
  BY <1>0, <1>1, ProgramStays
<1>5. succ' = succ
  BY <1>0 DEF program
<1>6. \A b \in succ[AnchorBlock(From)] : PathTo(AnchorBlock(From), b)
  BY PathSteps
<1>7. \A b \in succ[AnchorBlock(From)] : PathTo(AnchorBlock(From), b)'
  BY <1>0, <1>4, <1>6, ProgramStays
<1>8. SearchInv'
  BY <1>1, <1>4, <1>5, <1>7 DEF SearchInv
<1>9. PhaseInv'
  BY <1>0, <1>1, BuildOnly DEF PhaseInv
<1> QED
  BY <1>0, <1>1, <1>3, <1>8, <1>9, BuildOnly, EdgesStay DEF IInv

LEMMA VisitBlockInv ==
    ASSUME IInv, NEW v \in Blocks, VisitBlock(v), UNCHANGED <<block, left, ran>>
    PROVE  IInv'
<1>0. Static /\ TypeOK /\ EdgesInv /\ UNCHANGED program
  BY DEF IInv, VisitBlock
<1>1. /\ pc = "search" /\ pc' = "search" /\ v \in Worklist /\ v # AnchorBlock(To)
      /\ Visited' = Visited \cup {v}
      /\ Worklist' = (Worklist \cup succ[v]) \ Visited'
      /\ UNCHANGED <<From, To, Successors, Dominators>>
  BY DEF VisitBlock
<1>2. succ[v] \subseteq Blocks
  BY <1>0 DEF Static
<1>3. TypeOK'
  BY <1>0, <1>1, <1>2 DEF TypeOK, GraphTypeOK, program
<1>4. From \in Nodes /\ To \in Nodes
  BY <1>0, <1>1 DEF IInv, SearchInv, TypeOK, GraphTypeOK
<1>5. AnchorBlock(From)' = AnchorBlock(From) /\ AnchorBlock(To)' = AnchorBlock(To)
  BY <1>0, <1>1, ProgramStays
<1>6. succ' = succ
  BY <1>0 DEF program
<1>7. Worklist' \cup Visited' = Worklist \cup Visited \cup succ[v]
  BY <1>1
<1>8. \A b \in Worklist \cup Visited : PathTo(AnchorBlock(From), b)
  BY <1>1 DEF IInv, SearchInv
<1>9. \A b \in succ[v] : PathTo(AnchorBlock(From), b)
  BY <1>1, <1>8, PathSteps
<1>10. \A b \in Worklist' \cup Visited' : PathTo(AnchorBlock(From), b)
  BY <1>7, <1>8, <1>9
<1>10a. \A b \in Worklist' \cup Visited' : PathTo(AnchorBlock(From), b)'
  BY <1>0, <1>5, <1>10, ProgramStays
<1>11. succ[AnchorBlock(From)] \subseteq Worklist' \cup Visited'
  BY <1>1, <1>7 DEF IInv, SearchInv
<1>12. \A c \in Visited' : succ[c] \subseteq Worklist' \cup Visited'
  <2>1. \A c \in Visited : succ[c] \subseteq Worklist \cup Visited
    BY <1>1 DEF IInv, SearchInv
  <2> QED
    BY <1>1, <1>7, <2>1
<1>13. AnchorBlock(From) # AnchorBlock(To) /\ AnchorBlock(To) \notin Visited' /\ From \in Nodes
  BY <1>1 DEF IInv, SearchInv
<1>14. SearchInv'
  BY <1>1, <1>5, <1>6, <1>10a, <1>11, <1>12, <1>13 DEF SearchInv
<1>15. PhaseInv'
  BY <1>0, <1>1, BuildOnly DEF PhaseInv
<1> QED
  BY <1>0, <1>1, <1>3, <1>14, <1>15, BuildOnly, EdgesStay DEF IInv

LEMMA FoundInv ==
    ASSUME IInv, Found, UNCHANGED <<block, left, ran>>
    PROVE  IInv'
<1>0. Static /\ TypeOK /\ EdgesInv /\ UNCHANGED program
  BY DEF IInv, Found
<1>1. /\ pc = "search" /\ pc' = "reach" /\ AnchorBlock(To) \in Worklist /\ NextPair
      /\ Successors' = [Successors EXCEPT ![From] = @ \cup {To}]
      /\ Worklist' = {} /\ Visited' = {} /\ UNCHANGED Dominators
  BY DEF Found
<1>2. From \in Nodes /\ PathTo(AnchorBlock(From), AnchorBlock(To))
  BY <1>1 DEF IInv, SearchInv
<1>3. /\ EdgesInv'
      /\ Successors' \in [Nodes -> SUBSET Nodes]
      /\ From' \in 1..(NumNodes + 1) /\ To' \in Nodes
  BY <1>0, <1>1, <1>2, PairAnswered
<1>4. TypeOK'
  BY <1>0, <1>1, <1>3 DEF TypeOK, GraphTypeOK, program
<1>5. SearchInv' /\ PhaseInv'
  BY <1>0, <1>1, BuildOnly DEF SearchInv, PhaseInv
<1> QED
  BY <1>0, <1>1, <1>3, <1>4, <1>5, BuildOnly DEF IInv

LEMMA NotFoundInv ==
    ASSUME IInv, NotFound, UNCHANGED <<block, left, ran>>
    PROVE  IInv'
<1>0. Static /\ TypeOK /\ EdgesInv /\ UNCHANGED program
  BY DEF IInv, NotFound
<1>1. /\ pc = "search" /\ pc' = "reach" /\ Worklist = {} /\ NextPair
      /\ Visited' = {} /\ UNCHANGED <<Worklist, Successors, Dominators>>
  BY DEF NotFound
<1>2. From \in Nodes
  BY <1>1 DEF IInv, SearchInv
<1>3. ~PathTo(AnchorBlock(From), AnchorBlock(To))
  <2>1. Visited \in SUBSET Blocks
    BY <1>0 DEF TypeOK, GraphTypeOK
  <2>2. /\ succ[AnchorBlock(From)] \subseteq Visited
        /\ \A c \in Visited : succ[c] \subseteq Visited
        /\ AnchorBlock(To) \notin Visited
    BY <1>1 DEF IInv, SearchInv
  <2> QED
    BY <2>1, <2>2 DEF PathTo
<1>4. /\ EdgesInv'
      /\ Successors' \in [Nodes -> SUBSET Nodes]
      /\ From' \in 1..(NumNodes + 1) /\ To' \in Nodes
  <2>1. Successors' = IF FALSE THEN [Successors EXCEPT ![From] = @ \cup {To}] ELSE Successors
    BY <1>1
  <2> QED
    BY <1>0, <1>1, <1>2, <1>3, <2>1, PairAnswered
<1>5. TypeOK'
  BY <1>0, <1>1, <1>4 DEF TypeOK, GraphTypeOK, program
<1>6. SearchInv' /\ PhaseInv'
  BY <1>0, <1>1, BuildOnly DEF SearchInv, PhaseInv
<1> QED
  BY <1>0, <1>1, <1>4, <1>5, <1>6, BuildOnly DEF IInv

LEMMA ReachabilityDoneInv ==
    ASSUME IInv, ReachabilityDone, UNCHANGED <<block, left, ran>>
    PROVE  IInv'
<1>0. Static /\ TypeOK /\ EdgesInv /\ UNCHANGED program
  BY DEF IInv, ReachabilityDone
<1>1. /\ pc = "reach" /\ pc' = "dominance" /\ From \notin Nodes
      /\ UNCHANGED <<From, To, Worklist, Visited, Successors, Dominators>>
  BY DEF ReachabilityDone
<1>2. From' = NumNodes + 1
  BY <1>0, <1>1, GraphAssumption DEF TypeOK, GraphTypeOK, Nodes
<1>3. TypeOK'
  BY <1>0, <1>1 DEF TypeOK, GraphTypeOK, program
<1>4. SearchInv' /\ PhaseInv'
  BY <1>0, <1>1, <1>2, BuildOnly DEF SearchInv, PhaseInv
<1> QED
  BY <1>0, <1>1, <1>3, <1>4, BuildOnly, EdgesStay DEF IInv

LEMMA DominanceInv ==
    ASSUME IInv, computeDominance, UNCHANGED <<block, left, ran>>
    PROVE  IInv'
<1>0. Static /\ TypeOK /\ EdgesInv /\ UNCHANGED program
  BY DEF IInv, computeDominance
<1>1. /\ pc = "dominance" /\ pc' = "built"
      /\ Dominators' = [n \in Nodes |-> DominatorsOf(n)]
      /\ UNCHANGED <<From, To, Worklist, Visited, Successors>>
  BY DEF computeDominance
<1>2. \A n : DominatorsOf(n) \subseteq Nodes
  BY DEF DominatorsOf
<1>3. TypeOK'
  BY <1>0, <1>1, <1>2 DEF TypeOK, GraphTypeOK, program
<1>4. SearchInv' /\ PhaseInv'
  <2>1. From' = NumNodes + 1
    BY <1>1 DEF IInv, PhaseInv
  <2>2. Dominators' = [n \in Nodes |-> DominatorsOf(n)']
    BY <1>0, <1>1, ProgramStays
  <2> QED
    BY <1>1, <2>1, <2>2 DEF SearchInv, PhaseInv
<1> QED
  BY <1>0, <1>1, <1>3, <1>4, BuildOnly, EdgesStay DEF IInv

LEMMA BuildInv ==
    ASSUME IInv, Build, UNCHANGED <<block, left, ran>>
    PROVE  IInv'
  BY ShortAnswerInv, StartSearchInv, VisitBlockInv, FoundInv, NotFoundInv,
     ReachabilityDoneInv, DominanceInv DEF Build

-----------------------------------------------------------------------------
(* The run                                                                  *)

\* What a step of the run leaves alone.
LEMMA GraphStays ==
    ASSUME IInv, UNCHANGED gvars
    PROVE  /\ UNCHANGED program
           /\ Static' /\ EdgesInv' /\ SearchInv' /\ GraphTypeOK'
           /\ pc' = pc /\ Dominators' = Dominators /\ From' = From
           /\ pc = "built" => Dominators' = [n \in Nodes |-> DominatorsOf(n)']
<1>1. UNCHANGED program /\ UNCHANGED <<pc, From, To, Worklist, Visited, Successors, Dominators>>
  BY DEF gvars, program
<1>2. Static' /\ EdgesInv'
  BY <1>1, ProgramStays, EdgesStay DEF IInv
<1>3. GraphTypeOK'
  BY <1>1 DEF IInv, TypeOK, GraphTypeOK, program
<1>4. succ' = succ
  BY <1>1 DEF program
<1>5. SearchInv'
  <2>1. SearchInv
    BY DEF IInv
  <2>2. \A n : AnchorBlock(n)' = AnchorBlock(n)
    BY <1>1, ProgramStays
  <2>3. AnchorBlock(From)' = AnchorBlock(From) /\ AnchorBlock(To)' = AnchorBlock(To)
    BY <1>1, <2>2
  <2>4. \A b : PathTo(AnchorBlock(From), b) => PathTo(AnchorBlock(From), b)'
    BY <1>1, <2>3, ProgramStays
  <2> QED
    BY <1>1, <1>4, <2>1, <2>3, <2>4 DEF SearchInv
<1>6. pc = "built" => Dominators' = [n \in Nodes |-> DominatorsOf(n)']
  <2>1. pc = "built" => Dominators = [n \in Nodes |-> DominatorsOf(n)]
    BY DEF IInv, PhaseInv
  <2>2. \A n : DominatorsOf(n)' = DominatorsOf(n)
    BY <1>1, ProgramStays
  <2> QED
    BY <1>1, <2>1, <2>2
<1> QED
  BY <1>1, <1>2, <1>3, <1>5, <1>6

\* A check of the block that is still to be performed has its dominators
\* behind it or in the same block, and an inline check those before it.
LEMMA DominatorsFirst ==
    ASSUME IInv, block # NoBlock, NEW n \in left, NEW d \in DominatorsOf(n), d \notin ran
    PROVE  /\ d \in left
           /\ kind[n] = "inline" => kind[d] = "inline" /\ d < n
<1>0. Static /\ block \in Blocks /\ left \subseteq Nodes /\ n \in Nodes
  BY DEF IInv, TypeOK
<1>1. d \in Nodes /\ d # n /\ dominates(findCheckAnchor(d), findCheckAnchor(n))
  BY DEF DominatorsOf
<1>2. block \in TestBlocks(n)
  BY DEF IInv, RunInv, TestedIn
<1>3. /\ OnePlace(n) => AnchorBlock(n) = block
      /\ ~OnePlace(n) => kind[n] = "report" /\ AnchorBlock(n) = BB[n] /\ BB[n] \in succ[block]
  BY <1>0, <1>2, AnchorPlace DEF predecessors
<1>4. AnchorBlock(n) \in Blocks /\ AnchorBlock(d) \in Blocks
  BY <1>0, <1>1, AnchorPlace
<1>5. ReachableAvoiding(AnchorBlock(n), {})
  <2>1. ReachableAvoiding(block, {})
    BY DEF IInv, RunInv
  <2> QED
    BY <1>0, <1>3, <2>1, BranchReached
<1>6. IF AnchorBlock(d) = AnchorBlock(n)
      THEN findCheckAnchor(d).rank < findCheckAnchor(n).rank
      ELSE ~ReachableAvoiding(AnchorBlock(n), {AnchorBlock(d)})
  BY <1>1, <1>5 DEF dominates, AnchorBlock
<1>7. \/ ReachableAvoiding(block, {AnchorBlock(d)})
      \/ AnchorBlock(d) = block /\ d \in left
  BY <1>1 DEF IInv, RunInv
<1>8. ~(kind[n] = "report" /\ AnchorBlock(d) = BB[n])
  <2>1. SUFFICES ASSUME kind[n] = "report", AnchorBlock(d) = BB[n] PROVE FALSE
    OBVIOUS
  <2>2. BB[d] # BB[n] /\ Cardinality(succ[BB[n]]) <= 1
    BY <1>0, <1>1, <2>1 DEF Static, WellFormedChecks
  <2>3. findCheckAnchor(d) # CallPlace(d)
    BY <2>1, <2>2 DEF AnchorBlock, CallPlace
  <2>4. PICK p \in Blocks : findCheckAnchor(d) = BranchPlace(p) /\ IsConditional(p)
    BY <1>0, <1>1, <2>3, AnchorCases
  <2>5. p = BB[n]
    BY <2>1, <2>4 DEF AnchorBlock, BranchPlace
  <2> QED
    BY <2>2, <2>4, <2>5 DEF IsConditional
<1>9. ~ReachableAvoiding(block, {AnchorBlock(d)})
  <2>1. SUFFICES ASSUME ReachableAvoiding(block, {AnchorBlock(d)}) PROVE FALSE
    OBVIOUS
  <2>2. AnchorBlock(d) # block
    BY <1>0, <2>1, AvoidedNotReached
  <2>3. CASE OnePlace(n)
    BY <1>3, <1>6, <2>1, <2>2, <2>3
  <2>4. CASE ~OnePlace(n)
    <3>1. AnchorBlock(n) # AnchorBlock(d)
      BY <1>3, <1>8, <2>4
    <3>2. ReachableAvoiding(AnchorBlock(n), {AnchorBlock(d)})
      BY <1>0, <1>3, <2>1, <2>4, <3>1, BranchReached
    <3> QED
      BY <1>6, <3>1, <3>2
  <2> QED
    BY <2>3, <2>4
<1>10. ASSUME kind[n] = "inline"
       PROVE  kind[d] = "inline" /\ d < n
  <2>1. OnePlace(n) /\ AnchorBlock(n) = block /\ AnchorBlock(d) = block
    BY <1>3, <1>7, <1>9, <1>10
  <2>2. findCheckAnchor(n) = CallPlace(n)
    BY <1>0, <1>10, AnchorCases
  <2>3. findCheckAnchor(d).rank < n /\ BB[n] = block
    BY <1>6, <2>1, <2>2 DEF CallPlace, AnchorBlock
  <2>4. CASE findCheckAnchor(d) = CallPlace(d)
    <3>1. d < n /\ BB[d] = block
      BY <2>1, <2>3, <2>4 DEF CallPlace, AnchorBlock
    <3>2. kind[d] # "report"
      BY <1>0, <1>1, <2>3, <3>1 DEF Static, WellFormedChecks
    <3> QED
      BY <1>0, <1>1, <3>1, <3>2 DEF Static, CheckKinds
  <2>5. CASE \E p \in Blocks : findCheckAnchor(d) = BranchPlace(p)
    <3>1. NumNodes + 1 < n
      BY <2>3, <2>5 DEF BranchPlace
    <3> QED
      BY <1>0, <3>1, GraphAssumption DEF Nodes
  <2> QED
    BY <1>0, <1>1, <2>4, <2>5, AnchorCases
<1> QED
  BY <1>7, <1>9, <1>10

\* The tests of the checks L of the block are made.
LEMMA TestsMade ==
    ASSUME IInv, pc = "built", UNCHANGED <<gvars, block>>,
           NEW L \in SUBSET left, L # {},
           left' = left \ L, ran' = ran \cup L,
           \A n \in L : \A d \in DominatorsOf(n) \ ran : d \in L
    PROVE  IInv'
<1>0. Static /\ TypeOK /\ block # NoBlock /\ L \subseteq Nodes
  BY DEF IInv, RunInv, TypeOK
<1>1. UNCHANGED program
  BY DEF gvars, program
<1>2. TypeOK'
  BY <1>0, GraphStays DEF TypeOK
<1>3. PhaseInv'
  BY GraphStays DEF IInv, PhaseInv
<1>4. \A m \in L : OnePlace(m) => AnchorBlock(m) = block
  BY <1>0, AnchorPlace DEF IInv, RunInv, TestedIn
<1>5. RunInv'
  <2>1. /\ ReachableAvoiding(block, {})
        /\ left' \subseteq TestedIn(block)
        /\ TestedIn(block) \ left' \subseteq ran'
    BY <1>0 DEF IInv, RunInv
  <2>2. \A m \in ran' : OnePlace(m) =>
           AnchorBlock(m) = block \/ PathTo(AnchorBlock(m), block)
    BY <1>0, <1>4 DEF IInv, RunInv
  <2>3. \A d \in Nodes \ ran' :
           \/ ReachableAvoiding(block, {AnchorBlock(d)})
           \/ AnchorBlock(d) = block /\ d \in left'
    BY <1>0 DEF IInv, RunInv
  <2>4. \A n : AnchorBlock(n)' = AnchorBlock(n)
    BY <1>1, ProgramStays
  <2>5. TestedIn(block)' = TestedIn(block)
    BY <1>1, ProgramStays
  <2>6. /\ ReachableAvoiding(block, {})'
        /\ \A m : PathTo(AnchorBlock(m), block)' <=> PathTo(AnchorBlock(m), block)
        /\ \A d : ReachableAvoiding(block, {AnchorBlock(d)})'
                    <=> ReachableAvoiding(block, {AnchorBlock(d)})
        /\ \A n : OnePlace(n)' <=> OnePlace(n)
    BY <1>1, <2>1, <2>4, ProgramStays
  <2> QED
    BY <1>0, <2>1, <2>2, <2>3, <2>4, <2>5, <2>6 DEF RunInv
<1>6. DominatorsRan'
  <2>1. Dominators' = Dominators /\ Dominators = [n \in Nodes |-> DominatorsOf(n)]
    BY GraphStays DEF IInv, PhaseInv
  <2>2. \A n \in ran : Dominators[n] \subseteq ran
    BY DEF IInv, DominatorsRan
  <2>3. \A n \in L : Dominators[n] \subseteq ran \cup L
    BY <1>0, <2>1
  <2> QED
    BY <2>1, <2>2, <2>3 DEF DominatorsRan
<1> QED
  BY <1>2, <1>3, <1>5, <1>6, GraphStays DEF IInv

\* The run comes to a block.
LEMMA BlockEntered ==
    ASSUME IInv, pc = "built", UNCHANGED <<gvars, ran>>,
           NEW b \in Blocks, Goto(b),
           ReachableAvoiding(b, {}),
           \A m \in ran : OnePlace(m) => AnchorBlock(m) = b \/ PathTo(AnchorBlock(m), b),
           \A d \in Nodes \ ran :
              \/ ReachableAvoiding(b, {AnchorBlock(d)})
              \/ AnchorBlock(d) = b /\ d \in TestedIn(b)
    PROVE  IInv'
<1>0. Static /\ TypeOK /\ b # NoBlock /\ block' = b /\ left' = TestedIn(b)
  BY NoBlockAssumption DEF IInv, Goto
<1>1. UNCHANGED program
  BY DEF gvars, program
<1>2. TypeOK'
  BY <1>0, GraphStays DEF TypeOK, TestedIn
<1>3. PhaseInv'
  BY GraphStays DEF IInv, PhaseInv
<1>4. RunInv'
  <2>1. \A n : AnchorBlock(n)' = AnchorBlock(n)
    BY <1>1, ProgramStays
  <2>2. TestedIn(b)' = TestedIn(b)
    BY <1>1, ProgramStays
  <2>3. /\ ReachableAvoiding(b, {})'
        /\ \A m : PathTo(AnchorBlock(m), b)' <=> PathTo(AnchorBlock(m), b)
        /\ \A d : ReachableAvoiding(b, {AnchorBlock(d)})'
                    <=> ReachableAvoiding(b, {AnchorBlock(d)})
        /\ \A n : OnePlace(n)' <=> OnePlace(n)
    BY <1>1, <2>1, ProgramStays
  <2>4. TestedIn(block)' = TestedIn(b) /\ ReachableAvoiding(block, {})'
    BY <1>0, <1>1, ProgramStays
  <2>5. /\ \A m : PathTo(AnchorBlock(m), block)' <=> PathTo(AnchorBlock(m), b)
        /\ \A d : ReachableAvoiding(block, {AnchorBlock(d)})'
                    <=> ReachableAvoiding(b, {AnchorBlock(d)})
    BY <1>0, <1>1, <2>1, ProgramStays
  <2> QED
    BY <1>0, <2>1, <2>3, <2>4, <2>5 DEF RunInv
<1>5. DominatorsRan'
  BY GraphStays DEF IInv, DominatorsRan
<1> QED
  BY <1>2, <1>3, <1>4, <1>5, GraphStays DEF IInv

\* A run begins.
LEMMA InvokeInv ==
    ASSUME IInv, NEW f \in Functions, Invoke(f)
    PROVE  IInv'
<1>0. /\ Static /\ pc = "built" /\ block = NoBlock /\ Goto(Entry[f])
      /\ UNCHANGED <<gvars, ran>>
  BY DEF IInv, Invoke
<1>1. Entry[f] \in Blocks /\ Fn[Entry[f]] = f
  BY GraphAssumption
<1>2. ran = {}
  BY <1>0 DEF IInv, RunInv
<1>3. \A S : Entry[f] \notin S => ReachableAvoiding(Entry[f], S)
  BY EntryReached
<1>4. ASSUME NEW d \in Nodes, AnchorBlock(d) = Entry[f]
      PROVE  d \in TestedIn(Entry[f])
  <2>1. OnePlace(d)
    <3>1. SUFFICES ASSUME ~OnePlace(d) PROVE FALSE
      OBVIOUS
    <3>2. kind[d] = "report" /\ BB[d] = Entry[f]
      BY <1>0, <1>4, <3>1, AnchorPlace
    <3> QED
      BY <1>0, <1>1, <3>2 DEF Static, WellFormedChecks
  <2> QED
    BY <1>0, <1>4, <2>1, AnchorPlace DEF TestedIn
<1>5. ReachableAvoiding(Entry[f], {})
  BY <1>3
<1>6. \A d \in Nodes : \/ ReachableAvoiding(Entry[f], {AnchorBlock(d)})
                       \/ AnchorBlock(d) = Entry[f] /\ d \in TestedIn(Entry[f])
  BY <1>3, <1>4
<1> QED
  BY <1>0, <1>1, <1>2, <1>5, <1>6, BlockEntered

\* It goes on to a successor.
LEMMA BranchInv ==
    ASSUME IInv, NEW b \in Blocks, Branch(b)
    PROVE  IInv'
<1>0. /\ Static /\ block \in Blocks /\ block # NoBlock /\ left = {}
      /\ b \in succ[block] /\ Goto(b) /\ UNCHANGED <<gvars, ran>> /\ ran \subseteq Nodes
  BY DEF IInv, TypeOK, Branch
<1>1. pc = "built"
  BY <1>0 DEF IInv, PhaseInv
<1>2. ReachableAvoiding(b, {})
  BY <1>0, BranchReached DEF IInv, RunInv
<1>3. \A m \in ran : OnePlace(m) => AnchorBlock(m) = b \/ PathTo(AnchorBlock(m), b)
  BY <1>0, PathSteps DEF IInv, RunInv
<1>4. ASSUME NEW d \in Nodes \ ran
      PROVE  \/ ReachableAvoiding(b, {AnchorBlock(d)})
             \/ AnchorBlock(d) = b /\ d \in TestedIn(b)
  <2>1. ReachableAvoiding(block, {AnchorBlock(d)})
    BY <1>0 DEF IInv, RunInv
  <2>2. CASE AnchorBlock(d) # b
    BY <1>0, <2>1, <2>2, BranchReached
  <2>3. CASE AnchorBlock(d) = b
    <3>1. OnePlace(d)
      <4>1. SUFFICES ASSUME ~OnePlace(d) PROVE FALSE
        OBVIOUS
      <4>2. kind[d] = "report" /\ BB[d] = b
        BY <1>0, <2>3, <4>1, AnchorPlace
      <4>3. d \in TestedIn(block)
        BY <1>0, <4>2, AnchorPlace DEF TestedIn, predecessors
      <4> QED
        BY <1>0, <4>3 DEF IInv, RunInv
    <3> QED
      BY <1>0, <2>3, <3>1, AnchorPlace DEF TestedIn
  <2> QED
    BY <2>2, <2>3
<1> QED
  BY <1>0, <1>1, <1>2, <1>3, <1>4, BlockEntered

LEMMA PerformInv ==
    ASSUME IInv, NEW n \in Nodes, Perform(n)
    PROVE  IInv'
<1>0. /\ n \in left /\ kind[n] = "inline"
      /\ \A m \in left : kind[m] = "inline" => n <= m
      /\ left' = left \ {n} /\ ran' = ran \cup {n} /\ UNCHANGED <<gvars, block>>
      /\ left \subseteq Nodes /\ Nodes \subseteq Nat
  BY DEF IInv, TypeOK, Perform, Nodes
<1>1. block # NoBlock /\ pc = "built"
  BY <1>0 DEF IInv, RunInv, PhaseInv
<1>2. \A d \in DominatorsOf(n) \ ran : d \in {n}
  <2>1. SUFFICES ASSUME NEW d \in DominatorsOf(n) \ ran PROVE FALSE
    OBVIOUS
  <2>2. d \in left /\ kind[d] = "inline" /\ d < n
    BY <1>0, <1>1, DominatorsFirst
  <2>3. n <= d /\ n \in Nat /\ d \in Nat
    BY <1>0, <2>2
  <2> QED
    BY <2>2, <2>3
<1> QED
  BY <1>0, <1>1, <1>2, TestsMade

LEMMA TestInv ==
    ASSUME IInv, Test
    PROVE  IInv'
<1>0. left # {} /\ left' = left \ left /\ ran' = ran \cup left /\ UNCHANGED <<gvars, block>>
  BY DEF Test
<1>1. block # NoBlock /\ pc = "built"
  BY <1>0 DEF IInv, RunInv, PhaseInv
<1>2. \A n \in left : \A d \in DominatorsOf(n) \ ran : d \in left
  BY <1>1, DominatorsFirst
<1> QED
  BY <1>0, <1>1, <1>2, TestsMade

LEMMA StutterInv ==
    ASSUME IInv, UNCHANGED vars
    PROVE  IInv'
<1>0. UNCHANGED gvars /\ UNCHANGED program /\ UNCHANGED <<block, left, ran>>
  BY DEF vars, gvars, program
<1>1. TypeOK' /\ PhaseInv' /\ DominatorsRan'
  BY <1>0, GraphStays DEF IInv, TypeOK, PhaseInv, DominatorsRan
<1>2. RunInv'
  <2>1. RunInv
    BY DEF IInv
  <2>2. \A n : AnchorBlock(n)' = AnchorBlock(n)
    BY <1>0, ProgramStays
  <2>3. /\ TestedIn(block)' = TestedIn(block)
        /\ ReachableAvoiding(block, {})' <=> ReachableAvoiding(block, {})
        /\ \A m : PathTo(AnchorBlock(m), block)' <=> PathTo(AnchorBlock(m), block)
        /\ \A d : ReachableAvoiding(block, {AnchorBlock(d)})'
                    <=> ReachableAvoiding(block, {AnchorBlock(d)})
        /\ \A n : OnePlace(n)' <=> OnePlace(n)
    BY <1>0, <2>2, ProgramStays
  <2> QED
    BY <1>0, <2>1, <2>2, <2>3 DEF RunInv
<1> QED
  BY <1>0, <1>1, <1>2, GraphStays DEF IInv

\* IInv is an invariant of the graph and the run.
LEMMA Invariance == Spec => []IInv
<1>1. IInv /\ [Next]_vars => IInv'
  BY BuildInv, InvokeInv, PerformInv, TestInv, BranchInv, StutterInv DEF Next
<1> QED
  BY InitInv, <1>1, PTL DEF Spec

-----------------------------------------------------------------------------
(* The theorems *)

(* The state keeps its types: the double loop of computeReachability stays  *)
(* within the nodes, the searches within the blocks.                        *)
THEOREM TypeCorrect == Spec => []TypeOK
<1>1. IInv => TypeOK
  BY DEF IInv
<1> QED
  BY Invariance, <1>1, PTL

(* In every function and every run, whenever a check is performed, all      *)
(* checks that computeDominance lists as its dominators have been.          *)
THEOREM DominatorsPerformed == Spec => []DominatorsRan
<1>1. IInv => DominatorsRan
  BY DEF IInv
<1> QED
  BY Invariance, <1>1, PTL

(* The edges that computeReachability enters between checks of different    *)
(* blocks are exactly the paths of the control-flow graph.                  *)
THEOREM EdgesExact == Spec => []EdgesArePaths
<1>1. IInv => EdgesArePaths
  <2>1. SUFFICES ASSUME IInv, pc = "dominance",
                        NEW m \in Nodes, NEW n \in Nodes, AnchorBlock(m) # AnchorBlock(n)
                 PROVE  n \in Successors[m] <=> PathTo(AnchorBlock(m), AnchorBlock(n))
    BY DEF EdgesArePaths, PathTo
  <2>2. From = NumNodes + 1 /\ m < NumNodes + 1
    BY <2>1, GraphAssumption DEF IInv, PhaseInv, Nodes
  <2>3. PairDone(m, n)
    BY <2>2 DEF PairDone
  <2> QED
    BY <2>1, <2>3 DEF IInv, EdgesInv
<1> QED
  BY Invariance, <1>1, PTL

(* If the check graph had been consulted, deleting would be safe: where     *)
(* every READ of the run of deleted ones that ends in a check is dominated  *)
(* by the check before it, a run of the program that performs the check has *)
(* performed the kept READ that stands for it.                              *)
THEOREM DominatedCovered == Spec => []DominatedRunsCovered
<1>1. IInv => DominatedRunsCovered
  <2>1. SUFFICES ASSUME IInv, NEW n \in ran, Deleted(n),
                        \A m \in DeletedRun(n) : (m - 1) \in Dominators[m]
                 PROVE  Witness(n) \in ran /\ Kept(Witness(n)) /\ Type[Witness(n)] = "READ"
    BY DEF DominatedRunsCovered
  <2>2. n \in Nodes /\ ran \subseteq Nodes /\ n \in 1..n /\ 1..n \subseteq Nat
    <3>1. ran \subseteq Nodes
      BY <2>1 DEF IInv, TypeOK
    <3>2. n \in Nat /\ 1 <= n
      BY <3>1, GraphAssumption DEF Nodes
    <3> QED
      BY <3>1, <3>2
  <2> DEFINE T == {k \in 1..n : \A q \in k..n : Deleted(q) /\ q \in ran}
  <2>3. n \in T /\ T \in SUBSET Nat
    <3>1. \A q \in n..n : q = n
      BY <2>2
    <3> QED
      BY <2>1, <2>2, <3>1
  <2>4. PICK k \in T : \A q \in T : k <= q
    <3>1. T # {} /\ T \in SUBSET Nat
      BY <2>3
    <3> HIDE DEF T
    <3> QED
      BY <3>1, LeastNatural
  <2>5. /\ k \in Nat /\ k <= n /\ n \in Nat /\ Deleted(k) /\ k \in ran
        /\ \A q \in k..n : Deleted(q) /\ q \in ran
    <3>1. k \in 1..n /\ \A q \in k..n : Deleted(q) /\ q \in ran
      BY <2>4
    <3>2. k \in Nat /\ k <= n /\ n \in Nat
      BY <2>2, <3>1
    <3>3. k \in k..n
      BY <3>2
    <3> QED
      BY <3>1, <3>2, <3>3
  <2>6. k \in DeletedRun(n)
    BY <2>4, <2>5 DEF DeletedRun
  <2>7. k - 1 \in ran /\ k > 1 /\ Type[k - 1] = "READ"
    <3>1. k - 1 \in Dominators[k]
      BY <2>1, <2>6
    <3>2. Dominators[k] \subseteq ran
      BY <2>1, <2>5 DEF IInv, DominatorsRan
    <3> QED
      BY <2>5, <3>1, <3>2 DEF Deleted
  <2>8. ~Deleted(k - 1)
    <3>1. SUFFICES ASSUME Deleted(k - 1) PROVE FALSE
      OBVIOUS
    <3>2. k - 1 \in 1..n
      BY <2>5, <2>7
    <3>3. \A q \in (k - 1)..n : q = k - 1 \/ q \in k..n
      BY <2>5
    <3>4. k - 1 \in T
      BY <2>5, <2>7, <3>1, <3>2, <3>3
    <3>5. k <= k - 1
      BY <2>4, <3>4
    <3> QED
      BY <2>5, <3>5
  <2>9. \A m \in DeletedRun(n) : m \in Nat /\ k - 1 < m
    <3>1. SUFFICES ASSUME NEW m \in DeletedRun(n), ~(k - 1 < m) PROVE FALSE
      BY DEF DeletedRun
    <3>2. m \in 1..n /\ \A q \in m..n : Deleted(q)
      BY DEF DeletedRun
    <3>3. k - 1 \in m..n
      BY <2>5, <3>1, <3>2
    <3> QED
      BY <2>8, <3>2, <3>3
  <2>10. Witness(n) = k - 1
    <3> DEFINE W(w) == \A m \in DeletedRun(n) : w < m /\ (w + 1) \in DeletedRun(n)
    <3>1. k - 1 \in 0..n /\ (k - 1) + 1 = k
      BY <2>5, <2>7
    <3>2. W(k - 1)
      BY <2>6, <2>9, <3>1
    <3>3. ASSUME NEW w \in 0..n, W(w) PROVE w = k - 1
      <4>1. w < k /\ w + 1 \in DeletedRun(n)
        BY <2>6, <3>3
      <4>2. k - 1 < w + 1
        BY <2>9, <4>1
      <4> QED
        BY <2>5, <4>1, <4>2
    <3> HIDE DEF W
    <3>4. (CHOOSE w \in 0..n : W(w)) = k - 1
      BY <3>1, <3>2, <3>3
    <3> QED
      BY <3>4 DEF W, Witness
  <2> QED
    BY <2>7, <2>8, <2>10 DEF Kept
<1> QED
  BY Invariance, <1>1, PTL

(* A run that performs one check after another, of another block, finds an  *)
(* edge between them in the graph; checks with several guards, which are    *)
(* anchored behind them all, need not have one.                             *)
THEOREM EdgesFollowed == Spec => RunsFollowEdges
<1> DEFINE Follows ==
      \A n \in left \ left' : \A m \in ran :
          AnchorBlock(m) # AnchorBlock(n) /\ Cardinality(TestBlocks(m)) = 1
          => n \in Successors[m]
<1>1. ASSUME IInv, [Next]_vars, ~UNCHANGED <<left, ran>> PROVE Follows
  <2>1. SUFFICES ASSUME NEW n \in left, NEW m \in ran,
                        AnchorBlock(m) # AnchorBlock(n), Cardinality(TestBlocks(m)) = 1
                 PROVE  n \in Successors[m]
    BY DEF Follows
  <2>2. /\ block # NoBlock /\ Static /\ n \in Nodes /\ m \in Nodes
        /\ n \in TestedIn(block) /\ OnePlace(m)
    BY <1>1, <2>1 DEF IInv, RunInv, TypeOK, OnePlace
  <2>3. AnchorBlock(m) = block \/ PathTo(AnchorBlock(m), block)
    BY <1>1, <2>2 DEF IInv, RunInv
  <2>4. PathTo(AnchorBlock(m), AnchorBlock(n))
    <3>1. CASE OnePlace(n)
      <4>1. AnchorBlock(n) = block
        BY <2>2, <3>1, AnchorPlace DEF TestedIn
      <4> QED
        BY <2>1, <2>3, <4>1
    <3>2. CASE ~OnePlace(n)
      <4>1. AnchorBlock(n) \in succ[block]
        BY <2>2, <3>2, AnchorPlace DEF TestedIn, predecessors
      <4> QED
        BY <2>3, <4>1, PathSteps
    <3> QED
      BY <3>1, <3>2
  <2>5. From = NumNodes + 1 /\ m < NumNodes + 1
    BY <1>1, <2>2, GraphAssumption DEF IInv, PhaseInv, Nodes
  <2>6. PairDone(m, n)
    BY <2>5 DEF PairDone
  <2> QED
    BY <1>1, <2>1, <2>2, <2>4, <2>6 DEF IInv, EdgesInv
<1>2. IInv /\ [Next]_vars => [Follows]_<<left, ran>>
  BY <1>1
<1>3. Spec => [][Follows]_<<left, ran>>
  <2> HIDE DEF Follows
  <2> QED
    BY <1>2, Invariance, PTL DEF Spec
<1> QED
  BY <1>3 DEF RunsFollowEdges
=============================================================================
