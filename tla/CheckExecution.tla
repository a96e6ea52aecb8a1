--------------------------- MODULE CheckExecution ---------------------------
(* The checks of one group, the graph DESAN builds over them, and a run of  *)
(* the instrumented functions: one invocation of one function walks its     *)
(* control-flow graph and performs the checks on its way.  A report check   *)
(* is performed by each conditional branch that guards it, an inline check  *)
(* by its call.                                                             *)
(*                                                                          *)
(* The deletion policy (theorem MarkingIsPolicy) takes a check of a group   *)
(* away exactly if it and the check before it in the layout are READs.      *)
EXTENDS CheckGraphBuilder

VARIABLES
    block,      \* where the run is, NoBlock before it starts
    left,       \* checks of this block the run still has to perform
    ran         \* checks whose place the run has passed

CONSTANT NoBlock

ASSUME NoBlockAssumption == NoBlock \notin Blocks

vars == <<gvars, block, left, ran>>

\* Mutant: a READ goes away after any check of the group.
Deleted_AfterAny(n) == n > 1 /\ Type[n] = "READ"

\* A READ goes away directly after a READ.
Deleted(n) == n > 1 /\ Type[n] = "READ" /\ Type[n - 1] = "READ"

Kept(n) == ~Deleted(n)

\* The blocks in which the test of a check is made.
TestBlocks(n) == IF kind[n] = "report" THEN predecessors(BB[n]) ELSE {BB[n]}

TestedIn(b) == {n \in Nodes : b \in TestBlocks(n)}

Init ==
    /\ GraphInit
    /\ block = NoBlock
    /\ left = {}
    /\ ran = {}

Goto(b) == block' = b /\ left' = TestedIn(b)

Invoke(f) ==
    /\ pc = "built"
    /\ block = NoBlock
    /\ Goto(Entry[f])
    /\ UNCHANGED <<gvars, ran>>

\* Inside a block the inline checks come in layout order ...
Perform(n) ==
    /\ n \in left
    /\ kind[n] = "inline"
    /\ \A m \in left : kind[m] = "inline" => n <= m
    /\ left' = left \ {n}
    /\ ran' = ran \cup {n}
    /\ UNCHANGED <<gvars, block>>

\* ... and the branch last: one instruction, which makes the tests of all
\* report calls it guards at once.
Test ==
    /\ left # {}
    /\ \A m \in left : kind[m] = "report"
    /\ left' = {}
    /\ ran' = ran \cup left
    /\ UNCHANGED <<gvars, block>>

Branch(b) ==
    /\ block # NoBlock
    /\ left = {}
    /\ b \in succ[block]
    /\ Goto(b)
    /\ UNCHANGED <<gvars, ran>>

Next ==
    \/ Build /\ UNCHANGED <<block, left, ran>>
    \/ \E f \in Functions : Invoke(f)
    \/ \E n \in Nodes : Perform(n)
    \/ Test
    \/ \E b \in Blocks : Branch(b)

Spec == Init /\ [][Next]_vars

-----------------------------------------------------------------------------
(* The types of the state: computeReachability stays within the nodes, and  *)
(* the searches of isReachable within the blocks.                           *)
TypeOK ==
    /\ GraphTypeOK
    /\ block \in Blocks \cup {NoBlock}
    /\ left \subseteq Nodes
    /\ ran \subseteq Nodes

(* The dominators of a check in the graph have been performed whenever the  *)
(* check is, in every run (computeDominance with the anchors of             *)
(* findCheckAnchor, for inline and for report checks).                      *)
DominatorsRan ==
    \A n \in ran : Dominators[n] \subseteq ran

(* A run that performs a check after one of another block finds an edge of  *)
(* the graph between them (computeReachability).  A report call guarded by  *)
(* several branches is anchored behind all of them, and runs that pass one  *)
(* of its guards only have no edge: it is left out.                         *)
RunsFollowEdges ==
    [][\A n \in left \ left' : \A m \in ran :
          AnchorBlock(m) # AnchorBlock(n) /\ Cardinality(TestBlocks(m)) = 1
          => n \in Successors[m]]_<<left, ran>>

(* An edge between checks of different blocks is a path of the control-flow *)
(* graph between their anchors, and the search misses none.                 *)
EdgesArePaths ==
    pc = "dominance" =>
        \A m, n \in Nodes :
            AnchorBlock(m) # AnchorBlock(n) =>
              (n \in Successors[m] <=>
                   \A R \in SUBSET Blocks :
                       /\ succ[AnchorBlock(m)] \subseteq R
                       /\ \A c \in R : succ[c] \subseteq R
                       => AnchorBlock(n) \in R)

\* The run of deleted READs that ends in n, and the kept READ before it.
DeletedRun(n) == {m \in 1..n : \A q \in m..n : Deleted(q)}
Witness(n) == CHOOSE w \in 0..n : \A m \in DeletedRun(n) : w < m /\ (w + 1) \in DeletedRun(n)

(* If each deleted READ is dominated, in DESAN's own graph, by the check    *)
(* before it in the group, deleting them is safe: every run that passes a   *)
(* deleted check has performed the kept READ that stands for it.            *)
DominatedRunsCovered ==
    \A n \in ran :
        Deleted(n) /\ (\A m \in DeletedRun(n) : (m - 1) \in Dominators[m])
        => Witness(n) \in ran /\ Kept(Witness(n)) /\ Type[Witness(n)] = "READ"

(* No check is deleted unless its report is covered: a run that passes a    *)
(* deleted check has performed a kept check of the same variable before.    *)
DeletionsCovered ==
    \A n \in ran : Deleted(n) => \E w \in ran : Kept(w)

=============================================================================
