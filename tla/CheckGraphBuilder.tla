------------------------- MODULE CheckGraphBuilder -------------------------
(* CheckGraphBuilder::buildGraphForVariable for one group of checks: anchor *)
(* each check, connect the checks by reachability (a breadth-first search   *)
(* over basic blocks for every ordered pair) and by dominance.              *)
(*                                                                          *)
(* The functions are control-flow graphs over Blocks.  A check is either    *)
(* inline (a call that tests and reports by itself) or a report call, which *)
(* sits in a block of its own behind a conditional branch.  The nodes of a  *)
(* group are numbered in the layout order of the module.                    *)
EXTENDS Integers, FiniteSets

CONSTANTS
    Blocks,      \* basic blocks, numbered in layout order
    Functions,   \* defined functions
    Fn,          \* the function of a block
    Entry,       \* the entry block of a function
    NumNodes,    \* how many checks the group has
    AccessTypes  \* the access types that occur in the group

ASSUME GraphAssumption ==
    /\ Blocks \subseteq Nat
    /\ IsFiniteSet(Blocks)
    /\ Fn \in [Blocks -> Functions]
    /\ Entry \in [Functions -> Blocks]
    /\ \A f \in Functions : Fn[Entry[f]] = f
    /\ NumNodes \in Nat \ {0}    \* a group is made for its first check

Nodes == 1..NumNodes

CheckKinds == {"inline", "report"}

VARIABLES
    succ,         \* the successors of each block
    BB,           \* the block of each check's call
    kind,         \* inline or report
    Type,         \* READ, WRITE or UNKNOWN
    pc,           \* "reach", "search", "dominance" or "built"
    From, To,     \* the pair computeReachability looks at
    Worklist,     \* isReachable's queue
    Visited,      \* the blocks it has taken from the queue
    Successors,   \* per node, the nodes it reaches
    Dominators    \* per node, the nodes that dominate it

program == <<succ, BB, kind, Type>>
gvars == <<succ, BB, kind, Type, pc, From, To, Worklist, Visited, Successors,
           Dominators>>

-----------------------------------------------------------------------------
(* Anchors *)

predecessors(b) == {p \in Blocks : b \in succ[p]}

IsConditional(b) == Cardinality(succ[b]) = 2

\* An anchor is a place in a block: behind the inline checks for a branch.
CallPlace(n) == [block |-> BB[n], rank |-> n]
BranchPlace(b) == [block |-> b, rank |-> NumNodes + 1]

\* A report call with a single, conditional predecessor is anchored at that
\* branch; every other check at its call.
findCheckAnchor(n) ==
    LET Preds == predecessors(BB[n]) IN
    IF /\ kind[n] = "report"
       /\ Cardinality(Preds) = 1
       /\ \A p \in Preds : IsConditional(p)
    THEN BranchPlace(CHOOSE p \in Preds : TRUE)
    ELSE CallPlace(n)

instructionComesBefore(x, y) == x.block = y.block /\ x.rank < y.rank

AnchorFn(n) == Fn[findCheckAnchor(n).block]
AnchorBlock(n) == findCheckAnchor(n).block

-----------------------------------------------------------------------------
(* LLVM's dominator tree, by its definition *)

\* b can be reached from the entry of its function without passing a block of S.
ReachableAvoiding(b, S) ==
    \A R \in SUBSET Blocks :
        /\ {Entry[Fn[b]]} \ S \subseteq R
        /\ \A c \in R : succ[c] \ S \subseteq R
        => b \in R

\* DominatorTree::dominates for two instructions: everything dominates code
\* that is not reachable, and unreachable code dominates nothing else.
dominates(x, y) ==
    \/ ~ReachableAvoiding(y.block, {})
    \/ /\ ReachableAvoiding(x.block, {})
       /\ IF x.block = y.block
          THEN x.rank < y.rank
          ELSE ~ReachableAvoiding(y.block, {x.block})

-----------------------------------------------------------------------------
(* The functions a front end and an instrumentation pass can produce: no    *)
(* branch to an entry block or into another function, one or two targets,   *)
(* the checks in layout order, a report call alone in its block and guarded *)
(* by conditional branches, and not in an entry block.                      *)
WellFormedBranches ==
    \A b \in Blocks : /\ Cardinality(succ[b]) <= 2
                      /\ \A c \in succ[b] : Fn[c] = Fn[b] /\ c # Entry[Fn[b]]

WellFormedChecks ==
    /\ \A m, n \in Nodes : m < n => BB[m] <= BB[n]
    /\ \A n \in Nodes : kind[n] = "report" =>
          /\ BB[n] # Entry[Fn[BB[n]]]
          /\ \A m \in Nodes \ {n} : BB[m] # BB[n]
          /\ \A p \in predecessors(BB[n]) : IsConditional(p)
          /\ Cardinality(succ[BB[n]]) <= 1

GraphInit ==
    /\ succ \in [Blocks -> SUBSET Blocks]
    /\ WellFormedBranches
    /\ BB \in [Nodes -> Blocks]
    /\ kind \in [Nodes -> CheckKinds]
    /\ WellFormedChecks
    /\ Type \in [Nodes -> AccessTypes]
    /\ pc = "reach"
    /\ From = 1
    /\ To = 1
    /\ Worklist = {}
    /\ Visited = {}
    /\ Successors = [n \in Nodes |-> {}]
    /\ Dominators = [n \in Nodes |-> {}]

-----------------------------------------------------------------------------
(* computeReachability: a double loop over the nodes *)

NextPair ==
    IF To < NumNodes THEN From' = From /\ To' = To + 1
                     ELSE From' = From + 1 /\ To' = 1

\* The pairs isReachable answers without a search: another function is never
\* reached, and inside a block only what comes later.
ShortAnswer ==
    /\ pc = "reach"
    /\ From \in Nodes
    /\ \/ From = To
       \/ AnchorFn(From) # AnchorFn(To)
       \/ AnchorBlock(From) = AnchorBlock(To)
    /\ Successors' =
          IF From # To /\ instructionComesBefore(findCheckAnchor(From), findCheckAnchor(To))
          THEN [Successors EXCEPT ![From] = @ \cup {To}]
          ELSE Successors
    /\ NextPair
    /\ UNCHANGED <<program, pc, Worklist, Visited, Dominators>>

StartSearch ==
    /\ pc = "reach"
    /\ From \in Nodes
    /\ From # To
    /\ AnchorFn(From) = AnchorFn(To)
    /\ AnchorBlock(From) # AnchorBlock(To)
    /\ Worklist' = succ[AnchorBlock(From)]
    /\ Visited' = {}
    /\ pc' = "search"
    /\ UNCHANGED <<program, From, To, Successors, Dominators>>

\* Mutant: the successors of a block are not queued.
VisitBlock_NoPush(b) ==
    /\ pc = "search"
    /\ b \in Worklist
    /\ b # AnchorBlock(To)
    /\ Visited' = Visited \cup {b}
    /\ Worklist' = Worklist \ {b}
    /\ UNCHANGED <<program, pc, From, To, Successors, Dominators>>

\* Take a block from the queue; the order in which the code takes them does
\* not matter to the answer, and the model takes any.
VisitBlock(b) ==
    /\ pc = "search"
    /\ b \in Worklist
    /\ b # AnchorBlock(To)
    /\ Visited' = Visited \cup {b}
    /\ Worklist' = (Worklist \cup succ[b]) \ Visited'
    /\ UNCHANGED <<program, pc, From, To, Successors, Dominators>>

\* Mutant: the edge is entered the wrong way round.
Found_Reversed ==
    /\ pc = "search"
    /\ AnchorBlock(To) \in Worklist
    /\ Successors' = [Successors EXCEPT ![To] = @ \cup {From}]
    /\ NextPair
    /\ pc' = "reach"
    /\ Worklist' = {}
    /\ Visited' = {}
    /\ UNCHANGED <<program, Dominators>>

Found ==
    /\ pc = "search"
    /\ AnchorBlock(To) \in Worklist
    /\ Successors' = [Successors EXCEPT ![From] = @ \cup {To}]
    /\ NextPair
    /\ pc' = "reach"
    /\ Worklist' = {}
    /\ Visited' = {}
    /\ UNCHANGED <<program, Dominators>>

NotFound ==
    /\ pc = "search"
    /\ Worklist = {}
    /\ NextPair
    /\ pc' = "reach"
    /\ Visited' = {}
    /\ UNCHANGED <<program, Worklist, Successors, Dominators>>

ReachabilityDone ==
    /\ pc = "reach"
    /\ From \notin Nodes
    /\ pc' = "dominance"
    /\ UNCHANGED <<program, From, To, Worklist, Visited, Successors, Dominators>>

\* Mutant: dominance is asked the wrong way round.
DominatorsOf_Swapped(n) ==
    {d \in Nodes \ {n} : /\ AnchorFn(d) = AnchorFn(n)
                         /\ dominates(findCheckAnchor(n), findCheckAnchor(d))}

DominatorsOf(n) ==
    {d \in Nodes \ {n} : /\ AnchorFn(d) = AnchorFn(n)
                         /\ dominates(findCheckAnchor(d), findCheckAnchor(n))}

computeDominance ==
    /\ pc = "dominance"
    /\ Dominators' = [n \in Nodes |-> DominatorsOf(n)]
    /\ pc' = "built"
    /\ UNCHANGED <<program, From, To, Worklist, Visited, Successors>>

Build ==
    \/ ShortAnswer
    \/ StartSearch
    \/ \E b \in Blocks : VisitBlock(b)
    \/ Found
    \/ NotFound
    \/ ReachabilityDone
    \/ computeDominance

GraphTypeOK ==
    /\ succ \in [Blocks -> SUBSET Blocks]
    /\ BB \in [Nodes -> Blocks]
    /\ kind \in [Nodes -> CheckKinds]
    /\ Type \in [Nodes -> AccessTypes]
    /\ pc \in {"reach", "search", "dominance", "built"}
    /\ From \in 1..(NumNodes + 1)
    /\ To \in Nodes
    /\ Worklist \subseteq Blocks
    /\ Visited \subseteq Blocks
    /\ Successors \in [Nodes -> SUBSET Nodes]
    /\ Dominators \in [Nodes -> SUBSET Nodes]

=============================================================================
