------------------------- MODULE CheckSliceRemover -------------------------
(* CheckSliceRemover::removeCheckSlice and the loop of                      *)
(* RedundantCheckEliminator::eraseMarkedChecks around it, on the IR of one  *)
(* function.  A check goes away in one of two ways: its report block is     *)
(* bypassed and deleted, or the call alone is erased with the instructions  *)
(* that only served it.  After each removal, and once more at the end, dead *)
(* instructions are cleaned up and the control-flow graph is simplified.    *)
(*                                                                          *)
(* Of an instruction only its class and its operands matter:                *)
(*   check    a call classifyCheck recognises                               *)
(*   invoke   the same as an invoke; it ends its block                      *)
(*   runtime  another __msan_* runtime call                                 *)
(*   asm      the empty inline assembly behind a report call                *)
(*   pure     casts, address arithmetic, comparisons, ...                   *)
(*   load     a load that is neither volatile nor atomic                    *)
(*   phi      a phi node                                                    *)
(*   effect   anything else: stores, calls, ... of the program              *)
(* Debug and lifetime intrinsics belong to the sanitizer's code and to the  *)
(* program's alike; they are left out.                                      *)
EXTENDS Integers, Sequences, SequencesExt, FiniteSets

CONSTANTS
    Blocks,     \* names of basic blocks
    EntryBlock,
    Insts,      \* names of instructions
    Programs,   \* the functions to run on, with their marked checks
    None        \* no block, no instruction, a constant operand

VARIABLES
    prog,           \* the function as it was given
    blocks,         \* its blocks
    body,           \* per block, its instructions but the terminator
    term,           \* per block, its terminator [op, cond, to]
    incoming,       \* per phi, the value per predecessor
    pc,             \* where removeCheckSlice or eraseMarkedChecks is
    CallsToErase,   \* marked calls the loop has not reached
    CB,             \* the call it works on
    Slice,          \* its CheckSlice [insts, blocks]
    Preds,          \* bypassReportBlock: predecessors still to redirect
    Removed         \* checks reported removed

vars == <<prog, blocks, body, term, incoming, pc, CallsToErase, CB, Slice, Preds,
          Removed>>
ir == <<blocks, body, term, incoming>>

InstClasses == {"check", "invoke", "runtime", "asm", "pure", "load", "phi", "effect"}
TermClasses == {"br", "cbr", "switch", "ret", "unreachable", "invoke"}
Terminators == [op : TermClasses, cond : Insts \cup {None}, to : Seq(Blocks)]

\* A function: every instruction is in one place, and branches stay inside.
IsFunction(p) ==
    /\ p.blocks \subseteq Blocks /\ EntryBlock \in p.blocks
    /\ p.body \in [Blocks -> Seq(Insts)] /\ p.term \in [Blocks -> Terminators]
    /\ p.op \in [Insts -> InstClasses] /\ p.uses \in [Insts -> SUBSET Insts]
    /\ \A b, c \in p.blocks : \A m \in DOMAIN p.body[b], n \in DOMAIN p.body[c] :
          p.body[b][m] = p.body[c][n] => b = c /\ m = n
    /\ \A b \in p.blocks : ToSet(p.term[b].to) \subseteq p.blocks
    /\ \A b \in Blocks :
          /\ p.term[b].op = "br" => Len(p.term[b].to) = 1
          /\ p.term[b].op = "cbr" => Len(p.term[b].to) = 2
          /\ p.term[b].op = "unreachable" => Len(p.term[b].to) = 0
    /\ p.marked \subseteq {i \in UNION {ToSet(p.body[b]) : b \in p.blocks} :
                              p.op[i] \in {"check", "invoke"}}

ASSUME ProgramsAssumption ==
    /\ IsFiniteSet(Blocks) /\ IsFiniteSet(Insts)
    /\ None \notin Blocks \cup Insts
    /\ \A p \in Programs : IsFunction(p)

ClassOf(i) == prog.op[i]

-----------------------------------------------------------------------------
(* The IR: users, predecessors, reachability *)

InstsOf(b) == ToSet(body[b])
Live == UNION {InstsOf(b) : b \in blocks}
BlockOf(i) == CHOOSE b \in blocks : i \in InstsOf(b)

Operands(i) ==
    IF ClassOf(i) = "phi"
    THEN {incoming[i][p] : p \in DOMAIN incoming[i]} \ {None}
    ELSE prog.uses[i]

UserInsts(i) == {j \in Live : i \in Operands(j)}
UserBranches(i) == {b \in blocks : term[b].cond = i}
UseEmpty(i) == UserInsts(i) = {} /\ UserBranches(i) = {}

Succs(b) == ToSet(term[b].to)
predecessors(b) == {p \in blocks : b \in Succs(p)}

\* The blocks reached from S along the branches of t.
ReachFrom(t, S) ==
    {b \in Blocks : \A C \in SUBSET Blocks :
        S \subseteq C /\ (\A c \in C : ToSet(t[c].to) \subseteq C) => b \in C}

Reachable == ReachFrom(term, {EntryBlock})

WithoutInst(i) == [b \in Blocks |-> RemoveFirst(body[b], i)]

\* A phi forgets its entries for the predecessors that are not in P.
KeepIncoming(inc, b, P) ==
    [i \in DOMAIN inc |->
        IF i \in InstsOf(b)
        THEN [p \in DOMAIN inc[i] \cap (P \cup {None}) |-> inc[i][p]]
        ELSE inc[i]]

-----------------------------------------------------------------------------
(* What belongs to the sanitizer *)

isCheck(i) == ClassOf(i) \in {"check", "invoke"}

isSanitizerOnlyInstruction(i) == ClassOf(i) # "effect"

\* Branches and unreachable; an invoke terminator is the check itself.
isSanitizerOnlyTerminator(b) == term[b].op \in {"br", "cbr", "unreachable", "invoke"}

\* Mutant: another check of the block is overlooked.
isSanitizerOnlyBlock_AnyCheck(b, TargetCB) ==
    /\ \A i \in InstsOf(b) : isSanitizerOnlyInstruction(i)
    /\ isSanitizerOnlyTerminator(b)

isSanitizerOnlyBlock(b, TargetCB) ==
    /\ \A i \in InstsOf(b) : /\ isSanitizerOnlyInstruction(i)
                             /\ isCheck(i) => i = TargetCB
    /\ isSanitizerOnlyTerminator(b)

-----------------------------------------------------------------------------
(* collectCheckSlice *)

\* The sanitizer-only instructions whose values are used.
Sources == {o \in Live : isSanitizerOnlyInstruction(o) /\ \E i \in Live : o \in Operands(i)}

\* S and the sanitizer-only instructions that compute the values in S; the
\* walk does not look behind those in Cut.
Backward(S, Cut) ==
    S \cup {o \in Sources : \A C \in SUBSET Sources :
              (\A i \in (S \cup C) \ Cut : Operands(i) \cap Sources \subseteq C) => o \in C}

\* Predecessors through which the walk of collectControlFlowSlice goes on.
SliceWalk(cb) ==
    {b \in blocks : \A W \in SUBSET blocks :
        BlockOf(cb) \in W /\ (\A c \in W : \A p \in predecessors(c) :
                                 isSanitizerOnlyBlock(p, cb) => p \in W)
        => b \in W}

\* The condition of p's branch, or the invoke that ends p.
TerminatorInst(p) ==
    {i \in Live : \/ i = term[p].cond /\ isSanitizerOnlyInstruction(i)
                  \/ i \in InstsOf(p) /\ ClassOf(i) = "invoke"}

\* Cut: instructions that entered the slice with their block before the walk
\* over operands met them, and stopped there.
collectCheckSlice(cb, Cut) ==
    LET Walk == SliceWalk(cb)
        SliceBlocks == {b \in Walk : isSanitizerOnlyBlock(b, cb)}
        Guards == {p \in UNION {predecessors(b) : b \in Walk} :
                      isSanitizerOnlyTerminator(p)}
    IN  [insts |-> Backward({cb}, {})
                     \cup Backward(UNION {TerminatorInst(p) : p \in Guards}, Cut)
                     \cup UNION {InstsOf(b) : b \in SliceBlocks},
         blocks |-> SliceBlocks]

-----------------------------------------------------------------------------
(* bypassReportBlock *)

Fallthrough(b) == IF term[b].op = "br" THEN term[b].to[1] ELSE None

\* The successor of p that is not the report block R.
OtherSucc(p, R) == IF term[p].to[1] = R THEN term[p].to[2] ELSE term[p].to[1]

SafeSucc(p, R) == IF Fallthrough(R) # None THEN Fallthrough(R) ELSE OtherSucc(p, R)

\* Mutant: the other arm of the branch may lead anywhere.
canRedirect_AnyArm(p, R) ==
    /\ term[p].op \in {"br", "cbr"}
    /\ term[p].op = "br" => Fallthrough(R) # None
    /\ SafeSucc(p, R) # R

\* The check the first loop makes of every predecessor.
canRedirect(p, R) ==
    /\ term[p].op \in {"br", "cbr"}
    /\ IF term[p].op = "cbr"
       THEN Fallthrough(R) # None => OtherSucc(p, R) = Fallthrough(R)
       ELSE Fallthrough(R) # None
    /\ SafeSucc(p, R) # R

canBypass(cb) ==
    LET R == BlockOf(cb) IN
    /\ isSanitizerOnlyBlock(R, cb)
    /\ term[R].op \in {"br", "unreachable"}
    /\ \A p \in predecessors(R) : canRedirect(p, R)

-----------------------------------------------------------------------------
Init ==
    /\ prog \in Programs
    /\ blocks = prog.blocks
    /\ body = prog.body
    /\ term = prog.term
    /\ incoming = prog.incoming
    /\ pc = "next"
    /\ CallsToErase = prog.marked
    /\ CB = None
    /\ Slice = [insts |-> {}, blocks |-> {}]
    /\ Preds = {}
    /\ Removed = 0

\* Mutant: the call stays in the list.
TakeCall_NotTaken(i) ==
    /\ pc = "next"
    /\ i \in CallsToErase
    /\ CB' = i
    /\ Slice' = collectCheckSlice(i, {})
    /\ pc' = "bypass"
    /\ UNCHANGED <<prog, ir, CallsToErase, Preds, Removed>>

\* The loop of eraseMarkedChecks takes the next call, in any order, and
\* removeCheckSlice collects its slice.  In which order the walk visits the
\* predecessors, and so where it is cut, is left open.
TakeCall(i) ==
    /\ pc = "next"
    /\ i \in CallsToErase
    /\ CallsToErase' = CallsToErase \ {i}
    /\ CB' = i
    /\ \E Cut \in SUBSET {j \in Live \ {i} : Operands(j) # {}} :
          /\ Cut \subseteq UNION {InstsOf(b) : b \in SliceWalk(i)}
          /\ Slice' = collectCheckSlice(i, Cut)
    /\ pc' = "bypass"
    /\ UNCHANGED <<prog, ir, Preds, Removed>>

StartBypass ==
    /\ pc = "bypass"
    /\ canBypass(CB)
    /\ Preds' = predecessors(BlockOf(CB))
    /\ pc' = "redirect"
    /\ UNCHANGED <<prog, ir, CallsToErase, CB, Slice, Removed>>

\* Mutant: the old branch is not erased.
Redirect_OldBranchStays(p) ==
    /\ pc = "redirect"
    /\ p \in Preds
    /\ incoming' = KeepIncoming(incoming, BlockOf(CB), predecessors(BlockOf(CB)) \ {p})
    /\ Preds' = Preds \ {p}
    /\ UNCHANGED <<prog, blocks, body, term, pc, CallsToErase, CB, Slice, Removed>>

\* The second loop: one predecessor now branches to the safe successor.
Redirect(p) ==
    /\ pc = "redirect"
    /\ p \in Preds
    /\ LET R == BlockOf(CB) IN
       /\ incoming' = KeepIncoming(incoming, R, predecessors(R) \ {p})
       /\ term' = [term EXCEPT ![p] = [op |-> "br", cond |-> None,
                                       to |-> <<SafeSucc(p, R)>>]]
    /\ Preds' = Preds \ {p}
    /\ UNCHANGED <<prog, blocks, body, pc, CallsToErase, CB, Slice, Removed>>

\* DeleteDeadBlock.
DeleteReportBlock ==
    /\ pc = "redirect"
    /\ Preds = {}
    /\ predecessors(BlockOf(CB)) = {}
    /\ LET R == BlockOf(CB)
           F == Fallthrough(R)
       IN  /\ blocks' = blocks \ {R}
           /\ incoming' = IF F = None THEN incoming
                          ELSE KeepIncoming(incoming, F, Blocks \ {R})
    /\ Removed' = Removed + 1
    /\ pc' = "cleanup"
    /\ UNCHANGED <<prog, body, term, CallsToErase, CB, Slice, Preds>>

\* eraseDirectCheckCall, when the report block could not be bypassed.
EraseDirect ==
    /\ pc = "bypass"
    /\ ~canBypass(CB)
    /\ ClassOf(CB) = "check"
    /\ UseEmpty(CB)
    /\ body' = WithoutInst(CB)
    /\ Removed' = Removed + 1
    /\ pc' = "dead"
    /\ UNCHANGED <<prog, blocks, term, incoming, CallsToErase, CB, Slice, Preds>>

\* An invoke, or a call whose value is used: the check stays.
Refuse ==
    /\ pc = "bypass"
    /\ ~canBypass(CB)
    /\ ClassOf(CB) # "check" \/ ~UseEmpty(CB)
    /\ pc' = "next"
    /\ UNCHANGED <<prog, ir, CallsToErase, CB, Slice, Preds, Removed>>

-----------------------------------------------------------------------------
(* Dead code *)

\* Mutant: uses outside the slice do not keep an instruction.
canEraseInstruction_Used(i) ==
    i \in Slice.insts \cap Live /\ ClassOf(i) \notin {"invoke", "asm"}

canEraseInstruction(i) ==
    /\ i \in Slice.insts \cap Live
    /\ ClassOf(i) \notin {"invoke", "asm"}
    /\ UseEmpty(i)

\* eraseDeadSliceInstructions, one instruction.  One erased in an earlier
\* round is skipped: its parent link was cleared when it was unlinked.
EraseDead(i) ==
    /\ pc = "dead"
    /\ canEraseInstruction(i)
    /\ body' = WithoutInst(i)
    /\ UNCHANGED <<prog, blocks, term, incoming, pc, CallsToErase, CB, Slice, Preds,
                   Removed>>

SliceErased ==
    /\ pc = "dead"
    /\ \A i \in Live : ~canEraseInstruction(i)
    /\ pc' = "cleanup"
    /\ UNCHANGED <<prog, ir, CallsToErase, CB, Slice, Preds, Removed>>

isInstructionTriviallyDead(i) == ClassOf(i) \in {"pure", "load", "phi"} /\ UseEmpty(i)

\* cleanupDeadInstructions, one instruction.
CleanUp(i) ==
    /\ pc \in {"cleanup", "lastcleanup"}
    /\ i \in Live
    /\ isInstructionTriviallyDead(i)
    /\ body' = WithoutInst(i)
    /\ UNCHANGED <<prog, blocks, term, incoming, pc, CallsToErase, CB, Slice, Preds,
                   Removed>>

\* EliminateUnreachableBlocks, the first half of simplifyCFG.
EliminateUnreachableBlocks ==
    /\ pc \in {"cleanup", "lastcleanup"}
    /\ \A i \in Live : ~isInstructionTriviallyDead(i)
    /\ blocks' = blocks \cap Reachable
    /\ incoming' = [i \in DOMAIN incoming |->
                       [p \in DOMAIN incoming[i] \cap (Reachable \cup {None}) |->
                           incoming[i][p]]]
    /\ pc' = IF pc = "cleanup" THEN "merge" ELSE "lastmerge"
    /\ UNCHANGED <<prog, body, term, CallsToErase, CB, Slice, Preds, Removed>>

\* Mutant: the predecessor may have other successors.
canMerge_AnyPred(b) ==
    /\ b # EntryBlock
    /\ \E p \in blocks \ {b} : predecessors(b) = {p}

\* MergeBlockIntoPredecessor applies: a unique predecessor with b as its
\* unique successor.
canMerge(b) ==
    /\ b # EntryBlock
    /\ \E p \in blocks \ {b} : predecessors(b) = {p} /\ Succs(p) = {b} /\ term[p].op # "invoke"

\* A phi of b is folded to its only value: it stays as a name for that value,
\* entered under None.  The phis behind b name p instead of b.
Merge(b) ==
    /\ pc \in {"merge", "lastmerge"}
    /\ b \in blocks
    /\ canMerge(b)
    /\ LET p == CHOOSE p \in blocks : predecessors(b) = {p}
       IN  /\ blocks' = blocks \ {b}
           /\ body' = [body EXCEPT ![p] = @ \o body[b]]
           /\ term' = [term EXCEPT ![p] = term[b]]
           /\ incoming' = [i \in DOMAIN incoming |->
                  IF i \in InstsOf(b) /\ p \in DOMAIN incoming[i]
                  THEN [q \in {None} |-> incoming[i][p]]
                  ELSE IF b \in DOMAIN incoming[i]
                  THEN [q \in (DOMAIN incoming[i] \ {b}) \cup {p} |->
                           incoming[i][IF q = p THEN b ELSE q]]
                  ELSE incoming[i]]
    /\ UNCHANGED <<prog, pc, CallsToErase, CB, Slice, Preds, Removed>>

Merged ==
    /\ pc \in {"merge", "lastmerge"}
    /\ \A b \in blocks : ~canMerge(b)
    /\ pc' = IF pc = "merge" THEN "next" ELSE "done"
    /\ UNCHANGED <<prog, ir, CallsToErase, CB, Slice, Preds, Removed>>

\* The loop is over: one more cleanup and simplification.
LastCleanup ==
    /\ pc = "next"
    /\ CallsToErase = {}
    /\ pc' = "lastcleanup"
    /\ UNCHANGED <<prog, ir, CallsToErase, CB, Slice, Preds, Removed>>

\* The module is handed back.
Return ==
    /\ pc = "done"
    /\ UNCHANGED vars

Next ==
    \/ \E i \in Insts : TakeCall(i) \/ EraseDead(i) \/ CleanUp(i)
    \/ StartBypass
    \/ \E p \in Blocks : Redirect(p)
    \/ DeleteReportBlock
    \/ EraseDirect
    \/ Refuse
    \/ SliceErased
    \/ EliminateUnreachableBlocks
    \/ \E b \in Blocks : Merge(b)
    \/ Merged
    \/ LastCleanup
    \/ Return

Spec == Init /\ [][Next]_vars

-----------------------------------------------------------------------------
(* The types of the state: a redirected branch of bypassReportBlock always  *)
(* has a block to go to.                                                    *)
TypeOK ==
    /\ \A i \in Insts : ClassOf(i) \in InstClasses
    /\ blocks \subseteq Blocks
    /\ body \in [Blocks -> Seq(Insts)]
    /\ term \in [Blocks -> Terminators]
    /\ pc \in {"next", "bypass", "redirect", "dead", "cleanup", "merge",
               "lastcleanup", "lastmerge", "done"}
    /\ CallsToErase \subseteq prog.marked
    /\ CB \in Insts \cup {None}
    /\ Slice.insts \subseteq Insts /\ Slice.blocks \subseteq Blocks
    /\ Preds \subseteq Blocks
    /\ Removed \in Nat

\* The removal of a check is not under way.
Between == pc \in {"next", "lastcleanup", "lastmerge", "done"}

(* Between two removals the function is well formed: it has its entry       *)
(* block, branches lead to blocks that exist, values that are used are      *)
(* computed, and every phi has one entry per predecessor.                   *)
WellFormedIR ==
    Between =>
        /\ EntryBlock \in blocks
        /\ \A b \in blocks : Succs(b) \subseteq blocks
        /\ \A i \in Live : Operands(i) \subseteq Live
        /\ \A b \in blocks : term[b].cond \in Live \cup {None}
        /\ \A b \in blocks : \A i \in InstsOf(b) : ClassOf(i) = "phi" =>
              DOMAIN incoming[i] \in {predecessors(b), {None}}

\* What the program does: its effects, and the checks that are not marked.
Code0(b) == ToSet(prog.body[b])
Observable ==
    {i \in UNION {Code0(b) : b \in prog.blocks} :
        ClassOf(i) \in {"effect", "runtime"} \/ (isCheck(i) /\ i \notin prog.marked)}

\* A function as sanitizers leave it: every block can be reached, the entry
\* does something of its own, runtime calls are made beside the work they
\* serve, and a check or a runtime call computes nothing that is used.
AsInstrumented(p) ==
    /\ p.blocks \subseteq ReachFrom(p.term, {EntryBlock})
    /\ \E i \in ToSet(p.body[EntryBlock]) : p.op[i] = "effect"
    /\ \A b \in p.blocks : (\E i \in ToSet(p.body[b]) : p.op[i] = "runtime") =>
                              \E i \in ToSet(p.body[b]) : p.op[i] = "effect"
    /\ \A i \in Insts : p.op[i] = "phi" => i \in DOMAIN p.incoming
    /\ \A v \in Insts : p.op[v] \in {"check", "invoke", "runtime"} =>
          /\ \A i \in Insts : v \notin p.uses[i]
          /\ \A i \in DOMAIN p.incoming : \A q \in DOMAIN p.incoming[i] : p.incoming[i][q] # v
          /\ \A b \in Blocks : p.term[b].cond # v

\* Blocks without an effect stand aside: a value computed in one is used there
\* or by a phi on the way out of it, and a block with phis behind one is behind
\* each of its predecessors as well.
IdleBlocksAside(p) ==
    \A R \in p.blocks : (\A i \in ToSet(p.body[R]) : p.op[i] # "effect") =>
        /\ \A b \in p.blocks \ {R} : \A i \in ToSet(p.body[R]) :
              /\ p.term[b].cond # i
              /\ \A j \in ToSet(p.body[b]) :
                    IF p.op[j] = "phi"
                    THEN \A q \in DOMAIN p.incoming[j] \ {R} : p.incoming[j][q] # i
                    ELSE i \notin p.uses[j]
        /\ \A J \in ToSet(p.term[R].to) :
              (\E j \in ToSet(p.body[J]) : p.op[j] = "phi") =>
                  \A b \in p.blocks : R \in ToSet(p.term[b].to) => J \in ToSet(p.term[b].to)

(* Removing slices takes away no effect of the program and no check that    *)
(* was to be kept (isSanitizerOnlyBlock, canEraseInstruction, simplifyCFG). *)
KeptCodeSurvives == Observable \subseteq Live

\* y can be executed after x, in the code B with terminators t.
CanFollow(B, t, x, y) ==
    LET bx == CHOOSE b \in DOMAIN B : x \in ToSet(B[b])
        by == CHOOSE b \in DOMAIN B : y \in ToSet(B[b])
        At(b, i) == CHOOSE n \in DOMAIN B[b] : B[b][n] = i
    IN  \/ by \in ReachFrom(t, ToSet(t[bx].to))
        \/ bx = by /\ At(bx, x) < At(by, y)

(* What can be executed after what is as before: redirecting branches and   *)
(* merging blocks neither opens nor closes a way between two pieces of the  *)
(* program that stay.                                                       *)
FlowPreserved ==
    Between =>
        \A x, y \in Observable \cap Live :
            CanFollow([b \in blocks |-> body[b]], term, x, y)
              <=> CanFollow([b \in prog.blocks |-> prog.body[b]], prog.term, x, y)

(* Once bypassReportBlock has redirected the predecessors it had collected, *)
(* the report block has none: it never gives up half way, with some         *)
(* branches already redirected.                                             *)
BypassCompletes ==
    pc = "redirect" => predecessors(BlockOf(CB)) = Preds

\* What j uses, apart from what it is given on the way from block R.
OperandsBut(j, R) ==
    IF ClassOf(j) = "phi"
    THEN {incoming[j][q] : q \in DOMAIN incoming[j] \ {R}}
    ELSE Operands(j)

(* A bypassed block can be spared: no value it computes is used by an       *)
(* instruction or a branch elsewhere, and a block that gets a predecessor   *)
(* by the bypass has no phi that would need an entry for it.                *)
(* bypassReportBlock tests neither.                                         *)
BypassIsClean ==
    LET R == BlockOf(CB) IN
    pc = "redirect" =>
        /\ \A i \in InstsOf(R) :
              /\ \A b \in blocks \ {R} : term[b].cond # i
              /\ \A j \in Live \ InstsOf(R) : i \notin OperandsBut(j, R)
        /\ \A p \in Preds : p \notin predecessors(SafeSucc(p, R)) =>
              \A j \in InstsOf(SafeSucc(p, R)) : ClassOf(j) = "phi" => DOMAIN incoming[j] = {None}

(* The count is the number of marked checks that are gone, and the loop     *)
(* never takes up a call that is no longer in the function.                 *)
RemovedIsGone ==
    /\ CallsToErase \subseteq Live
    /\ Between => Removed = Cardinality(prog.marked \ Live)

\* What is left to do: calls, the phase of the removal, code to work off.
PhaseLeft ==
    CASE pc = "bypass" -> 8
      [] pc \in {"redirect", "dead"} -> 7
      [] pc = "cleanup" -> 6
      [] pc = "merge" -> 5
      [] pc = "next" -> 4
      [] pc = "lastcleanup" -> 3
      [] pc = "lastmerge" -> 2
      [] pc = "done" -> 1
CodeLeft == Cardinality(Live) + Cardinality(blocks) + Cardinality(Preds)
Width == Cardinality(Insts) + 2 * Cardinality(Blocks) + 1

Rank == (10 * Cardinality(CallsToErase) + PhaseLeft) * Width + CodeLeft

(* Every step leaves less to do, so the while loops of                      *)
(* eraseDeadSliceInstructions, cleanupDeadInstructions and simplifyCFG, and *)
(* with them the removal of every check, come to an end in any order of the *)
(* calls.                                                                   *)
LoopsShrink == [][Rank' < Rank]_vars

(* A block is bypassed only if the values it computes are used nowhere else *)
(* than in the slice of the check.                                          *)
UsesStayInside ==
    [][\A b \in blocks \ blocks' : \A i \in InstsOf(b) :
          pc = "redirect" => UserInsts(i) \subseteq Slice.insts]_vars

=============================================================================
