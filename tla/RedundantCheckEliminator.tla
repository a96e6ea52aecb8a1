---------------------- MODULE RedundantCheckEliminator ----------------------
(* RedundantCheckEliminator::eliminateRedundantChecks: group the core       *)
(* checks of the module by variable, walk every group with the flags of     *)
(* ReadRetentionState, mark the READ checks it does not keep, then hand the *)
(* marked calls one by one to CheckSliceRemover.                            *)
(*                                                                          *)
(* Two orders are not fixed by the code: the groups are keyed by pointer    *)
(* values (VariableKeyLess), and the marked calls are read out of a         *)
(* SmallPtrSet.  Both are nondeterministic here.  Whether the slice of a    *)
(* check can be removed depends on the IR around it; that is the subject of *)
(* CheckSliceRemover, and here removeCheckSlice may answer either way.      *)
EXTENDS CheckGroups, FiniteSets

CONSTANT NoGroup   \* no group is being walked

VARIABLES
    code,              \* the module: what each call instruction is
    pc,                \* "group", "mark", "erase" or "done"
    next,              \* groupChecksByVariable: the next call to look at
    Groups,            \* per key, the checks in the order they were found
    unvisited,         \* keys the loop over Groups has not reached
    group,             \* the key being walked, or NoGroup
    pos,               \* the next element of that group
    Retention,         \* its ReadRetentionState
    MarkedCalls,
    RemovalCandidates, \* what dumpRemovalCandidates will list
    CallsToErase,      \* marked calls not yet handed to the slice remover
    Erased,            \* calls that are gone from the module
    Removed            \* the count eraseMarkedChecks returns

vars == <<code, pc, next, Groups, unvisited, group, pos, Retention, MarkedCalls,
          RemovalCandidates, CallsToErase, Erased, Removed>>

ASSUME NoGroupAssumption == NoGroup \notin VariableKeys

groupingVars == <<next, Groups>>
walkVars == <<unvisited, group, pos, Retention, MarkedCalls, RemovalCandidates>>
eraseVars == <<CallsToErase, Erased, Removed>>

-----------------------------------------------------------------------------
(* ReadRetentionState *)

RetentionStates == [SeenAnyCheck : BOOLEAN, KeepNextRead : BOOLEAN]

FreshRetention == [SeenAnyCheck |-> FALSE, KeepNextRead |-> FALSE]

\* Mutant: an UNKNOWN check is no barrier.
afterCheck_UnknownIgnored(R, Type) ==
    CASE Type = "UNKNOWN" -> R
      [] Type = "WRITE" -> [SeenAnyCheck |-> TRUE, KeepNextRead |-> TRUE]
      [] Type = "READ" -> [SeenAnyCheck |-> TRUE, KeepNextRead |-> FALSE]

\* The flags after shouldKeep(Type).
afterCheck(R, Type) ==
    CASE Type = "UNKNOWN" -> [R EXCEPT !.KeepNextRead = TRUE]
      [] Type = "WRITE" -> [SeenAnyCheck |-> TRUE, KeepNextRead |-> TRUE]
      [] Type = "READ" -> [SeenAnyCheck |-> TRUE, KeepNextRead |-> FALSE]

\* Mutant: the first check of a group is not special.
shouldKeep_NoFirst(R, Type) == Type # "READ" \/ R.KeepNextRead

\* The answer of shouldKeep(Type).
shouldKeep(R, Type) == Type # "READ" \/ ~R.SeenAnyCheck \/ R.KeepNextRead

-----------------------------------------------------------------------------
(* groupChecksByVariable *)

Init ==
    /\ code \in [Sites -> Calls]
    /\ pc = "group"
    /\ next = 1
    /\ Groups = [k \in VariableKeys |-> << >>]
    /\ unvisited = {}
    /\ group = NoGroup
    /\ pos = 1
    /\ Retention = FreshRetention
    /\ MarkedCalls = {}
    /\ RemovalCandidates = << >>
    /\ CallsToErase = {}
    /\ Erased = {}
    /\ Removed = 0

\* Mutant: the call after the one that was classified is put into the group.
Collected_OffByOne(gs, i) ==
    LET c == code[i] IN
    IF Grouped(c) THEN [gs EXCEPT ![KeyOf(c)] = Append(gs[KeyOf(c)], i + 1)] ELSE gs

\* The groups once call i has been looked at.
Collected(gs, i) ==
    LET c == code[i] IN
    IF Grouped(c) THEN [gs EXCEPT ![KeyOf(c)] = Append(gs[KeyOf(c)], i)] ELSE gs

ScanCall ==
    /\ pc = "group"
    /\ next <= NumCalls
    /\ Groups' = Collected(Groups, next)
    /\ next' = next + 1
    /\ UNCHANGED <<code, pc, walkVars, eraseVars>>

GroupsComputed ==
    /\ pc = "group"
    /\ next > NumCalls
    /\ unvisited' = {k \in VariableKeys : Groups[k] # << >>}
    /\ pc' = "mark"
    /\ UNCHANGED <<code, groupingVars, group, pos, Retention, MarkedCalls,
                   RemovalCandidates, eraseVars>>

-----------------------------------------------------------------------------
(* The loop over the groups, and the loop over one group *)

\* Mutant: one ReadRetentionState for all groups.
EnterGroup_SharedState(k) ==
    /\ pc = "mark"
    /\ group = NoGroup
    /\ k \in unvisited
    /\ unvisited' = unvisited \ {k}
    /\ group' = k
    /\ pos' = 1
    /\ UNCHANGED <<code, pc, groupingVars, Retention, MarkedCalls,
                   RemovalCandidates, eraseVars>>

EnterGroup(k) ==
    /\ pc = "mark"
    /\ group = NoGroup
    /\ k \in unvisited
    /\ unvisited' = unvisited \ {k}
    /\ group' = k
    /\ pos' = 1
    /\ Retention' = FreshRetention
    /\ UNCHANGED <<code, pc, groupingVars, MarkedCalls, RemovalCandidates,
                   eraseVars>>

\* Mutant: the loop variable is not advanced.
KeepCheck_NoAdvance ==
    /\ pc = "mark"
    /\ group # NoGroup
    /\ pos <= Len(Groups[group])
    /\ LET type == code[Groups[group][pos]].type
       IN  /\ shouldKeep(Retention, type)
           /\ Retention' = afterCheck(Retention, type)
    /\ UNCHANGED <<code, pc, groupingVars, unvisited, group, pos, MarkedCalls,
                   RemovalCandidates, eraseVars>>

KeepCheck ==
    /\ pc = "mark"
    /\ group # NoGroup
    /\ pos <= Len(Groups[group])
    /\ LET type == code[Groups[group][pos]].type
       IN  /\ shouldKeep(Retention, type)
           /\ Retention' = afterCheck(Retention, type)
    /\ pos' = pos + 1
    /\ UNCHANGED <<code, pc, groupingVars, unvisited, group, MarkedCalls,
                   RemovalCandidates, eraseVars>>

\* shouldKeep leaves the flags alone when it answers no.
MarkForRemoval ==
    /\ pc = "mark"
    /\ group # NoGroup
    /\ pos <= Len(Groups[group])
    /\ LET i == Groups[group][pos]
       IN  /\ ~shouldKeep(Retention, code[i].type)
           /\ MarkedCalls' = MarkedCalls \cup {i}
           /\ RemovalCandidates' = IF i \in MarkedCalls
                                   THEN RemovalCandidates
                                   ELSE Append(RemovalCandidates, i)
    /\ pos' = pos + 1
    /\ UNCHANGED <<code, pc, groupingVars, unvisited, group, Retention, eraseVars>>

LeaveGroup ==
    /\ pc = "mark"
    /\ group # NoGroup
    /\ pos > Len(Groups[group])
    /\ group' = NoGroup
    /\ UNCHANGED <<code, pc, groupingVars, unvisited, pos, Retention,
                   MarkedCalls, RemovalCandidates, eraseVars>>

GroupsVisited ==
    /\ pc = "mark"
    /\ group = NoGroup
    /\ unvisited = {}
    /\ CallsToErase' = MarkedCalls
    /\ pc' = "erase"
    /\ UNCHANGED <<code, groupingVars, walkVars, Erased, Removed>>

-----------------------------------------------------------------------------
(* eraseMarkedChecks *)

\* Mutant: a refused removal is counted.
RemoveRefused_Counted(i) ==
    /\ pc = "erase"
    /\ i \in CallsToErase
    /\ CallsToErase' = CallsToErase \ {i}
    /\ Removed' = Removed + 1
    /\ UNCHANGED <<code, pc, groupingVars, walkVars, Erased>>

RemoveCheckSlice(i) ==
    /\ pc = "erase"
    /\ i \in CallsToErase
    /\ CallsToErase' = CallsToErase \ {i}
    /\ Erased' = Erased \cup {i}
    /\ Removed' = Removed + 1
    /\ UNCHANGED <<code, pc, groupingVars, walkVars>>

\* removeCheckSlice returned false: the check stays.
RemoveRefused(i) ==
    /\ pc = "erase"
    /\ i \in CallsToErase
    /\ CallsToErase' = CallsToErase \ {i}
    /\ UNCHANGED <<code, pc, groupingVars, walkVars, Erased, Removed>>

\* The final cleanup and simplifyCFG do not touch checks; then it returns.
Return ==
    /\ pc = "erase"
    /\ CallsToErase = {}
    /\ pc' = "done"
    /\ UNCHANGED <<code, groupingVars, walkVars, eraseVars>>

Next ==
    \/ ScanCall
    \/ GroupsComputed
    \/ \E k \in VariableKeys : EnterGroup(k)
    \/ KeepCheck
    \/ MarkForRemoval
    \/ LeaveGroup
    \/ GroupsVisited
    \/ \E i \in Sites : RemoveCheckSlice(i) \/ RemoveRefused(i)
    \/ Return

\* The pass runs to its end: one thread, and no step can block.
Spec == Init /\ [][Next]_vars /\ WF_vars(Next)

-----------------------------------------------------------------------------
(* The types of the state: groups hold positions of calls, in any phase of  *)
(* eliminateRedundantChecks.                                                *)
TypeOK ==
    /\ code \in [Sites -> Calls]
    /\ pc \in {"group", "mark", "erase", "done"}
    /\ next \in 1..(NumCalls + 1)
    /\ Groups \in [VariableKeys -> Seq(Sites)]
    /\ unvisited \subseteq VariableKeys
    /\ group \in VariableKeys \cup {NoGroup}
    /\ pos \in Nat \ {0}
    /\ Retention \in RetentionStates
    /\ MarkedCalls \subseteq Sites
    /\ RemovalCandidates \in Seq(Sites)
    /\ CallsToErase \subseteq Sites
    /\ Erased \subseteq Sites
    /\ Removed \in Nat

(* Whatever the order of the groups, a check is marked only if it is a READ *)
(* directly after a READ of its group in the layout of the module, and when *)
(* the marking is over every such check is (the policy of                   *)
(* ReadRetentionState::shouldKeep, without its flags).                      *)
MarkedIsPolicy ==
    /\ \A i \in MarkedCalls : Redundant(code, i)
    /\ pc \in {"erase", "done"} => \A i \in Sites : Redundant(code, i) => i \in MarkedCalls

\* w stands for i: a READ check of the same variable, earlier in the layout,
\* that is not marked, with nothing but READ checks of that variable between.
StandsFor(w, i) ==
    /\ w \in Earlier(code, i)
    /\ code[w].type = "READ"
    /\ w \notin MarkedCalls
    /\ \A q \in Earlier(code, i) : q > w => code[q].type = "READ"

(* Every marked check has a check that stays and stands for it: runs of     *)
(* deleted READs always lead back to a kept READ of the variable, with no   *)
(* WRITE or UNKNOWN check in between, and no later marking or erasing takes *)
(* that one away.                                                           *)
KeptWitness ==
    \A i \in MarkedCalls : \E w \in Sites : StandsFor(w, i) /\ w \notin Erased

(* The number the pass reports is the number of checks that are gone, each  *)
(* listed once among the removal candidates; a refused slice leaves its     *)
(* check in place.                                                          *)
RemovedIsErased ==
    /\ Removed = Cardinality(Erased)
    /\ Erased \subseteq MarkedCalls
    /\ Len(RemovalCandidates) = Cardinality(MarkedCalls)

\* The elimination returns.
Termination == <>(pc = "done")

Policy == INSTANCE RetentionPolicy
          WITH marked <- MarkedCalls, erased <- Erased, finished <- (pc = "done")

(* The scan with its flags implements the order-free policy.                *)
ImplementsPolicy == Policy!PolicySpec

=============================================================================
