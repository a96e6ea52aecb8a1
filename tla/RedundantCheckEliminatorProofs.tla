------------------- MODULE RedundantCheckEliminatorProofs -------------------
(* Proofs about RedundantCheckEliminator, for every module, every set of    *)
(* core checks and every setting of the grouping options.                   *)
EXTENDS RedundantCheckEliminator, FiniteSetTheorems, TLAPS

-----------------------------------------------------------------------------
(* The inductive invariant.  The policy is stated on the layout of the      *)
(* module, the code decides with two flags along a group: the invariant     *)
(* says how groups follow the layout, what the flags remember of the        *)
(* element before, and which elements have been decided.                    *)

IsRead(i) == code[i].type = "READ"

\* The element j of group s is a READ directly after a READ.
SeqRedundant(s, j) == j > 1 /\ IsRead(s[j]) /\ IsRead(s[j - 1])

\* Element j of s comes after a run of READs whose first is kept.
SeqWitness(s, j) ==
    \E w \in 1..(j - 1) :
        /\ ~SeqRedundant(s, w)
        /\ \A q \in w..(j - 1) : IsRead(s[q])

\* A group holds, in layout order, the grouped calls of its key scanned so far.
GroupSound ==
    \A k \in VariableKeys : \A j \in 1..Len(Groups[k]) :
        /\ Groups[k][j] < next
        /\ Grouped(code[Groups[k][j]])
        /\ KeyOf(code[Groups[k][j]]) = k

GroupSorted ==
    \A k \in VariableKeys : \A j1, j2 \in 1..Len(Groups[k]) :
        j1 < j2 => Groups[k][j1] < Groups[k][j2]

GroupComplete ==
    \A i \in Sites : i < next /\ Grouped(code[i])
        => \E j \in 1..Len(Groups[KeyOf(code[i])]) : Groups[KeyOf(code[i])][j] = i

\* The loop has already decided about element j of group k.
Decided(k, j) ==
    \/ pc \in {"erase", "done"}
    \/ pc = "mark" /\ k = group /\ j < pos
    \/ pc = "mark" /\ k # group /\ k \notin unvisited

PhaseInv ==
    /\ pc # "group" => next = NumCalls + 1
    /\ pc = "group" => MarkedCalls = {}
    /\ pc # "mark" => group = NoGroup
    /\ pc \in {"group", "mark"} => Erased = {} /\ CallsToErase = {}
    /\ pc \in {"erase", "done"} => unvisited = {}
    /\ pc = "mark" /\ group # NoGroup =>
          group \notin unvisited /\ pos <= Len(Groups[group]) + 1
    /\ pc = "mark" => \A k \in unvisited : Groups[k] # << >>

\* What the flags remember.
FlagsInv ==
    pc = "mark" /\ group # NoGroup =>
        /\ pos = 1 => Retention = FreshRetention
        /\ pos > 1 =>
              IF IsRead(Groups[group][pos - 1])
              THEN /\ Retention.SeenAnyCheck /\ ~Retention.KeepNextRead
                   /\ SeqWitness(Groups[group], pos)
              ELSE Retention.KeepNextRead

MarkInv ==
    /\ \A i \in MarkedCalls : Grouped(code[i])
    /\ \A k \in VariableKeys : \A j \in 1..Len(Groups[k]) :
          /\ Groups[k][j] \in MarkedCalls <=> Decided(k, j) /\ SeqRedundant(Groups[k], j)
          /\ Groups[k][j] \in MarkedCalls => SeqWitness(Groups[k], j)

EraseInv ==
    /\ CallsToErase \subseteq MarkedCalls
    /\ Erased \subseteq MarkedCalls
    /\ CallsToErase \cap Erased = {}
    /\ Removed = Cardinality(Erased)
    /\ Len(RemovalCandidates) = Cardinality(MarkedCalls)

IInv ==
    /\ TypeOK
    /\ GroupSound /\ GroupSorted /\ GroupComplete
    /\ PhaseInv
    /\ FlagsInv
    /\ MarkInv
    /\ EraseInv

-----------------------------------------------------------------------------
(* Facts about keys, groups and finite sets of calls. *)

\* The key of a call that may occur in a module names a group.
LEMMA KeyIsGroup ==
    ASSUME NEW c \in Calls
    PROVE  KeyOf(c) \in VariableKeys
  BY DEF KeyOf, VariableKeys

\* Any set of calls of the module is finite (the counts of
\* eraseMarkedChecks are cardinalities).
LEMMA SitesFinite ==
    ASSUME NEW S, S \subseteq Sites
    PROVE  IsFiniteSet(S)
<1>1. NumCalls \in Int /\ 1 \in Int
  BY CallsAssumption
<1>2. IsFiniteSet(1..NumCalls)
  BY <1>1, FS_Interval
<1> QED
  BY <1>2, FS_Subset DEF Sites

\* push_back onto a group: the old elements stay, the new one is last.
LEMMA AppendIndex ==
    ASSUME NEW S, NEW s \in Seq(S), NEW e \in S, NEW t, t = Append(s, e)
    PROVE  /\ Len(s) \in Nat /\ Len(t) = Len(s) + 1
           /\ \A j \in 1..Len(s) : t[j] = s[j]
           /\ t[Len(s) + 1] = e
           /\ \A j \in 1..Len(t) : j \in 1..Len(s) \/ j = Len(s) + 1
  OBVIOUS

-----------------------------------------------------------------------------
(* Initial states and type correctness. *)

\* The fresh state of the eliminator satisfies the inductive invariant.
LEMMA InitInv == Init => IInv
<1> SUFFICES ASSUME Init PROVE IInv
  OBVIOUS
<1> USE DEF Init
<1>1. TypeOK
  BY CallsAssumption DEF TypeOK, RetentionStates, FreshRetention, Sites
<1>2. GroupSound /\ GroupSorted
  BY DEF GroupSound, GroupSorted
<1>3. GroupComplete
  BY CallsAssumption DEF GroupComplete, Sites
<1>4. PhaseInv /\ FlagsInv
  BY NoGroupAssumption DEF PhaseInv, FlagsInv
<1>5. MarkInv
  BY DEF MarkInv
<1>6. EraseInv
  BY FS_EmptySet DEF EraseInv
<1> QED
  BY <1>1, <1>2, <1>3, <1>4, <1>5, <1>6 DEF IInv

\* Every step of groupChecksByVariable, of the loops over groups and of
\* eraseMarkedChecks keeps the variables in their types.
LEMMA TypeStep == TypeOK /\ [Next]_vars => TypeOK'
<1> SUFFICES ASSUME TypeOK, [Next]_vars PROVE TypeOK'
  OBVIOUS
<1> USE CallsAssumption DEF TypeOK
<1> USE DEF groupingVars, walkVars, eraseVars
<1>1. CASE ScanCall
  <2>1. next \in Sites /\ code[next] \in Calls
    BY <1>1 DEF ScanCall, Sites
  <2>2. KeyOf(code[next]) \in VariableKeys
    BY <2>1, KeyIsGroup
  <2>3. Groups' \in [VariableKeys -> Seq(Sites)]
    BY <1>1, <2>1, <2>2 DEF ScanCall, Collected
  <2>4. next' \in 1..(NumCalls + 1)
    BY <1>1 DEF ScanCall
  <2> QED
    BY <1>1, <2>3, <2>4 DEF ScanCall
<1>2. CASE GroupsComputed
  BY <1>2 DEF GroupsComputed
<1>3. ASSUME NEW k \in VariableKeys, EnterGroup(k) PROVE TypeOK'
  BY <1>3 DEF EnterGroup, FreshRetention, RetentionStates
<1>4. CASE KeepCheck
  <2>1. /\ group \in VariableKeys
        /\ pos \in 1..Len(Groups[group])
    BY <1>4 DEF KeepCheck
  <2>2. code[Groups[group][pos]] \in CallDescription
    BY <2>1
  <2>3. code[Groups[group][pos]].type \in AccessTypes
    BY <2>2 DEF CallDescription
  <2>4. Retention' \in RetentionStates
    BY <1>4, <2>3 DEF KeepCheck, afterCheck, AccessTypes, RetentionStates
  <2> QED
    BY <1>4, <2>4 DEF KeepCheck
<1>5. CASE MarkForRemoval
  <2>1. /\ group \in VariableKeys
        /\ pos \in 1..Len(Groups[group])
    BY <1>5 DEF MarkForRemoval
  <2>2. Groups[group][pos] \in Sites
    BY <2>1
  <2> QED
    BY <1>5, <2>2 DEF MarkForRemoval
<1>6. CASE LeaveGroup
  BY <1>6 DEF LeaveGroup
<1>7. CASE GroupsVisited
  BY <1>7 DEF GroupsVisited
<1>8. ASSUME NEW i \in Sites, RemoveCheckSlice(i) PROVE TypeOK'
  BY <1>8 DEF RemoveCheckSlice
<1>9. ASSUME NEW i \in Sites, RemoveRefused(i) PROVE TypeOK'
  BY <1>9 DEF RemoveRefused
<1>10. CASE Return
  BY <1>10 DEF Return
<1>11. CASE UNCHANGED vars
  BY <1>11 DEF vars
<1> QED
  BY <1>1, <1>2, <1>3, <1>4, <1>5, <1>6, <1>7, <1>8, <1>9, <1>10, <1>11 DEF Next

(* In every behaviour the eliminator's variables have their types; in       *)
(* particular a group is only ever indexed inside its bounds.               *)
THEOREM TypeCorrect == Spec => []TypeOK
<1>1. Init => TypeOK
  BY InitInv DEF IInv
<1> QED
  BY <1>1, TypeStep, PTL DEF Spec

-----------------------------------------------------------------------------
(* The inductive step, one lemma per phase. *)

\* Steps that leave the module and the groups alone leave their relation
\* alone: after groupChecksByVariable the groups are memoised.
LEMMA GroupFrame ==
    ASSUME GroupSound, GroupSorted, GroupComplete, UNCHANGED <<code, next, Groups>>
    PROVE  GroupSound' /\ GroupSorted' /\ GroupComplete'
  BY DEF GroupSound, GroupSorted, GroupComplete

\* Scanning one more call appends it to its group and to no other.
LEMMA ScanStep ==
    ASSUME IInv, ScanCall
    PROVE  IInv'
<1> USE CallsAssumption
<1>t. TypeOK /\ TypeOK'
  BY TypeStep DEF IInv, Next
<1>1. /\ pc = "group" /\ next \in Sites /\ next' = next + 1
      /\ code' = code /\ pc' = pc /\ code[next] \in Calls
  BY <1>t DEF ScanCall, TypeOK, Sites
<1> DEFINE K == KeyOf(code[next])
<1>2. K \in VariableKeys
  BY <1>1, KeyIsGroup
<1>3. \A k \in VariableKeys :
         Groups'[k] = IF Grouped(code[next]) /\ k = K
                      THEN Append(Groups[k], next) ELSE Groups[k]
  BY <1>t, <1>2 DEF ScanCall, Collected, TypeOK
<1>4. \A k \in VariableKeys : Groups[k] \in Seq(Sites) /\ Groups'[k] \in Seq(Sites)
  BY <1>t DEF TypeOK
<1>5. GroupSound'
  <2> SUFFICES ASSUME NEW k \in VariableKeys, NEW j \in 1..Len(Groups'[k])
               PROVE  /\ Groups'[k][j] < next + 1
                      /\ Grouped(code[Groups'[k][j]])
                      /\ KeyOf(code[Groups'[k][j]]) = k
    BY <1>1 DEF GroupSound
  <2>1. CASE j \in 1..Len(Groups[k]) /\ Groups'[k][j] = Groups[k][j]
    <3>1. Groups[k][j] \in Sites
      BY <2>1, <1>4
    <3> QED
      BY <2>1, <3>1, <1>1 DEF IInv, GroupSound, Sites
  <2>2. CASE Groups'[k][j] = next /\ Grouped(code[next]) /\ k = K
    BY <2>2, <1>1 DEF Sites
  <2>3. CASE Groups'[k] = Groups[k]
    BY <2>1, <2>3
  <2>4. CASE Grouped(code[next]) /\ k = K /\ Groups'[k] = Append(Groups[k], next)
    <3>1. j \in 1..Len(Groups[k]) => Groups'[k][j] = Groups[k][j]
      BY <2>4, <1>1, <1>4, AppendIndex
    <3>2. j \in 1..Len(Groups[k]) \/ Groups'[k][j] = next
      BY <2>4, <1>1, <1>4, AppendIndex
    <3> QED
      BY <3>1, <3>2, <2>1, <2>2, <2>4
  <2> QED
    BY <1>3, <2>3, <2>4
<1>6. GroupSorted'
  <2> SUFFICES ASSUME NEW k \in VariableKeys,
                      NEW j1 \in 1..Len(Groups'[k]), NEW j2 \in 1..Len(Groups'[k]),
                      j1 < j2
               PROVE  Groups'[k][j1] < Groups'[k][j2]
    BY DEF GroupSorted
  <2>1. CASE Groups'[k] = Groups[k]
    BY <2>1 DEF IInv, GroupSorted
  <2>2. CASE Groups'[k] = Append(Groups[k], next)
    <3>1. j1 \in 1..Len(Groups[k]) /\ Groups'[k][j1] = Groups[k][j1]
      BY <2>2, <1>4, <1>1
    <3>2. Groups[k][j1] < next
      BY <3>1 DEF IInv, GroupSound
    <3>3. CASE j2 \in 1..Len(Groups[k])
      <4>1. Groups'[k][j2] = Groups[k][j2]
        BY <3>3, <2>2, <1>4, <1>1
      <4> QED
        BY <3>1, <3>3, <4>1 DEF IInv, GroupSorted
    <3>4. CASE j2 = Len(Groups[k]) + 1
      <4>1. Groups'[k][j2] = next
        BY <3>4, <2>2, <1>4, <1>1
      <4> QED
        BY <3>1, <3>2, <4>1
    <3> QED
      BY <3>3, <3>4, <2>2, <1>4, <1>1
  <2> QED
    BY <1>3, <2>1, <2>2
<1>7. GroupComplete'
  <2> SUFFICES ASSUME NEW i \in Sites, i < next + 1, Grouped(code[i])
               PROVE  \E j \in 1..Len(Groups'[KeyOf(code[i])]) :
                         Groups'[KeyOf(code[i])][j] = i
    BY <1>1 DEF GroupComplete
  <2> DEFINE L == KeyOf(code[i])
  <2>1. L \in VariableKeys
    BY <1>t, KeyIsGroup DEF TypeOK
  <2>2. CASE i = next
    <3>1. Groups'[L] = Append(Groups[L], next)
      BY <2>1, <2>2, <1>3
    <3>2. Groups'[L][Len(Groups[L]) + 1] = next /\ Len(Groups'[L]) = Len(Groups[L]) + 1
          /\ Len(Groups[L]) \in Nat
      BY <3>1, <2>1, <1>4, <1>1
    <3>3. Len(Groups[L]) + 1 \in 1..Len(Groups'[L])
      BY <3>2
    <3> QED
      BY <3>2, <3>3, <2>2
  <2>3. CASE i < next
    <3>1. PICK j \in 1..Len(Groups[L]) : Groups[L][j] = i
      BY <2>3 DEF IInv, GroupComplete
    <3>2. j \in 1..Len(Groups'[L]) /\ Groups'[L][j] = Groups[L][j]
      <4>1. CASE Groups'[L] = Groups[L]
        BY <4>1
      <4>2. CASE Groups'[L] = Append(Groups[L], next)
        BY <4>2, <2>1, <1>1, <1>4, AppendIndex
      <4> QED
        BY <4>1, <4>2, <2>1, <1>3
    <3> QED
      BY <3>1, <3>2
  <2> QED
    BY <2>2, <2>3, <1>1 DEF Sites
<1>8. PhaseInv' /\ FlagsInv'
  BY <1>1 DEF IInv, PhaseInv, FlagsInv, ScanCall, walkVars, eraseVars
<1>9. MarkInv'
  BY <1>1 DEF IInv, PhaseInv, MarkInv, Decided, ScanCall, walkVars
<1>10. EraseInv'
  BY DEF IInv, EraseInv, ScanCall, walkVars, eraseVars
<1> QED
  BY <1>t, <1>5, <1>6, <1>7, <1>8, <1>9, <1>10 DEF IInv

\* While module and groups do not change, neither does what is redundant
\* in a group nor what stands for it.
LEMMA SeqFrame ==
    ASSUME UNCHANGED <<code, Groups>>
    PROVE  \A k, j : /\ SeqRedundant(Groups[k], j)' <=> SeqRedundant(Groups[k], j)
                     /\ SeqWitness(Groups[k], j)' <=> SeqWitness(Groups[k], j)
  BY DEF SeqRedundant, SeqWitness, IsRead

\* The groups are complete: the loop over them starts with every group
\* unvisited.
LEMMA GroupsComputedStep ==
    ASSUME IInv, GroupsComputed
    PROVE  IInv'
<1> USE CallsAssumption DEF GroupsComputed, groupingVars, eraseVars
<1>t. TypeOK /\ TypeOK'
  BY TypeStep DEF IInv, Next
<1>1. GroupSound' /\ GroupSorted' /\ GroupComplete'
  BY GroupFrame DEF IInv
<1>2. PhaseInv'
  BY <1>t DEF IInv, PhaseInv, TypeOK
<1>3. FlagsInv' /\ EraseInv'
  BY DEF IInv, PhaseInv, FlagsInv, EraseInv
<1>4. MarkInv'
  <2>1. \A k \in VariableKeys : \A j \in 1..Len(Groups[k]) : ~Decided(k, j)'
    <3> SUFFICES ASSUME NEW k \in VariableKeys, NEW j \in 1..Len(Groups[k])
                 PROVE  ~Decided(k, j)'
      OBVIOUS
    <3>1. Groups[k] # << >>
      BY <1>t DEF TypeOK
    <3> QED
      BY <3>1, NoGroupAssumption DEF Decided, IInv, PhaseInv
  <2>2. MarkedCalls' = {}
    BY DEF IInv, PhaseInv
  <2> QED
    BY <2>1, <2>2 DEF MarkInv
<1> QED
  BY <1>t, <1>1, <1>2, <1>3, <1>4 DEF IInv

\* Entering a group decides about no check yet.
LEMMA EnterGroupStep ==
    ASSUME IInv, NEW g \in VariableKeys, EnterGroup(g)
    PROVE  IInv'
<1> USE DEF EnterGroup, groupingVars, eraseVars
<1>t. TypeOK /\ TypeOK'
  BY TypeStep DEF IInv, Next
<1>1. GroupSound' /\ GroupSorted' /\ GroupComplete'
  BY GroupFrame DEF IInv
<1>2. PhaseInv'
  BY <1>t, NoGroupAssumption DEF IInv, PhaseInv, TypeOK
<1>3. FlagsInv' /\ EraseInv'
  BY DEF IInv, FlagsInv, EraseInv
<1>4. MarkInv'
  <2>1. \A k \in VariableKeys : \A j \in Nat \ {0} : Decided(k, j)' <=> Decided(k, j)
    BY NoGroupAssumption DEF Decided
  <2>2. \A k \in VariableKeys : \A j \in 1..Len(Groups[k]) : j \in Nat \ {0}
    BY <1>t DEF TypeOK
  <2> QED
    BY <2>1, <2>2, SeqFrame DEF IInv, MarkInv
<1> QED
  BY <1>t, <1>1, <1>2, <1>3, <1>4 DEF IInv

\* What is at hand when the loop looks at an element of a group.
LEMMA AtElement ==
    ASSUME IInv, pc = "mark", group # NoGroup, pos <= Len(Groups[group])
    PROVE  /\ group \in VariableKeys
           /\ Groups[group] \in Seq(Sites)
           /\ pos \in 1..Len(Groups[group])
           /\ Groups[group][pos] \in Sites
           /\ code[Groups[group][pos]].type \in AccessTypes
           /\ Groups[group][pos] \notin MarkedCalls
           /\ \A k \in VariableKeys : \A j \in 1..Len(Groups[k]) :
                 Groups[k][j] = Groups[group][pos] => k = group /\ j = pos
<1>1. group \in VariableKeys /\ pos \in 1..Len(Groups[group])
      /\ Groups[group] \in Seq(Sites)
  BY DEF IInv, TypeOK
<1>2. Groups[group][pos] \in Sites
  BY <1>1
<1>3. code[Groups[group][pos]] \in CallDescription
  BY <1>2, CallsAssumption DEF IInv, TypeOK
<1>4. code[Groups[group][pos]].type \in AccessTypes
  BY <1>3 DEF CallDescription
<1>5. ~Decided(group, pos)
  BY <1>1 DEF Decided
<1>6. Groups[group][pos] \notin MarkedCalls
  BY <1>1, <1>5 DEF IInv, MarkInv
<1>7. ASSUME NEW k \in VariableKeys, NEW j \in 1..Len(Groups[k]),
             Groups[k][j] = Groups[group][pos]
      PROVE  k = group /\ j = pos
  <2>1. k = group
    BY <1>1, <1>7 DEF IInv, GroupSound
  <2>2. ~(j < pos) /\ ~(pos < j)
    BY <1>1, <1>2, <1>7, <2>1 DEF IInv, GroupSorted, Sites
  <2> QED
    BY <1>1, <2>1, <2>2
<1> QED
  BY <1>1, <1>2, <1>4, <1>6, <1>7

\* After the flags have seen element pos, the elements up to pos are decided.
LEMMA DecidedAdvance ==
    ASSUME pc = "mark", pc' = pc, group' = group, unvisited' = unvisited,
           pos \in Nat, pos' = pos + 1, NEW k, NEW j \in Nat
    PROVE  Decided(k, j)' <=> Decided(k, j) \/ (k = group /\ j = pos)
  BY DEF Decided

\* shouldKeep answered yes: the element is not redundant in its group, and
\* the flags now describe it.
LEMMA KeepStep ==
    ASSUME IInv, KeepCheck
    PROVE  IInv'
<1> DEFINE S == Groups[group]
<1>t. TypeOK /\ TypeOK'
  BY TypeStep DEF IInv, Next
<1>0. /\ pc = "mark" /\ pc' = pc /\ group # NoGroup /\ group' = group
      /\ pos <= Len(S) /\ pos' = pos + 1 /\ unvisited' = unvisited
      /\ code' = code /\ next' = next /\ Groups' = Groups
      /\ MarkedCalls' = MarkedCalls /\ RemovalCandidates' = RemovalCandidates
      /\ CallsToErase' = CallsToErase /\ Erased' = Erased /\ Removed' = Removed
      /\ shouldKeep(Retention, code[S[pos]].type)
      /\ Retention' = afterCheck(Retention, code[S[pos]].type)
  BY DEF KeepCheck, groupingVars, eraseVars
<1>1. /\ group \in VariableKeys /\ S \in Seq(Sites)
      /\ pos \in 1..Len(S) /\ pos \in Nat
      /\ S[pos] \in Sites /\ code[S[pos]].type \in AccessTypes
      /\ S[pos] \notin MarkedCalls
  BY <1>0, AtElement
<1>2. ~SeqRedundant(S, pos)
  BY <1>0, <1>1, <1>t DEF IInv, FlagsInv, SeqRedundant, IsRead, shouldKeep
<1>3. GroupSound' /\ GroupSorted' /\ GroupComplete'
  BY <1>0, GroupFrame DEF IInv
<1>4. PhaseInv'
  BY <1>0, <1>1 DEF IInv, PhaseInv
<1>5. FlagsInv'
  <2>1. pos' > 1 /\ pos' - 1 = pos /\ pos' \in Nat
    BY <1>0, <1>1
  <2>2. CASE IsRead(S[pos])
    <3>1. Retention'.SeenAnyCheck /\ ~Retention'.KeepNextRead
      BY <2>2, <1>0 DEF IsRead, afterCheck
    <3>2. SeqWitness(S, pos + 1)
      <4>1. pos \in 1..((pos + 1) - 1) /\ \A q \in pos..((pos + 1) - 1) : q = pos
        BY <1>1
      <4> QED
        BY <4>1, <1>2, <2>2 DEF SeqWitness
    <3>3. SeqWitness(Groups[group], pos)'
      BY <3>2, <1>0 DEF SeqWitness, SeqRedundant, IsRead
    <3>4. IsRead(Groups[group][pos - 1])'
      BY <2>1, <2>2, <1>0 DEF IsRead
    <3> QED
      BY <2>1, <3>1, <3>3, <3>4 DEF FlagsInv
  <2>3. CASE ~IsRead(S[pos])
    <3>1. Retention'.KeepNextRead
      BY <2>3, <1>0, <1>1, <1>t DEF IsRead, afterCheck, AccessTypes, TypeOK, RetentionStates
    <3>2. ~IsRead(Groups[group][pos - 1])'
      BY <2>1, <2>3, <1>0 DEF IsRead
    <3> QED
      BY <2>1, <3>1, <3>2 DEF FlagsInv
  <2> QED
    BY <2>2, <2>3
<1>6. MarkInv'
  <2>1. \A k \in VariableKeys : \A j \in 1..Len(Groups[k]) :
           Decided(k, j)' /\ SeqRedundant(Groups[k], j)
             <=> Decided(k, j) /\ SeqRedundant(Groups[k], j)
    BY <1>0, <1>1, <1>2, DecidedAdvance
  <2> QED
    BY <2>1, <1>0, SeqFrame DEF IInv, MarkInv
<1>7. EraseInv'
  BY <1>0 DEF IInv, EraseInv
<1> QED
  BY <1>t, <1>3, <1>4, <1>5, <1>6, <1>7 DEF IInv

\* shouldKeep answered no: the element is a READ after a READ, and the READ
\* that stood for the one before stands for it.
LEMMA MarkStep ==
    ASSUME IInv, MarkForRemoval
    PROVE  IInv'
<1> DEFINE S == Groups[group]
<1>t. TypeOK /\ TypeOK'
  BY TypeStep DEF IInv, Next
<1>0. /\ pc = "mark" /\ pc' = pc /\ group # NoGroup /\ group' = group
      /\ pos <= Len(S) /\ pos' = pos + 1 /\ unvisited' = unvisited
      /\ code' = code /\ next' = next /\ Groups' = Groups
      /\ MarkedCalls' = MarkedCalls \cup {S[pos]}
      /\ CallsToErase' = CallsToErase /\ Erased' = Erased /\ Removed' = Removed
      /\ ~shouldKeep(Retention, code[S[pos]].type)
      /\ Retention' = Retention
  BY DEF MarkForRemoval, groupingVars, eraseVars
<1>1. /\ group \in VariableKeys /\ S \in Seq(Sites)
      /\ pos \in 1..Len(S) /\ pos \in Nat
      /\ S[pos] \in Sites
      /\ S[pos] \notin MarkedCalls
      /\ \A k \in VariableKeys : \A j \in 1..Len(Groups[k]) :
            Groups[k][j] = S[pos] => k = group /\ j = pos
  BY <1>0, AtElement
<1>2. /\ IsRead(S[pos]) /\ pos > 1 /\ IsRead(S[pos - 1])
      /\ Retention.SeenAnyCheck /\ ~Retention.KeepNextRead
      /\ SeqWitness(S, pos)
  BY <1>0, <1>1 DEF IInv, FlagsInv, shouldKeep, IsRead, FreshRetention
<1>3. GroupSound' /\ GroupSorted' /\ GroupComplete'
  BY <1>0, GroupFrame DEF IInv
<1>4. PhaseInv'
  BY <1>0, <1>1 DEF IInv, PhaseInv
<1>5. FlagsInv'
  <2>1. pos' > 1 /\ pos' - 1 = pos
    BY <1>0, <1>1
  <2>2. SeqWitness(S, pos + 1)
    <3>1. PICK w \in 1..(pos - 1) : /\ ~SeqRedundant(S, w)
                                    /\ \A q \in w..(pos - 1) : IsRead(S[q])
      BY <1>2 DEF SeqWitness
    <3>2. w \in 1..((pos + 1) - 1) /\ \A q \in w..((pos + 1) - 1) : IsRead(S[q])
      BY <1>1, <1>2, <3>1
    <3> QED
      BY <3>1, <3>2 DEF SeqWitness
  <2>3. SeqWitness(Groups[group], pos)'
    BY <2>2, <1>0 DEF SeqWitness, SeqRedundant, IsRead
  <2>4. IsRead(Groups[group][pos - 1])'
    BY <2>1, <1>2, <1>0 DEF IsRead
  <2> QED
    BY <2>1, <2>3, <2>4, <1>0, <1>2 DEF FlagsInv
<1>6. MarkInv'
  <2>1. SeqRedundant(S, pos)
    BY <1>2 DEF SeqRedundant
  <2>2. Grouped(code[S[pos]])
    BY <1>1 DEF IInv, GroupSound
  <2>3. ASSUME NEW k \in VariableKeys, NEW j \in 1..Len(Groups[k])
        PROVE  /\ Groups[k][j] \in MarkedCalls'
                    <=> Decided(k, j)' /\ SeqRedundant(Groups[k], j)
               /\ Groups[k][j] \in MarkedCalls' => SeqWitness(Groups[k], j)
    <3>1. Decided(k, j)' <=> Decided(k, j) \/ (k = group /\ j = pos)
      BY <1>0, <1>1, DecidedAdvance
    <3>2. CASE k = group /\ j = pos
      BY <3>1, <3>2, <2>1, <1>0, <1>2
    <3>3. CASE ~(k = group /\ j = pos)
      BY <3>1, <3>3, <1>0, <1>1 DEF IInv, MarkInv
    <3> QED
      BY <3>2, <3>3
  <2> QED
    BY <2>2, <2>3, <1>0, SeqFrame DEF IInv, MarkInv
<1>7. EraseInv'
  <2>1. Cardinality(MarkedCalls') = Cardinality(MarkedCalls) + 1
    BY <1>t, <1>0, <1>1, SitesFinite, FS_AddElement DEF TypeOK
  <2>2. RemovalCandidates' = Append(RemovalCandidates, S[pos])
    BY <1>1 DEF MarkForRemoval
  <2>3. Len(RemovalCandidates') = Len(RemovalCandidates) + 1
    BY <2>2, <1>t, <1>1 DEF TypeOK
  <2> QED
    BY <1>0, <2>1, <2>3 DEF IInv, EraseInv
<1> QED
  BY <1>t, <1>3, <1>4, <1>5, <1>6, <1>7 DEF IInv

\* The end of a group, of the loop over the groups and of the erasing.
LEMMA OtherSteps ==
    ASSUME IInv, LeaveGroup \/ GroupsVisited \/ Return
    PROVE  IInv'
<1> USE DEF groupingVars, walkVars, eraseVars
<1>t. TypeOK /\ TypeOK'
  BY TypeStep DEF IInv, Next
<1>1. GroupSound' /\ GroupSorted' /\ GroupComplete'
  BY GroupFrame DEF IInv, LeaveGroup, GroupsVisited, Return
<1>2. PhaseInv'
  BY DEF IInv, PhaseInv, LeaveGroup, GroupsVisited, Return
<1>3. FlagsInv'
  BY DEF IInv, FlagsInv, LeaveGroup, GroupsVisited, Return
<1>4. EraseInv'
  BY DEF IInv, PhaseInv, EraseInv, LeaveGroup, GroupsVisited, Return
<1>5. MarkInv'
  <2>1. ASSUME NEW k \in VariableKeys, NEW j \in 1..Len(Groups[k])
        PROVE  Decided(k, j)' <=> Decided(k, j)
    <3>1. CASE LeaveGroup
      <4>1. /\ group \in VariableKeys /\ pos > Len(Groups[group])
            /\ group \notin unvisited
            /\ Len(Groups[group]) \in Nat /\ pos \in Nat
        BY <3>1, <1>t DEF LeaveGroup, IInv, PhaseInv, TypeOK
      <4>2. k = group => j < pos
        BY <4>1
      <4> QED
        BY <3>1, <4>1, <4>2, NoGroupAssumption DEF LeaveGroup, Decided
    <3>2. CASE GroupsVisited
      BY <3>2, NoGroupAssumption DEF GroupsVisited, Decided
    <3>3. CASE Return
      BY <3>3 DEF Return, Decided
    <3> QED
      BY <3>1, <3>2, <3>3
  <2>2. UNCHANGED <<code, Groups, MarkedCalls>>
    BY DEF LeaveGroup, GroupsVisited, Return
  <2> QED
    BY <2>1, <2>2, SeqFrame DEF IInv, MarkInv
<1> QED
  BY <1>t, <1>1, <1>2, <1>3, <1>4, <1>5 DEF IInv

\* One call of removeCheckSlice: the count grows by the one check that goes,
\* or the check stays and the count does too.
LEMMA EraseSteps ==
    ASSUME IInv, NEW i \in Sites, RemoveCheckSlice(i) \/ RemoveRefused(i)
    PROVE  IInv'
<1> USE DEF groupingVars, walkVars
<1>t. TypeOK /\ TypeOK'
  BY TypeStep DEF IInv, Next
<1>0. /\ pc = "erase" /\ pc' = pc
      /\ UNCHANGED <<code, next, Groups, unvisited, group, pos, Retention,
                     MarkedCalls, RemovalCandidates>>
  BY DEF RemoveCheckSlice, RemoveRefused
<1>1. GroupSound' /\ GroupSorted' /\ GroupComplete'
  BY <1>0, GroupFrame DEF IInv
<1>2. PhaseInv' /\ FlagsInv'
  BY <1>0 DEF IInv, PhaseInv, FlagsInv
<1>3. MarkInv'
  <2>1. \A k, j : Decided(k, j)' <=> Decided(k, j)
    BY <1>0 DEF Decided
  <2> QED
    BY <2>1, <1>0, SeqFrame DEF IInv, MarkInv
<1>4. EraseInv'
  <2>1. CASE RemoveCheckSlice(i)
    <3>1. i \notin Erased /\ IsFiniteSet(Erased)
      BY <2>1, <1>t, SitesFinite DEF IInv, EraseInv, RemoveCheckSlice, TypeOK
    <3>2. Cardinality(Erased \cup {i}) = Cardinality(Erased) + 1
      BY <3>1, FS_AddElement
    <3> QED
      BY <2>1, <3>2, <1>0 DEF IInv, EraseInv, RemoveCheckSlice
  <2>2. CASE RemoveRefused(i)
    BY <2>2, <1>0 DEF IInv, EraseInv, RemoveRefused
  <2> QED
    BY <2>1, <2>2
<1> QED
  BY <1>t, <1>1, <1>2, <1>3, <1>4 DEF IInv

\* The invariant is inductive.
LEMMA StepInv == IInv /\ [Next]_vars => IInv'
<1> SUFFICES ASSUME IInv, [Next]_vars PROVE IInv'
  OBVIOUS
<1>1. CASE UNCHANGED vars
  <2>1. UNCHANGED <<code, Groups>>
    BY <1>1 DEF vars
  <2>2. \A k, j : Decided(k, j)' <=> Decided(k, j)
    BY <1>1 DEF vars, Decided
  <2>3. MarkInv'
    BY <1>1, <2>1, <2>2, SeqFrame DEF vars, IInv, MarkInv
  <2>4. FlagsInv'
    BY <1>1, <2>1, SeqFrame DEF vars, IInv, FlagsInv, IsRead
  <2>5. TypeOK'
    BY TypeStep DEF IInv
  <2>6. GroupSound' /\ GroupSorted' /\ GroupComplete'
    BY <1>1, GroupFrame DEF vars, IInv
  <2>7. PhaseInv' /\ EraseInv'
    BY <1>1 DEF vars, IInv, PhaseInv, EraseInv
  <2> QED
    BY <2>3, <2>4, <2>5, <2>6, <2>7 DEF IInv
<1> QED
  BY <1>1, ScanStep, GroupsComputedStep, EnterGroupStep, KeepStep, MarkStep,
     OtherSteps, EraseSteps DEF Next

\* The invariant holds in every state of every behaviour.
LEMMA Invariant == Spec => []IInv
  BY InitInv, StepInv, PTL DEF Spec

-----------------------------------------------------------------------------
(* From the invariant to the properties. *)

\* Once the groups are complete, redundancy in the layout of the module is
\* redundancy in the group.
LEMMA RedundantIff ==
    ASSUME IInv, pc # "group",
           NEW k \in VariableKeys, NEW j \in 1..Len(Groups[k])
    PROVE  Redundant(code, Groups[k][j]) <=> SeqRedundant(Groups[k], j)
<1> DEFINE S == Groups[k]
<1>1. S \in Seq(Sites) /\ S[j] \in Sites /\ Len(S) \in Nat
  BY DEF IInv, TypeOK
<1>2. \A n \in 1..Len(S) : S[n] \in Sites /\ Grouped(code[S[n]]) /\ KeyOf(code[S[n]]) = k
  BY <1>1 DEF IInv, GroupSound
<1>3. \A n \in 1..Len(S) : n < j => S[n] \in Earlier(code, S[j])
  BY <1>2 DEF IInv, GroupSorted, Earlier
<1>4. ASSUME NEW q \in Earlier(code, S[j])
      PROVE  \E n \in 1..Len(S) : n < j /\ S[n] = q
  <2>1. q \in Sites /\ q < S[j] /\ Grouped(code[q]) /\ KeyOf(code[q]) = k
    BY <1>2 DEF Earlier
  <2>2. q < next
    BY <2>1, CallsAssumption DEF IInv, PhaseInv, Sites
  <2>3. PICK n \in 1..Len(S) : S[n] = q
    BY <2>1, <2>2 DEF IInv, GroupComplete
  <2>4. n < j
    BY <1>1, <2>1, <2>3 DEF IInv, GroupSorted, Sites
  <2> QED
    BY <2>3, <2>4
<1>5. ASSUME SeqRedundant(S, j) PROVE Redundant(code, S[j])
  <2>1. j - 1 \in 1..Len(S) /\ j - 1 < j
    BY <1>1, <1>5 DEF SeqRedundant
  <2>2. S[j - 1] \in Earlier(code, S[j])
    BY <2>1, <1>3
  <2>3. ASSUME NEW q \in Earlier(code, S[j]) PROVE q <= S[j - 1]
    <3>1. PICK n \in 1..Len(S) : n < j /\ S[n] = q
      BY <1>4
    <3>2. n = j - 1 \/ n < j - 1
      BY <3>1
    <3> QED
      BY <3>1, <3>2, <2>1, <1>2 DEF IInv, GroupSorted, Sites
  <2> QED
    BY <1>2, <1>5, <2>2, <2>3 DEF Redundant, SeqRedundant, IsRead
<1>6. ASSUME Redundant(code, S[j]) PROVE SeqRedundant(S, j)
  <2>1. PICK p \in Earlier(code, S[j]) :
           IsRead(p) /\ \A q \in Earlier(code, S[j]) : q <= p
    BY <1>6 DEF Redundant, IsRead
  <2>2. PICK n \in 1..Len(S) : n < j /\ S[n] = p
    BY <1>4
  <2>3. j - 1 \in 1..Len(S) /\ j - 1 < j /\ j > 1
    BY <2>2, <1>1
  <2>4. S[j - 1] <= p
    BY <2>1, <2>3, <1>3
  <2>5. n = j - 1
    BY <2>2, <2>3, <2>4, <1>2 DEF IInv, GroupSorted, Sites
  <2> QED
    BY <2>1, <2>2, <2>3, <2>5, <1>6 DEF SeqRedundant, Redundant, IsRead
<1> QED
  BY <1>5, <1>6

\* A grouped call sits in the group of its key.
LEMMA GroupedSite ==
    ASSUME IInv, pc # "group", NEW i \in Sites, Grouped(code[i])
    PROVE  /\ KeyOf(code[i]) \in VariableKeys
           /\ \E j \in 1..Len(Groups[KeyOf(code[i])]) : Groups[KeyOf(code[i])][j] = i
<1>1. KeyOf(code[i]) \in VariableKeys
  BY KeyIsGroup DEF IInv, TypeOK
<1>2. i < next
  BY CallsAssumption DEF IInv, PhaseInv, Sites
<1> QED
  BY <1>1, <1>2 DEF IInv, GroupComplete

\* The invariant decides which checks markForRemoval has been called for.
LEMMA InvMarked == IInv => MarkedIsPolicy
<1> SUFFICES ASSUME IInv PROVE MarkedIsPolicy
  OBVIOUS
<1>1. ASSUME NEW i \in MarkedCalls PROVE Redundant(code, i)
  <2>1. i \in Sites /\ Grouped(code[i]) /\ pc # "group"
    BY <1>1 DEF IInv, TypeOK, MarkInv, PhaseInv
  <2>2. PICK j \in 1..Len(Groups[KeyOf(code[i])]) : Groups[KeyOf(code[i])][j] = i
    BY <2>1, GroupedSite
  <2>3. KeyOf(code[i]) \in VariableKeys
    BY <2>1, GroupedSite
  <2> QED
    BY <1>1, <2>1, <2>2, <2>3, RedundantIff DEF IInv, MarkInv
<1>2. ASSUME pc \in {"erase", "done"}, NEW i \in Sites, Redundant(code, i)
      PROVE  i \in MarkedCalls
  <2>1. Grouped(code[i]) /\ pc # "group"
    BY <1>2 DEF Redundant
  <2>2. PICK j \in 1..Len(Groups[KeyOf(code[i])]) : Groups[KeyOf(code[i])][j] = i
    BY <2>1, GroupedSite
  <2>3. KeyOf(code[i]) \in VariableKeys
    BY <2>1, GroupedSite
  <2>4. SeqRedundant(Groups[KeyOf(code[i])], j)
    BY <1>2, <2>1, <2>2, <2>3, RedundantIff
  <2>5. Decided(KeyOf(code[i]), j)
    BY <1>2 DEF Decided
  <2> QED
    BY <2>2, <2>3, <2>4, <2>5 DEF IInv, MarkInv
<1> QED
  BY <1>1, <1>2 DEF MarkedIsPolicy

\* The invariant names the kept READ that stands for a marked one.
LEMMA InvWitness == IInv => KeptWitness
<1> SUFFICES ASSUME IInv, NEW i \in MarkedCalls
             PROVE  \E w \in Sites : StandsFor(w, i) /\ w \notin Erased
  BY DEF KeptWitness
<1> DEFINE k == KeyOf(code[i])
<1> DEFINE S == Groups[k]
<1>1. i \in Sites /\ Grouped(code[i]) /\ pc # "group"
  BY DEF IInv, TypeOK, MarkInv, PhaseInv
<1>2. k \in VariableKeys
  BY <1>1, GroupedSite
<1>3. PICK j \in 1..Len(S) : S[j] = i
  BY <1>1, GroupedSite
<1>4. S \in Seq(Sites) /\ Len(S) \in Nat
  BY <1>2 DEF IInv, TypeOK
<1>5. Decided(k, j) /\ SeqWitness(S, j)
  BY <1>2, <1>3 DEF IInv, MarkInv
<1>6. PICK w \in 1..(j - 1) : /\ ~SeqRedundant(S, w)
                              /\ \A q \in w..(j - 1) : IsRead(S[q])
  BY <1>5 DEF SeqWitness
<1>7. w \in 1..Len(S) /\ w < j /\ w \in w..(j - 1) /\ S[w] \in Sites
  BY <1>4, <1>6
<1>8. S[w] \notin MarkedCalls
  BY <1>2, <1>6, <1>7 DEF IInv, MarkInv
<1>9. S[w] \in Earlier(code, i) /\ code[S[w]].type = "READ"
  <2>1. Grouped(code[S[w]]) /\ KeyOf(code[S[w]]) = k /\ S[w] < S[j]
    BY <1>2, <1>7 DEF IInv, GroupSound, GroupSorted
  <2> QED
    BY <2>1, <1>3, <1>6, <1>7 DEF Earlier, IsRead
<1>10. ASSUME NEW q \in Earlier(code, i), q > S[w] PROVE code[q].type = "READ"
  <2>1. q \in Sites /\ q < i /\ Grouped(code[q]) /\ KeyOf(code[q]) = k
    BY DEF Earlier
  <2>2. PICK n \in 1..Len(S) : S[n] = q
    BY <2>1, <1>1, GroupedSite
  <2>3. w < n /\ n < j
    <3>1. S[w] < S[n] /\ S[n] < S[j] /\ S[w] \in Int /\ S[n] \in Int /\ S[j] \in Int
      BY <1>1, <1>3, <1>7, <1>10, <2>1, <2>2 DEF Sites
    <3>2. ~(n < w) /\ ~(j < n)
      BY <1>2, <1>7, <3>1 DEF IInv, GroupSorted
    <3> QED
      BY <3>1, <3>2
  <2>4. n \in w..(j - 1)
    BY <2>3, <1>7
  <2> QED
    BY <2>2, <2>4, <1>6 DEF IsRead
<1>11. S[w] \notin Erased
  BY <1>8 DEF IInv, EraseInv
<1> QED
  BY <1>7, <1>8, <1>9, <1>10, <1>11 DEF StandsFor

(* Whatever the order of the groups, the marked checks are the redundant    *)
(* ones: the flags of ReadRetentionState compute the policy.                *)
THEOREM MarkingIsPolicy == Spec => []MarkedIsPolicy
  BY Invariant, InvMarked, PTL

(* Every deleted READ leaves an undeleted READ of the same variable before  *)
(* it in the layout, with no WRITE or UNKNOWN check in between.             *)
THEOREM WitnessKept == Spec => []KeptWitness
  BY Invariant, InvWitness, PTL

(* eraseMarkedChecks returns the number of checks that are gone.            *)
THEOREM RemovedCount == Spec => []RemovedIsErased
<1>1. IInv => RemovedIsErased
  BY DEF IInv, EraseInv, RemovedIsErased
<1> QED
  BY <1>1, Invariant, PTL

-----------------------------------------------------------------------------
\* The instance of the policy speaks of the same module and the same keys.
LEMMA PolicyBridge ==
    /\ Policy!Sites = Sites
    /\ Policy!RedundantSites = {i \in Sites : Redundant(code, i)}
<1>1. Policy!Sites = Sites
  BY DEF Sites, Policy!Sites
<1>2. \A c : (Policy!Grouped(c) <=> Grouped(c)) /\ Policy!KeyOf(c) = KeyOf(c)
  BY DEF Grouped, Policy!Grouped, isCoreCheck, Policy!isCoreCheck, KeyOf, Policy!KeyOf,
         makeVariableKey, Policy!makeVariableKey
<1>3. \A i : Policy!Earlier(code, i) = Earlier(code, i)
  BY <1>1, <1>2 DEF Earlier, Policy!Earlier
<1>4. \A i : Policy!Redundant(code, i) <=> Redundant(code, i)
  BY <1>2, <1>3 DEF Redundant, Policy!Redundant
<1> QED
  BY <1>1, <1>4 DEF Policy!RedundantSites

(* The scan implements the order-free policy: grouping and keeping are      *)
(* stuttering steps, marking, erasing and returning are its steps.          *)
THEOREM Implements == Spec => ImplementsPolicy
<1>1. Init => Policy!PolicyInit
  BY PolicyBridge DEF Init, Policy!PolicyInit
<1>2. IInv' => MarkedIsPolicy'
  BY InvMarked, PTL
<1>3. IInv /\ [Next]_vars => [Policy!PolicyNext]_(Policy!pvars)
  <2> SUFFICES ASSUME IInv, [Next]_vars
               PROVE  Policy!PolicyNext \/ UNCHANGED Policy!pvars
    OBVIOUS
  <2> USE DEF groupingVars, walkVars, eraseVars, Policy!pvars
  <2>1. CASE ScanCall
    BY <2>1 DEF ScanCall
  <2>2. CASE GroupsComputed
    BY <2>2 DEF GroupsComputed
  <2>3. ASSUME NEW k \in VariableKeys, EnterGroup(k) PROVE UNCHANGED Policy!pvars
    BY <2>3 DEF EnterGroup
  <2>4. CASE KeepCheck
    BY <2>4 DEF KeepCheck
  <2>5. CASE MarkForRemoval
    <3> DEFINE i == Groups[group][pos]
    <3>1. MarkedIsPolicy'
      BY <2>5, <1>2, MarkStep
    <3>2. i \in MarkedCalls' /\ code' = code /\ pc = "mark" /\ pc' = "mark"
          /\ Erased' = Erased
      BY <2>5 DEF MarkForRemoval
    <3>3. Redundant(code, i)
      BY <3>1, <3>2 DEF MarkedIsPolicy
    <3>4. i \in Sites
      BY <2>5, AtElement DEF MarkForRemoval
    <3>5. Erased = {}
      BY <3>2 DEF IInv, PhaseInv
    <3>6. Policy!Mark(i)
      BY <2>5, <3>2, <3>3, <3>4, <3>5,
         PolicyBridge DEF MarkForRemoval, Policy!Mark
    <3> QED
      BY <3>4, <3>6, PolicyBridge DEF Policy!PolicyNext
  <2>6. CASE LeaveGroup
    BY <2>6 DEF LeaveGroup
  <2>7. CASE GroupsVisited
    BY <2>7 DEF GroupsVisited
  <2>8. ASSUME pc = "erase" PROVE MarkedCalls = Policy!RedundantSites
    BY <2>8, InvMarked, PolicyBridge DEF MarkedIsPolicy, IInv, TypeOK
  <2>9. ASSUME NEW i \in Sites, RemoveCheckSlice(i) PROVE Policy!PolicyNext
    <3>1. Policy!Erase(i)
      BY <2>8, <2>9 DEF RemoveCheckSlice, Policy!Erase, IInv, EraseInv
    <3> QED
      BY <3>1, PolicyBridge DEF Policy!PolicyNext
  <2>10. ASSUME NEW i \in Sites, RemoveRefused(i) PROVE UNCHANGED Policy!pvars
    BY <2>10 DEF RemoveRefused
  <2>11. CASE Return
    BY <2>8, <2>11 DEF Return, Policy!Finish, Policy!PolicyNext
  <2>12. CASE UNCHANGED vars
    BY <2>12 DEF vars
  <2> QED
    BY <2>1, <2>2, <2>3, <2>4, <2>5, <2>6, <2>7, <2>9, <2>10, <2>11, <2>12 DEF Next
<1> QED
  BY <1>1, <1>3, Invariant, PTL DEF Spec, ImplementsPolicy, Policy!PolicySpec

=============================================================================
