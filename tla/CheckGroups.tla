---------------------------- MODULE CheckGroups ----------------------------
(* What CheckGraphBuilder::groupChecksByVariable sees of an LLVM module:    *)
(* the call instructions of all defined functions in layout order, each     *)
(* with the answers of SanitizerCheckCollector::classifyCheck and           *)
(* CheckedVariableAnalyzer::analyzeCheck.  A module is a function from      *)
(* positions to such descriptions.  The definitions here are pure; the      *)
(* state machines that use them are RedundantCheckEliminator and            *)
(* CheckExecution.                                                          *)
EXTENDS Integers, Sequences

CONSTANTS
    NumCalls,       \* how many call instructions the module has
    Calls,          \* the descriptions a call instruction may have
    Sanitizers,     \* SanitizerKind values of a checked variable
    Bases,          \* the base values (allocas, globals, arguments, ...)
    OffsetLists,    \* the lists of dynamic GEP indices
    NoOffsets,      \* the empty list of indices
    CheckTypes,     \* (sanitizer, callee name) pairs classifyCheck returns
    NotACheck,      \* classifyCheck returned nullopt
    CoreCheckSet,   \* the core checks the pass handed to the builder
    DistinguishStaticOffsets,    \* -desan-distinguish-static-offsets
    GroupDynamicOffsetsByBase    \* -desan-group-dynamic-offsets

Sites == 1..NumCalls

AccessTypes == {"READ", "WRITE", "UNKNOWN"}

\* The fields of CheckedVariable that identify the memory it is about.
CheckedVariable ==
    [Sanitizer : Sanitizers, Base : Bases, HasStaticByteOffset : BOOLEAN,
     StaticByteOffset : Int, Offsets : OffsetLists]

\* check is what classifyCheck says, analyzed whether analyzeCheck returned
\* a variable at all, var and type what it returned.
CallDescription ==
    [check : CheckTypes \cup {NotACheck}, analyzed : BOOLEAN,
     var : CheckedVariable, type : AccessTypes]

ASSUME CallsAssumption ==
    /\ NumCalls \in Nat
    /\ Calls \subseteq CallDescription
    /\ NotACheck \notin CheckTypes
    /\ CoreCheckSet \subseteq CheckTypes
    /\ DistinguishStaticOffsets \in BOOLEAN
    /\ GroupDynamicOffsetsByBase \in BOOLEAN

-----------------------------------------------------------------------------
\* The key under which two checks fall into one group.
makeVariableKey(Var) ==
    LET Static == DistinguishStaticOffsets /\ Var.HasStaticByteOffset
    IN  [Sanitizer |-> Var.Sanitizer,
         Base |-> Var.Base,
         HasStaticByteOffset |-> Static,
         StaticByteOffset |-> IF Static THEN Var.StaticByteOffset ELSE 0,
         Offsets |-> IF ~Var.HasStaticByteOffset /\ ~GroupDynamicOffsetsByBase
                     THEN Var.Offsets
                     ELSE NoOffsets]

VariableKeys == {makeVariableKey(c.var) : c \in Calls}

\* An empty core set means that every check is core.
isCoreCheck(Check) == CoreCheckSet = {} \/ Check \in CoreCheckSet

\* The call is put into a group: a core check whose variable was recovered.
Grouped(c) == c.check # NotACheck /\ isCoreCheck(c.check) /\ c.analyzed

KeyOf(c) == makeVariableKey(c.var)

-----------------------------------------------------------------------------
(* The retention policy, stated on the layout of a module and without any  *)
(* scan or flag: a check is redundant iff it is a READ and the nearest      *)
(* earlier check of its group is a READ as well.                            *)

\* The positions in the group of site i that precede it.
Earlier(code, i) ==
    {p \in Sites : /\ p < i
                   /\ Grouped(code[p])
                   /\ KeyOf(code[p]) = KeyOf(code[i])}

Redundant(code, i) ==
    /\ Grouped(code[i])
    /\ code[i].type = "READ"
    /\ \E p \in Earlier(code, i) :
          /\ code[p].type = "READ"
          /\ \A q \in Earlier(code, i) : q <= p

=============================================================================
