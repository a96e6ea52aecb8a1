------------------------ MODULE MCCheckSliceRemover ------------------------
(* Functions of up to four blocks, put together from the blocks that        *)
(* sanitizers and front ends produce around a check:                        *)
(*   1 the entry, 2 a report block or a conditional piece of the program,   *)
(*   3 a second guard or the continuation, 4 the exit.                      *)
EXTENDS CheckSliceRemover, TLC

CONSTANT Family    \* which functions: see Selected

MCBlocks == 1..4
MCInsts == MCBlocks \X (1..3)

Term(op, to) == [op |-> op, cond |-> None, to |-> to]

TermsOf(b) ==
    CASE b = 1 -> {Term("br", <<2>>), Term("cbr", <<2, 3>>), Term("cbr", <<2, 4>>),
                   Term("switch", <<2, 3>>)}
      [] b = 2 -> {Term("unreachable", << >>), Term("br", <<3>>), Term("br", <<4>>),
                   Term("invoke", <<3, 4>>)}
      [] b = 3 -> {Term("br", <<4>>), Term("cbr", <<4, 2>>), Term("br", <<2>>)}
      [] b = 4 -> {Term("ret", << >>)}

\* The classes of the instructions of a block.
BodiesOf(b) ==
    CASE b = 1 -> {<<"effect", "pure">>, <<"check">>, <<"check", "effect">>}
      [] b = 2 -> {<<"pure", "check">>, <<"check", "asm">>, <<"check", "load">>,
                   <<"check", "check">>, <<"check", "effect">>, <<"runtime", "check">>, <<"invoke">>}
      [] b = 3 -> {<<"pure">>, <<"check", "effect">>, <<"runtime", "effect">>}
      [] b = 4 -> {<<"effect">>, <<"effect", "phi">>}

\* Inside a block a check uses the instruction before it; a conditional
\* branch uses the comparison of its block; a phi merges what block 2 loads
\* with a constant, and the effect of its block uses it.
Operand(ops, b, n) ==
    IF n \in DOMAIN ops[b] /\ ops[b][n] = "check" /\ n > 1 /\ ops[b][n - 1] = "pure"
    THEN {<<b, n - 1>>}
    ELSE IF n = 1 /\ b = 4 /\ ops[4] = <<"effect", "phi">> THEN {<<4, 2>>}
    ELSE {}

Loaded(ops) == IF ops[2] = <<"check", "load">> THEN <<2, 2>> ELSE None

Function(ops, ts) ==
    LET t == [b \in MCBlocks |->
                 IF ts[b].op = "cbr" /\ Last(ops[b]) = "pure"
                 THEN [ts[b] EXCEPT !.cond = <<b, Len(ops[b])>>] ELSE ts[b]]
        live == ReachFrom(t, {1})
    IN  [blocks |-> live,
         body |-> [b \in MCBlocks |->
                      IF ops[b] = <<"effect", "phi">> THEN << <<4, 2>>, <<4, 1>> >>
                      ELSE [n \in DOMAIN ops[b] |-> <<b, n>>]],
         term |-> t,
         op |-> [i \in MCInsts |-> IF i[2] \in DOMAIN ops[i[1]] THEN ops[i[1]][i[2]]
                                   ELSE "pure"],
         uses |-> [i \in MCInsts |-> Operand(ops, i[1], i[2])],
         incoming |-> [i \in {<<4, 2>>} |->
                          [p \in {q \in live : 4 \in ToSet(t[q].to)} |->
                              IF p = 2 THEN Loaded(ops) ELSE None]],
         marked |-> {}]

ChecksOf(ops) ==
    {i \in MCInsts : i[2] \in DOMAIN ops[i[1]] /\ ops[i[1]][i[2]] \in {"check", "invoke"}}

\* The blocks the remover would take for sanitizer code.
LooksLikeReport(ops, t, b) ==
    /\ "effect" \notin ToSet(ops[b])
    /\ t[b].op \in {"br", "unreachable"}
    /\ "check" \in ToSet(ops[b])

(* Instrumented: functions in which sanitizer-only blocks are what they are *)
(* taken for.  The entry does something of its own, so that it is never     *)
(* taken for one; none computes a value for the program or does its work;   *)
(* and a block with phis behind one is reached only by conditional branches *)
(* around it.                                                               *)
Instrumented(ops, t) ==
    /\ "effect" \in ToSet(ops[1])
    /\ "runtime" \notin ToSet(ops[2])
    /\ ops[4] = <<"effect", "phi">> =>
          /\ Loaded(ops) = None
          /\ \A b \in 1..3 : LooksLikeReport(ops, t, b) /\ t[b].to = <<4>> =>
                \A p \in 1..3 : b \in ToSet(t[p].to) => t[p].op = "cbr"

(* The other families give up one of these conditions each: a value of a    *)
(* report-like block is merged by a phi, the entry consists of a check, or  *)
(* a report-like block does work of the runtime (__msan_memcpy and others). *)
Selected(ops, t) ==
    CASE Family = "instrumented" -> Instrumented(ops, t)
      [] Family = "value" -> /\ Loaded(ops) # None
                             /\ ops[4] = <<"effect", "phi">>
                             /\ ops[1] = <<"effect", "pure">>
      [] Family = "entry" -> ops[1] = <<"check">> /\ ops[2] = <<"check", "effect">>
      [] Family = "runtime" -> /\ "runtime" \in ToSet(ops[2])
                               /\ ops[1] = <<"effect", "pure">>

Shapes ==
    {<<ops, t>> \in
        {<<(1 :> b1 @@ 2 :> b2 @@ 3 :> b3 @@ 4 :> b4),
           (1 :> t1 @@ 2 :> t2 @@ 3 :> t3 @@ 4 :> t4)>> :
              b1 \in BodiesOf(1), b2 \in BodiesOf(2), b3 \in BodiesOf(3), b4 \in BodiesOf(4),
              t1 \in TermsOf(1), t2 \in TermsOf(2), t3 \in TermsOf(3), t4 \in TermsOf(4)} :
        /\ (t[2].op = "invoke") <=> (ops[2] = <<"invoke">>)
        /\ Selected(ops, t)}

\* Every function with every choice of marked checks.
MCPrograms ==
    UNION {LET f == Function(s[1], s[2])
           IN  {[f EXCEPT !.marked = m] :
                   m \in (SUBSET {i \in ChecksOf(s[1]) : i[1] \in f.blocks}) \ {{}}} :
           s \in Shapes}

\* The instrumented functions are what the theorems about kept code ask for,
\* and there are those whose blocks without effects stand aside, one of them
\* between a branch and a phi included.
ASSUME InstrumentedAssumption ==
    Family = "instrumented" =>
        /\ \A p \in MCPrograms : AsInstrumented(p)
        /\ \E p \in MCPrograms :
              IdleBlocksAside(p) /\ p.term[1].to = <<2, 4>> /\ p.term[2].to = <<4>>
                /\ p.body[4] = << <<4, 2>>, <<4, 1>> >> /\ p.op[<<2, 2>>] # "effect"
=============================================================================
