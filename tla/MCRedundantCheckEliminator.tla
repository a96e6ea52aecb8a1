--------------------- MODULE MCRedundantCheckEliminator ---------------------
(* Every module of up to MCNumCalls calls over two variables; the checks of *)
(* variable a are at a static offset, at another static offset and at a     *)
(* dynamic one, so that the key merges what the options merge.              *)
EXTENDS RedundantCheckEliminator

CONSTANTS a, b, idx

MCNumCalls == 4

AtOffset(base, off) ==
    [Sanitizer |-> "ASan", Base |-> base, HasStaticByteOffset |-> TRUE,
     StaticByteOffset |-> off, Offsets |-> "none"]

AtIndex(base) ==
    [Sanitizer |-> "ASan", Base |-> base, HasStaticByteOffset |-> FALSE,
     StaticByteOffset |-> 0, Offsets |-> idx]

Check(name, v, t) == [check |-> name, analyzed |-> TRUE, var |-> v, type |-> t]

\* The accesses of a in every type, reads and writes of b, a dynamic read of
\* a, a check that is not core, one whose variable is lost, and a plain call.
MCCalls ==
    {Check("load", AtOffset(a, 0), t) : t \in AccessTypes}
    \cup {Check("load", AtOffset(b, 0), t) : t \in {"READ", "WRITE"}}
    \cup {Check("load", AtOffset(a, 8), "READ"), Check("load", AtIndex(a), "READ"),
          Check("minor", AtOffset(a, 0), "WRITE"),
          [Check("load", AtOffset(a, 0), "UNKNOWN") EXCEPT !.analyzed = FALSE],
          Check("plain", AtOffset(a, 0), "UNKNOWN")}

MCOffsetLists == {"none", idx}
=============================================================================
