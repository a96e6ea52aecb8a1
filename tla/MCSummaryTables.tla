-------------------------- MODULE MCSummaryTables --------------------------
(* A unit whose checks are of several types and sanitizers, and one whose   *)
(* number has two digits to be cut between.                                 *)
EXTENDS SummaryTables

MCModules ==
    {[load |-> 1, store |-> 1, memcpy |-> 1, mismatch |-> 1],
     [load |-> 12, store |-> 0, memcpy |-> 0, mismatch |-> 0]}

\* Two units, one of which was compiled twice, and one with a line that is
\* none and more checks after than before.
MCCheckFiles ==
    LET unit(o, r) == [original |-> o, remaining |-> r]
    IN  {<<unit(4, 1), unit(9, 9), unit(4, 1), unit(9, 9), unit(2, 2), unit(9, 9)>>,
         <<unit(1, 2), unit(9, 9), unit(None, None)>>}

=============================================================================
