-------------------------- MODULE RetentionPolicy --------------------------
(* What the deletion of redundant checks promises, whatever the order in    *)
(* which groups are visited and calls are erased: only redundant checks     *)
(* are marked, only marked checks are erased, nothing is erased before the  *)
(* marking is complete, and at the end the redundant checks and no others   *)
(* are marked.                                                              *)
EXTENDS CheckGroups

VARIABLES
    code,       \* the module
    marked,     \* the checks chosen for removal
    erased,     \* the checks that are gone
    finished    \* the elimination has returned

pvars == <<code, marked, erased, finished>>

RedundantSites == {i \in Sites : Redundant(code, i)}

PolicyInit ==
    /\ code \in [Sites -> Calls]
    /\ marked = {}
    /\ erased = {}
    /\ finished = FALSE

Mark(i) ==
    /\ ~finished
    /\ erased = {}
    /\ i \in RedundantSites
    /\ marked' = marked \cup {i}
    /\ UNCHANGED <<code, erased, finished>>

Erase(i) ==
    /\ ~finished
    /\ marked = RedundantSites
    /\ i \in marked \ erased
    /\ erased' = erased \cup {i}
    /\ UNCHANGED <<code, marked, finished>>

Finish ==
    /\ ~finished
    /\ marked = RedundantSites
    /\ finished' = TRUE
    /\ UNCHANGED <<code, marked, erased>>

PolicyNext == Finish \/ \E i \in Sites : Mark(i) \/ Erase(i)

PolicySpec == PolicyInit /\ [][PolicyNext]_pvars

=============================================================================
