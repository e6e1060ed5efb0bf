----------------------------- MODULE MC_Outbox -----------------------------
(***************************************************************************)
(* Small instances of Outbox: three events, two application instances, a   *)
(* poll that takes two rows.                                               *)
(***************************************************************************)
EXTENDS Outbox, TLC

CONSTANTS e1, e2, e3, i1, i2

MCEvents == {e1, e2, e3}
TwoEvents == {e1, e2}
MCInstances == {i1, i2}
Symmetry == Permutations(MCEvents) \cup Permutations(MCInstances)
=============================================================================
