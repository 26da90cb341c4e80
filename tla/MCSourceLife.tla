---------------------------- MODULE MCSourceLife ----------------------------
(***************************************************************************)
(* The life of a source for TLC.  Every client runs through its states     *)
(* once, so the sets of clients are the only bounds.                       *)
(***************************************************************************)
EXTENDS SourceLife, TLC

CONSTANTS l1, l2, s1, s2

TwoListeners == {l1, l2}
TwoSources == {s1, s2}

Symmetry == Permutations(Listener) \cup Permutations(SrcClient)
=============================================================================
