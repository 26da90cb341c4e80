----------------------------- MODULE MCWorkers -----------------------------
(***************************************************************************)
(* The worker threads for TLC: worker structures are never used twice, so  *)
(* the size of Normal bounds how often workers are started.                *)
(***************************************************************************)
EXTENDS Workers, TLC

CONSTANTS w1, w2, c1, c2

TwoNormal == {w1, w2}
OneNormal == {w1}
OneClient == {c1}
TwoClients == {c1, c2}

Symmetry == Permutations(Client) \cup Permutations(Normal)
=============================================================================
