--------------------------- MODULE MCEntityManager ---------------------------
(***************************************************************************)
(* Values of the constants of EntityManager for TLC: the dragon is near    *)
(* the gate, where players start, and far from the hill.                   *)
(***************************************************************************)
EXTENDS EntityManager, TLC

CONSTANTS p1, p2, dragon, flag, gate, hill

TwoPlayers    == {p1, p2}
OneCandidate  == {dragon}
OnePlain      == {flag}
Places        == {gate, hill}

Distances ==
  [e \in OneCandidate |-> [s \in Places |-> IF s = gate THEN "near" ELSE "far"]]

Symmetry == Permutations(TwoPlayers)
=============================================================================
