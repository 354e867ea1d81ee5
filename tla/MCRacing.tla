------------------------------ MODULE MCRacing ------------------------------
(* Instances of Racing for TLC. *)
EXTENDS Racing

CONSTANTS p1, p2

TwoPlayers == {p1, p2}

\* Between two waypoints, at the middle ones, and where the last is near the first.
Track == {{}, {0, LastPoint}} \cup {{i} : i \in 1..(LastPoint - 1)}
=============================================================================
