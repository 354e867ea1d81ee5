------------------------------ MODULE MCLobby ------------------------------
(* Instances of Lobby for TLC: an activity of teams, one of single players, *)
(* one of either played where it is.                                        *)
EXTENDS Lobby, TLC

Team == [minTeams |-> 1, maxTeams |-> 1, minTeamSize |-> 2, maxTeamSize |-> 2,
         waitTime |-> 3, startDelay |-> 1, hasLobby |-> TRUE]
Race == [minTeams |-> 2, maxTeams |-> 2, minTeamSize |-> 1, maxTeamSize |-> 1,
         waitTime |-> 2, startDelay |-> 1, hasLobby |-> TRUE]
InPlace == [Team EXCEPT !.hasLobby = FALSE]

MCActivities == {Team, Race, InPlace}

PlayerSymmetry == Permutations(Players)
=============================================================================
