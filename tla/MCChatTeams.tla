---------------------------- MODULE MCChatTeams ----------------------------
(* Instances of ChatTeams for TLC. *)
EXTENDS ChatTeams, TLC

CONSTANTS p1, p2, p3, p4, p5, w1, w2

TwoPlayers   == {p1, p2}
FivePlayers  == {p1, p2, p3, p4, p5}
OneWorld     == {w1}
TwoWorlds    == {w1, w2}

\* The zones of the two worlds, and of a property in another map.
Here     == [map |-> 1, clone |-> 0]
Property == [map |-> 2, clone |-> 1]
MCZones  == {Here, Property}
MCZoneOf == [w \in Worlds |-> IF w = w1 THEN Here ELSE Property]

AllEvents == {"load", "swap", "worldEnds", "chatRestarts", "activity", "loseChat"}
Activity  == {"activity"}

\* Everybody is in one world, and the chat server knows; for bounds, one event.
AllOnline ==
  /\ inside = [w \in Worlds |-> IF w = w1 THEN Players ELSE {}]
  /\ m_Teams = [w \in Worlds |-> <<>>]
  /\ joined = Worlds /\ cut = {}
  /\ notices = {}
  /\ inbox = [w \in Worlds |-> <<>>]
  /\ m_Players = [p \in Players |-> w1] /\ m_PlayersToRemove = {}
  /\ m_PlayerCount = Cardinality(Players) /\ m_Names = Players
  /\ mTeams = <<>> /\ g_TeamIDCounter = 0
  /\ last = [p \in Players |-> "LOGIN"]
  /\ events = 1

OnlineSpec == AllOnline /\ [][Next]_vars

\* With two worlds: also from the start.
AnySpec == (Init \/ AllOnline) /\ [][Next]_vars

PlayerSymmetry == Permutations(Players)
=============================================================================
