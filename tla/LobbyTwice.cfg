SPECIFICATION Spec
CONSTANTS
  Players = {p1, p2, p3}
  Activities <- MCActivities
  MaxLobbies = 2
  MaxInstances = 1
  MaxMoves = 1
INVARIANTS LobbyStartsOnce
CHECK_DEADLOCK FALSE
