SPECIFICATION FairSpec
CONSTANTS
  Players = {p1, p2, p3}
  Activities <- MCActivities
  MaxLobbies = 2
  MaxInstances = 3
  MaxMoves = 2
INVARIANTS TypeOK OnePlacePerPlayer LobbiesHaveRoom OneInstancePerPlayer
PROPERTIES FirstStartHasEnough EnoughStarts
CHECK_DEADLOCK FALSE
