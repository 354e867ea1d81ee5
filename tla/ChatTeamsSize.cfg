SPECIFICATION OnlineSpec
CONSTANTS
  p1 = p1 p2 = p2 p3 = p3 p4 = p4 p5 = p5 w1 = w1 w2 = w2
  Players <- FivePlayers
  Worlds <- OneWorld
  Zones <- MCZones
  ZoneOf <- MCZoneOf
  DefaultLoot = 1
  Events <- Activity
  MaxTeamId = 1
  MaxNotices = 0
  MaxInbox = 2
  MaxEvents = 2
SYMMETRY PlayerSymmetry
INVARIANTS TypeOK TeamsAreTeams
CHECK_DEADLOCK FALSE
