SPECIFICATION AnySpec
CONSTANTS
  p1 = p1 p2 = p2 p3 = p3 p4 = p4 p5 = p5 w1 = w1 w2 = w2
  Players <- TwoPlayers
  Worlds <- TwoWorlds
  Zones <- MCZones
  ZoneOf <- MCZoneOf
  DefaultLoot = 1
  Events <- AllEvents
  MaxTeamId = 1
  MaxNotices = 2
  MaxInbox = 2
  MaxEvents = 2
SYMMETRY PlayerSymmetry
INVARIANTS CopiesCurrent CountNeverBelow WorldTeamsHaveLootOwners
PROPERTIES RemovedOnlyAfterLogout
CHECK_DEADLOCK FALSE
