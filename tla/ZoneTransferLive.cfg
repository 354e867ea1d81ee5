CONSTANTS
  Servers = {s1, s2}
  Zones <- OneZone
  Passwords = {}
  NoPassword = NoPassword
  SoftCap <- CapTwo
  PortStart = 3000
  Events = {"crash", "idle", "signal", "timeout", "shutdownInstance"}
  MaxWorlds = 5
  MaxRequests = 1
  MaxPlayers = 0
  MaxOut = 0
  MaxEvents = 4
SPECIFICATION FairSpec
INVARIANTS NoRequestForgotten ConnectedWorldsAreKnown
PROPERTY EveryRequestAnswered
CHECK_DEADLOCK FALSE
