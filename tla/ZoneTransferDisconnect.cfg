CONSTANTS
  Servers = {s1}
  Zones <- OneZone
  Passwords = {}
  NoPassword = NoPassword
  SoftCap <- CapTwo
  PortStart = 3000
  Events = {"lose", "idle"}
  MaxWorlds = 3
  MaxRequests = 2
  MaxPlayers = 0
  MaxOut = 0
  MaxEvents = 2
SPECIFICATION Spec
PROPERTY DisconnectKeepsRequests
CHECK_DEADLOCK FALSE
