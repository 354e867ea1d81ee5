CONSTANTS
  Servers = {s1, s2}
  Zones <- TwoZones
  Passwords = {pw}
  NoPassword = NoPassword
  SoftCap <- CapTwo
  PortStart = 3000
  Events = {"crash", "crashEarly", "failStart", "idle", "signal", "timeout", "shutdownInstance", "lose", "loseEarly", "prep", "private", "masterShutdown"}
  MaxWorlds = 4
  MaxRequests = 1
  MaxPlayers = 0
  MaxOut = 0
  MaxEvents = 2
SPECIFICATION Spec
INVARIANTS PortsDistinct AnswersAreGood ParkedOnTheRightList AffirmationOnTheWire
PROPERTY KeepsPromise
CHECK_DEADLOCK FALSE
