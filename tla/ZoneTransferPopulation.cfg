CONSTANTS
  Servers = {s1}
  Zones <- OneZone
  Passwords = {}
  NoPassword = NoPassword
  SoftCap <- CapOne
  PortStart = 3000
  Events = {"idle", "crash", "timeout", "lose", "lateEntry", "unreported"}
  MaxWorlds = 3
  MaxRequests = 2
  MaxPlayers = 2
  MaxOut = 2
  MaxEvents = 2
SPECIFICATION Spec
INVARIANTS TypeOK ClientCountCoversPopulation
CHECK_DEADLOCK FALSE
