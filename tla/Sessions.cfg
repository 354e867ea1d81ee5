SPECIFICATION FairSpec
CONSTANTS
  account = account
  w1 = w1
  Clients = {1, 2}
  Accounts <- OneAccount
  AccountOf <- AllOfOne
  Worlds <- OneWorld
  MaxLogins = 4
  MaxAsked = 2
INVARIANTS TypeOK SingleSession UsersHaveConnections
PROPERTIES NewestIsHeard WaitsEnd OldSessionsEnd
