SPECIFICATION FairSpec
CONSTANTS
  p1 = p1 p2 = p2
  Players <- TwoPlayers
  LoadTime = 2
  EmptyTime = 2
  StartTime = 1
  MinLap = 4
  Laps = 2
  LastPoint = 2
  MaxSkip = 1
  Places <- Track
INVARIANTS TypeOK LoadedCountExact StartsComplete PlacesAreRanks LapsAreDriven
PROPERTY NobodyWaitsForEver
