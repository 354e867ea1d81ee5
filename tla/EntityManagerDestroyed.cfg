CONSTANTS
  p1 = p1
  p2 = p2
  dragon = dragon
  flag = flag
  gate = gate
  hill = hill
  Players <- TwoPlayers
  Candidates <- OneCandidate
  Plain <- OnePlain
  Spots <- Places
  Origin = gate
  Distance <- Distances
  MaxLoads = 3
SPECIFICATION Spec
INVARIANT OnlyEntitiesAreShown
SYMMETRY Symmetry
CHECK_DEADLOCK FALSE
