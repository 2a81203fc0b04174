SPECIFICATION FairSpec
CONSTANTS
  a1 = a1
  a2 = a2
  e1 = e1
  north = north
  south = south
  Agent = {a1, a2}
  Lga = {north, south}
  LgaOf <- BothNorth
  Edit = {e1}
  MaxRounds = 1
  Nothing = Nothing
PROPERTIES
  WaitingIsAssigned
CHECK_DEADLOCK FALSE
