SPECIFICATION Spec
CONSTANTS
  a1 = a1
  a2 = a2
  e1 = e1
  north = north
  south = south
  Agent = {a1, a2}
  Lga = {north, south}
  LgaOf <- BothNorth
  Edit = {e1}
  MaxRounds = 2
  Nothing = Nothing
SYMMETRY Agents
INVARIANTS
  FarmInStanding
PROPERTIES
  StartsClean
  StrayNeedsOverlap
CHECK_DEADLOCK FALSE
