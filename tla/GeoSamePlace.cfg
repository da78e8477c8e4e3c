CONSTANTS
  Member = {a, b}
  Position <- MCTwoPlaces
  NoPos = NoPos
  Side = 4
  MaxPoints = 1
  MaxDepth = 2
  Centers <- MCCenters
  Radii = {0, 1, 2, 5}
  Counts = {0}
  MaxFailures = 0
SPECIFICATION Spec
INVARIANTS
  SearchFindsMembers
