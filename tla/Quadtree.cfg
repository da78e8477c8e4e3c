CONSTANTS
  Member = {a, b, c}
  Position <- MCPosition
  NoPos = NoPos
  Side = 4
  MaxPoints = 1
  MaxDepth = 2
  Centers <- MCCenters
  Radii = {0, 2, 5}
  Counts = {0, 1}
  MaxFailures = 1
SYMMETRY Symmetry
SPECIFICATION Spec
INVARIANTS
  TreeOK
  SearchMissesOnlyTheRim
  SearchIsNearest
  StoredAreCurrent
  EveryPlaceIsIndexed
  IndexIsExact
PROPERTY ImplementsGeoObject
