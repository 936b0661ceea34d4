CONSTANTS
  NoView = NoView
  NoFilter = NoFilter
  Slots = {a, b}
  Stores = {s1, s2}
  Queries <- MCQueries
  Filters <- MCFilters
  TypeSets <- MCTypeSets
  World <- MCWorld
  Boxes <- MCBoxes
  Related <- MCRelated
  Capacity = 2
SYMMETRY Same
SPECIFICATION Spec
INVARIANTS
  TypeOK
PROPERTIES
  ViewsExact
