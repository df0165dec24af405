SPECIFICATION Spec
CONSTANTS
  Layers = {l1, l2, l3}
  Ids = {i1, i2, i3, i4}
SYMMETRY MCSymmetry
INVARIANTS TypeOK OneRelation FoundIsVisible
PROPERTY ImplementsMap
CHECK_DEADLOCK FALSE
