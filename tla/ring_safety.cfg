SPECIFICATION Spec
CONSTANTS
  Backends = {b1, b2}
  RingSize = 3
  MaxPushes = 4
  LoadsInOrder = TRUE
SYMMETRY BackendSymmetry
INVARIANTS
  TypeOK
  RingBound
  LiveSlotsExclusive
  MisreadsAreOvertakes
PROPERTY RefinesWindow
