SPECIFICATION FairSpec
CONSTANTS
  Backends = {b1, b2}
  RingSize = 2
  MaxPushes = 3
  LoadsInOrder = FALSE
INVARIANTS
  ClaimsExclusive
  WrittenAccounting
PROPERTIES
  PushReturns
  
