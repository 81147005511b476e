SPECIFICATION Spec
CONSTANTS
  HashSize = 4
  Window = 1
  Tables = {1}
  Foreign = {3}
  Queries <- WithForeign
  BuyCost <- Buy2
  FloorCost = 1
  IndexName <- Names
  UserIndexes <- LookAlike
  AutoLike <- LikeNames
  MinExec = 1
  MaxPerTable = 2
  Events = {"drop", "error", "exit", "crash", "use"}
  MaxQueries = 4
INVARIANTS
  TypeOK
  
 
