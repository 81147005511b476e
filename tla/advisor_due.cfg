SPECIFICATION FairSpec
CONSTANTS
  HashSize = 4
  Window = 1
  Tables = {1, 2}
  Foreign = {}
  Queries <- ThreeColumns
  BuyCost <- Buy2
  FloorCost = 1
  IndexName <- Names
  UserIndexes = {}
  AutoLike <- LikeNames
  MinExec = 1
  MaxPerTable = 1
  Events = {"use"}
  MaxQueries = 3
 
PROPERTIES
  
  
  NeverUsedIsDropped
