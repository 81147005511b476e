SPECIFICATION Spec
CONSTANTS
  HashSize = 4
  Window = 1
  Tables = {1}
  Foreign = {}
  Queries <- TwoColumns
  BuyCost <- Buy2
  FloorCost = 1
  IndexName <- Names
  UserIndexes = {}
  AutoLike <- LikeNames
  MinExec = 1
  MaxPerTable = 2
  Events = {"error"}
  MaxQueries = 4
PROPERTY DueNotForgotten
