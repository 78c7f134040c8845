SPECIFICATION BoardsSpec
CONSTANTS
  titleField = titleField
  statusField = statusField
  ownerField = ownerField
  repoField = repoField
  c1 = c1
  c2 = c2
  c3 = c3
  board1 = board1
  board2 = board2
  space1 = space1
  space2 = space2
  p1 = p1
  p2 = p2
CONSTANT WriteRegimes <- Writings
CONSTANT FieldRegimes <- FieldWork
CONSTANT ReadRegimes <- Searches
CONSTANT StatusBoards <- MCStatusBoards
CONSTANT SchemaRegimes <- MCSchemaRegimes
CONSTANT ValueBoards <- MCValueBoards
CONSTANT AskedTypes <- MCAskedTypes
CONSTANT AskedPriorities <- MCAskedPriorities
CONSTANT AskedRepos <- MCAskedRepos
CONSTANT CatalogRegimes <- MCCatalogRegimes
CONSTANT Layouts <- MCLayouts
CONSTANT TaskRegimes <- MCTaskRegimes
CONSTANT Requests <- MCRequests
INVARIANT ClientIsTrue
INVARIANT BoardsAreRead
INVARIANT TasksAreSound
PROPERTY CachesWearOff
PROPERTY PlacesAreKept
CHECK_DEADLOCK FALSE
