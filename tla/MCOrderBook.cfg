SPECIFICATION FairSpec
CONSTANTS
  NumOrders = 3
  Mine <- MCMine
  Filters <- MCFilters
  Endings = {"Canceled"}
  MaxPerTick = 1
  FetchLimit = 1
  MaxTime = 5
  MaxReloads = 1
PROPERTY ListingsNeverAge BookConverges RowsFollowRelay
CHECK_DEADLOCK FALSE
