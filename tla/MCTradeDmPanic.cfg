CONSTANTS
  NoRow = NoRow
  NoMsg = NoMsg
  Trades <- CanceledTrades
  Respawned = {}
  MaxRestarts = 0
  MaxReloads = 0
  MaxUnread = 2
SPECIFICATION Spec
INVARIANTS NoPanic
CHECK_DEADLOCK FALSE
