CONSTANTS
  NoRow = NoRow
  NoMsg = NoMsg
  Trades <- SomeTrades
  Respawned <- RespawnedTrades
  MaxRestarts = 1
  MaxReloads = 1
  MaxUnread = 2
SPECIFICATION FairSpec
INVARIANTS NeverBackward LiveOrderIsTracked DeadOrderIsReleased RowsAgree ChatsOnlyForLiveOrders NothingMissed CancelIsRecorded CardSettles CardAndEnterAgree PopupKeepsPhase
PROPERTIES TimelineOnlyForward EventuallyCaughtUp
CHECK_DEADLOCK FALSE
