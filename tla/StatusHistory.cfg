CONSTANT MaxWrites = 5
SPECIFICATION HistorySpec
INVARIANT HistoryOnlyMovesForward
CHECK_DEADLOCK FALSE
