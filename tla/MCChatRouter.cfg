SPECIFICATION ChatSpec
CONSTANTS
  Chats = {"c"}
  Messages <- MCMessages
  LongTexts = {"ours"}
  Legacy <- MCLegacy
  Burst = 1
  OuterCap = 1
  QueueCap = 1
  MaxClock = 2
  MaxFaults = 1
  MaxSpawns = 1
INVARIANT ChatLosesNothing ScreenIsTranscript
PROPERTY KeepsTranscript
CHECK_DEADLOCK FALSE
