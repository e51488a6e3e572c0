SPECIFICATION FairSpec
CONSTANTS
  NumDisputes = 1
  Unasked = {"seller-refunded"}
  MaxJobs = 2
  MaxPerTick = 1
  MaxFaults = 1
INVARIANT EndedAsDecided OpenDisputeHasChats
PROPERTY DisputesClose
CHECK_DEADLOCK FALSE
