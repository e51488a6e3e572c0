SPECIFICATION FairSpec
CONSTANTS
  BondReplies = {"AddInvoice", "WaitingBuyerInvoice"}
  MaxAsked = 2
  MaxNotes = 2
INVARIANT WaitHasAnswer
PROPERTIES WaitEnds QuestionSurvives
CHECK_DEADLOCK FALSE
