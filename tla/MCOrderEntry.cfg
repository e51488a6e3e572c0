CONSTANTS
  Codes = {"USD", "EUR"}
  Half = Half
  Blank = Blank
  Junk = Junk
  Word = Word
  NoLimit = NoLimit
  NoForm = NoForm
  NoTake = NoTake
  FormTexts <- MCFormTexts
  Instances <- MCInstances
  Orders <- MCOrders
  TakeTexts <- MCTakeTexts
  MaxAsked = 2
SPECIFICATION Spec
INVARIANT ReadyIsSentAsShown
INVARIANT OneVersion
PROPERTY DraftIsKept
INVARIANT TakenWithinRange
