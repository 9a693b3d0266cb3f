SPECIFICATION DocumentSpec
CONSTANTS
  Documents <- AllDocuments
  Calls <- AllCalls
  Pieces <- AllPieces
  Numerals <- SomeNumerals
  Location <- SomeLocation
CHECK_DEADLOCK FALSE
INVARIANTS HandlerTypeOK DescriptionBuilt PlainIsRead StacksAgree  BackPointersLive DetailsComplete
