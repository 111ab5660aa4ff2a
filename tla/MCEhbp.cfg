SPECIFICATION FairSpec
CONSTANTS
  Keys <- MCKeys
  Answers = {"first", "second"}
  Message <- MCMessage
  Chunks <- MCChunks
  MaxChunks = 3
  Limit = 9
INVARIANTS
  SealedToTheAttestedKey
  OpenedIsPrefix
  OpenedWhole
  FaithfulAnswerArrives
PROPERTY
  ExchangeEnds
CHECK_DEADLOCK FALSE
