SPECIFICATION FairSpec
CONSTANTS
  Char <- MCChar
  Payload <- MCPayload
  Run <- MCRun
  OutSize = 3
  Texts <- MCTexts
INVARIANTS NothingLost StreamEnded OnlyAllocationFails
PROPERTY ImplementsCall
