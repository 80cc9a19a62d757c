SPECIFICATION FairSpec
CONSTANTS
  Char <- MCChar
  Payload <- MCPayload
  Run <- MCRun
  OutSize = 2
  Inputs <- MCInputs
INVARIANTS TypeOK NothingLost StreamEnded BufErrorAfterAllDelivered
PROPERTY ImplementsCall
