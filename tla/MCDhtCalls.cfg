SPECIFICATION FairSpec
CONSTANTS
  Proc = {p1, p2}
  Char <- MCChar
  Payload <- MCPayload
  Run <- MCRun
  OutSize = 1
  Byte <- MCByte
  Noise = Noise
  AES_KEY_LENGTH = 2
  MIN_PASSWORD_LENGTH = 2
  AES_IV_LENGTH = 1
  AES_TAG_LENGTH = 1
  INT_MAX = 100
  Path <- MCPath
  Ext <- MCExt
  Calls <- MCCalls
  Ivs <- MCIvs
  Media <- MCMedia
  Junk <- MCJunk
  NoText = NoText
  NoFile = NoFile
  Chunk = 3
INVARIANTS RejectedCallKeepsOutput SealedTextIsTheInput
PROPERTIES OnlyOutputsChange CallsEnd
