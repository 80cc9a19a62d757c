SPECIFICATION Spec
CONSTANTS
  Byte <- MCByte
  AES_KEY_LENGTH = 2
  MIN_PASSWORD_LENGTH = 2
  AES_IV_LENGTH = 1
  AES_TAG_LENGTH = 2
  Noise = Noise
  INT_MAX = 3
  Passwords <- MCPasswords
  Plaintexts <- MCPlaintexts
  Ivs <- MCIvs
  Stored <- MCStored
  MaxCalls = 3
INVARIANTS TypeOK OnlySealedDataComesOut SealedDataOpens ContractKept CompleteUnlessSizeWraps ContextsFreed
