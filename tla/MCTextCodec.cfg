SPECIFICATION Spec
CONSTANTS
  Images <- MCImages
  Videos <- MCVideos
  Sounds <- MCSounds
  Texts <- MCTexts
  Rates <- MCRates
  Exts <- MCExts
  INT_MAX = 3
  Char <- MCChar
  MaxGenerations = 2
INVARIANTS OrderIrrelevant PixelsMissingOnlyBelowSound ImageComesBack VideoComesBack
  SoundComesBack RepeatedEncodingSettles ToolsFitCodec
