SPECIFICATION LibSpec
CONSTANTS
  INT_MAX = 31
  MaxSide = 7
  Pngs <- MCPngs
  Jpegs <- MCJpegs
  Images <- MCImages
  Alpha = 255
INVARIANTS ResourcesReleased PixelsPassThrough
