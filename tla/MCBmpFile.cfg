SPECIFICATION Spec
CONSTANTS
  INT_MAX = 255
  Pictures <- MCPictures
  Foreign <- MCForeign
  Headers <- MCHeaders
  Cut = Cut
  NoFile = NoFile
INVARIANTS RowsComeBack StaysInside FileClosed
