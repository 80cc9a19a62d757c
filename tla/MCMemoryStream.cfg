SPECIFICATION StreamSpec
CONSTANTS
  Octet <- MCOctet
  Buffers <- MCBuffers
  Width = 4
  MaxData = 5
PROPERTY KeepsByteStream
