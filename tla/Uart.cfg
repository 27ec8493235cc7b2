SPECIFICATION Spec
CONSTANTS
  Bytes = 4
  Skipped = 1
  Parsed = 2
  Table = 5
  IspWords = 2
  Depth = 5
  MaxLost = 9
INVARIANTS UartTypeOK UploadIntact RefusedForCause
PROPERTY UartDecides
