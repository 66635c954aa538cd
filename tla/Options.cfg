CONSTANTS
  Radix = 4
  MessageType = 2
  BufferSize = 6
  ScanLimit = 8
  MaxReceived = 5
  MaxOptions = 2
  MaxRoom = 12
SPECIFICATION Spec
INVARIANTS
  TypeOK
  SerializedIsParsed
  SerializeUsesRoom
  ScanFindsWhatSearchFinds
PROPERTIES
  ParseKeepsWhatIsThere
