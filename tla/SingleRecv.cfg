SPECIFICATION Spec
CONSTANTS
  FileSizes = {3}
  Offsets = {0}
  Blanks = {{}}
  Pieces = {2}
  RecvSize = 9
  AtOnce = AtOnce
  NoRange = NoRange
  NoEnd = NoEnd
  TooLarge = TooLarge
  NoFile = NoFile
INVARIANT
  AllReceived
CHECK_DEADLOCK FALSE
