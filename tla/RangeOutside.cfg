SPECIFICATION Spec
CONSTANTS
  FileSizes = {3}
  Offsets = {0, 3}
  Blanks = {{}}
  Pieces = {2}
  RecvSize = 9
  AtOnce = AtOnce
  NoRange = NoRange
  NoEnd = NoEnd
  TooLarge = TooLarge
  NoFile = NoFile
INVARIANT
  RangeOutsideSendsEverything
CHECK_DEADLOCK FALSE
