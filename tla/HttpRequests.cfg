SPECIFICATION FairSpec
CONSTANTS
  FileSizes = {0, 1, 3}
  Offsets = {0, 1, 3, 4}
  Blanks = {{}, {0, 1}}
  Pieces = {0, 2, 3, 6}
  RecvSize = 9
  AtOnce = AtOnce
  NoRange = NoRange
  NoEnd = NoEnd
  TooLarge = TooLarge
  NoFile = NoFile
INVARIANTS
  TypeOK
  PartAsNamed
  RangeIsServed
  OverreadIsOneByte
  DownloadIsBeginning
PROPERTY
  ExchangeEnds
CHECK_DEADLOCK FALSE
