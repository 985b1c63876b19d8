SPECIFICATION FairSpec
CONSTANTS
  short = short
  long = long
  Command = {short, long}
  SizeOf <- MCSizeOf
  HeadSize = 2
  Room = 6
  MaxWritten = 4
INVARIANTS
  InOrder
  NothingLost
PROPERTIES
  RefinesChannel
  EverythingArrives
