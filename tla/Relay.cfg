CONSTANTS MsgSize = 6  FILEBUFFERSIZE = 4  MaxPkt = 4
          HdrSize = 2  Starts = {0, 1}  MaxOut = 3  ULONG = 16
SPECIFICATION RelaySpec
INVARIANTS NothingMisplaced NothingLost RelayedRight NeverRunsDry
PROPERTIES StoresInPlace
