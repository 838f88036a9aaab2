CONSTANTS
  RxByte = {0}
  TxByte = {0, 1}
  RxCapacity = 1
  TxCapacity = 2
  Wrap = 4
  MaxDropped = 1
  Fifo = 1
  MaxRead = 1
  MaxWrite = 2
SPECIFICATION FairSpec
PROPERTIES TransmitPipe BytesAreSent
