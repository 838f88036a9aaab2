CONSTANTS
  RxByte = {0, 1}
  TxByte = {0}
  RxCapacity = 2
  TxCapacity = 2
  Wrap = 4
  MaxDropped = 1
  Fifo = 1
  MaxRead = 2
  MaxWrite = 1
SPECIFICATION Spec
INVARIANT NewsOfBytes
PROPERTY ReceivePipe
