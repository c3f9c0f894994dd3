SPECIFICATION FairSpec
CONSTANTS
  MaxIndex = 1
  MaxChanges = 2
  Devices <- MCDevices
  Names = {"axi", "gpio"}
  BufferSize = 6
  BurstSize = 2
  PacketSize = 4
  SampleSize = 3
  TransferSizes = {2, 4}
  MaxCaptured = 10
  CountRange = 2
  Words = 2
  Bits = {0, 1}
  MaskWidth = 1
  AddressSpace = 64
  FarIndices = {2, 3, 16, 17}
INVARIANTS OneDevice LeavesNothing TailIsNext PacketIsNext ShadowAgrees
PROPERTIES OthersKept DoneMeansMoved PacketsAreFetched TransfersEnd
CHECK_DEADLOCK FALSE
