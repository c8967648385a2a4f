SPECIFICATION FairSpec
CONSTANTS
  User = {1, 2}
  Screen = {"a", "b"}
  senderId <- PairSender
  recieverId <- PairReciever
  deeds <- Crashes
  MaxMessages = 1
  MaxAppear = 1
  NoSnapshot = NoSnapshot
CHECK_DEADLOCK FALSE
INVARIANTS TypeOK IndexBacked ReceiptsByReader
PROPERTIES  ReadEventually TrafficStops
