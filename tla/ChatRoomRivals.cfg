SPECIFICATION AuditSpec
CONSTANTS
  User = {1, 2, 3}
  Screen = {"a", "c"}
  senderId <- FanInSender
  recieverId <- FanInReciever
  deeds <- Rivals
  MaxMessages = 2
  MaxAppear = 1
  NoSnapshot = NoSnapshot
CHECK_DEADLOCK FALSE
INVARIANTS IndexSound NoDuplicateRooms IndexedRoomHasMessage MissingRoomWasDropped
