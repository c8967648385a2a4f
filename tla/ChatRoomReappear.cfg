SPECIFICATION Spec
CONSTANTS
  User = {1, 2}
  Screen = {"a"}
  senderId <- AloneSender
  recieverId <- AloneReciever
  deeds <- Returns
  MaxMessages = 2
  MaxAppear = 2
  NoSnapshot = NoSnapshot
CHECK_DEADLOCK FALSE
INVARIANT RowsBacked
