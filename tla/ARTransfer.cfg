SPECIFICATION ArSpec
CONSTANTS
  User = {1, 2}
  Screen = {"p", "b"}
  ArScreen = {"p"}
  senderId <- AnswerSender
  recieverId <- AnswerReciever
  deeds <- Answers
  MaxMessages = 2
  MaxAppear = 1
  NoSnapshot = NoSnapshot
CHECK_DEADLOCK FALSE
INVARIANTS AmountFollowsPicture AmountApproved
 
