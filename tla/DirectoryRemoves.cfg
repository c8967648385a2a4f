SPECIFICATION Spec
CONSTANTS
  User = {1, 2, 3}
  Manager = {1}
  EntryId = {1, 2, 3, 4}
  MaxOpen = 1
  MaxPress = 1
  past <- TwoFriends
  NoEntry = NoEntry
CHECK_DEADLOCK FALSE
INVARIANT RemovesItsContact
