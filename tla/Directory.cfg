SPECIFICATION Spec
CONSTANTS
  User = {1, 2, 3}
  Manager = {1, 3}
  EntryId = {1, 2, 3, 4}
  MaxOpen = 1
  MaxPress = 2
  past <- OneFriend
  NoEntry = NoEntry
CHECK_DEADLOCK FALSE
INVARIANTS TypeOK EntriesAreMutual 
 
