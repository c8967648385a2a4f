SPECIFICATION FairSpec
CONSTANTS
  Doc = {d1, d2}
  Outside = outside
  Listener = {l1, l2}
  MaxWrites = 2
  MaxVersions = 4
  Stamped = {1}
INVARIANTS TypeOK CacheHoldsSnapshot ViewIsLocal ListenersAgree
PROPERTIES NeverBack Converges FirstEvent
