SPECIFICATION FairSpec
CONSTANTS
  Consumer = {c1, c2}
  Element = {a, b}
  DefaultSize = 2
  ConfigSize = 1
  MaxPush = 4
INVARIANTS
  EmptyPopsBounded
PROPERTIES
  EveryElementDelivered
  ImplementsFifo
