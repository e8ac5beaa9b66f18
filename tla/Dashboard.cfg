SPECIFICATION Spec
CONSTANTS
  ServiceBus = ServiceBus
  c1 = c1
  c2 = c2
  Clients = {c1, c2}
  Kinds = {ServiceBus}
  Step <- MCStep
  Span = 4
  MaxEngines = 2
  MaxGroups = 2
  MaxChanged = 1
SYMMETRY Symmetry
CONSTRAINT Small
INVARIANTS TypeOK IdsDistinct AddressesDistinct WithinReach FilesInSync
CHECK_DEADLOCK FALSE
