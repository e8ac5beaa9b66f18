SPECIFICATION Spec
CONSTANTS
  Clients = {c1}
  MaxItems = 2
  MaxLives = 2
INVARIANTS CalmStopSaves CausalCut
