CONSTANTS
  MaxTick = 5
  MaxUsers = 2
  ServerCap = 2
  Capacity = 3
  None = None
SPECIFICATION Spec
INVARIANTS NoSilentHole
