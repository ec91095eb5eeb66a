SPECIFICATION DmaFairSpec
CONSTANTS
  QueueSizes = {2, 3}
  BufferSizes = {2}
  Capacities = {0, 3}
  InitCapacities = {0, 3}
  Lens = {1, 2}
  BankLimits = {1, 8}
  WordModulus = 8
  MaxOps = 3
INVARIANTS AcceptedArePerformed RefusedAreLeftOut BuffersAreSafe
PROPERTIES QueueDrains
