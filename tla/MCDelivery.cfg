SPECIFICATION DeliveryFairSpec
CONSTANTS
  MaxSignals = 3
  MaxQueue = 2
  MaxRetries = 2
  MaxCrashes = 1
  Matches = {unmatched, sig}
  Unmatched = unmatched
  MaxChanges = 1
  Unlucky = {2}
INVARIANTS DeliveryTypeOK QueueBounded StoredOnce AccountedFor NewestKept
PROPERTY QueueDrains
