SPECIFICATION LiveSpec
CONSTANTS
  ev1 = ev1  e1 = e1  w1 = w1  w2 = w2
  None = None
  Events = {ev1}
  Endpoints = {e1}
  Wants <- AllEvents
  Workers = {w1, w2}
  MaxAttempts = 3
  Stale = 1
  Delays <- TwoDelays
  MaxReplays = 2
INVARIANTS
  NothingStranded
PROPERTIES
  ImplementsContract
  DeliverySettles
