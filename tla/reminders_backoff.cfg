SPECIFICATION SteadyReminderSpec
CONSTANTS
  n1 = n1  n2 = n2  w1 = w1  w2 = w2
  NoNotice = NoNotice
  Notices = {n1}
  Cycles = {w1}
  MaxDeliveryAttempts = 3
  Lease = 2
  Backoff <- TwoRetries
  Horizon = 3
PROPERTIES
  BackoffKept
