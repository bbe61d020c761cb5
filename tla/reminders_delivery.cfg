SPECIFICATION LiveReminderSpec
CONSTANTS
  n1 = n1  n2 = n2  w1 = w1  w2 = w2
  NoNotice = NoNotice
  Notices = {n1, n2}
  Cycles = {w1, w2}
  MaxDeliveryAttempts = 2
  Lease = 2
  Backoff <- OneRetry
  Horizon = 2
INVARIANTS
  MailBudget
PROPERTIES
  SettledForGood
  ReminderSettles
