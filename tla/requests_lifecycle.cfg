SPECIFICATION LiveSpec
CONSTANTS
  r1 = r1  p1 = p1  v1 = v1  w1 = w1  w2 = w2  u1 = u1  u2 = u2
  None = None
  Requests = {r1}
  PlainLinks = {p1}
  Vendors = {v1}
  VendorOf <- OneVendor
  Workers = {w1, w2}
  Uploads = {u1, u2}
  MaxAttempts = 2
  VendorOpenLimit = 1
  Lease = 1
  Backoff <- OneRetry
  Ttls = {3}
  PlainUses = {1}
  MaxTime = 3
INVARIANTS
  TokenOnlyWhileMailDue
  OpenRequestIsAnswerable
  SubmittedByItsOwnLink
  EventsMatchRows
PROPERTIES
  ImplementsContract
  RequestEventuallyCloses
CHECK_DEADLOCK FALSE
