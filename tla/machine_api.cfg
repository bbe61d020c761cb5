CONSTANTS
  p = p q = q h = h i = i j = j k1 = k1 k2 = k2 k3 = k3
  edit = edit deactivate = deactivate submit = submit resubmit = resubmit ask = ask again = again askOther = askOther askThird = askThird cancel = cancel create = create
  None = None
  Processes = {p, q}
  Handlers = {h, i, j}
  Calls = {edit, deactivate, submit, resubmit, ask, again, askOther, askThird, cancel, create}
  Keys = {k1, k2, k3}
  Scenarios <- MCScenarios
  HostOf <- MCHostOf
  KeyOf <- MCKeyOf
  OpOf <- MCOpOf
  AboutOf <- MCAboutOf
  RecipientOf <- MCRecipientOf
  Ttl = 2
  MaximumActive = 1
  Window = 1
  OrganizationLimit = 2
  RecipientLimit = 1
  MaxTime = 2
  MaxFaults = 1
SPECIFICATION Spec
INVARIANT EveryEditOnceAndKept CapacityExact FilesMatchRows MailLimits
PROPERTY ImplementsContract
CHECK_DEADLOCK FALSE
