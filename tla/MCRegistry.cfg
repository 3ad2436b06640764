\* Two capabilities, one of them in two versions; a page of one, and two requests at a time.
CONSTANTS
  a = a
  b = b
  t = t
  pub = pub
  x = x
  y = y
  None = None
  Unset = Unset
  Capabilities <- MCCapabilities
  Categories = {"data"}
  Tags = {t}
  Publishers <- MCPublishers
  Subjects = {a, b}
  Attestors = {x, y}
  Scores = {50, 81}
  MinAttestations = 1
  Capability = {a}
  ProviderOf <- MCProviderOf
  PricingOf <- MCPricingOf
  Consumer = {x}
  OverdueAfter = 0
  MaxTime = 2
  MaxUsage = 1
  MaxInvoices = 1
  MaxPayouts = 2
  MaxCalls = 2
  RequireVerification = TRUE
  Signatures = {"none"}
  Quantities = {2}
  Cards <- MCCards
  Periods <- MCPeriods
  Slots = {1, 2}
  SyncLimit = 1
  Many = 2
  MaxChanges = 2
SPECIFICATION MCSpec
INVARIANTS PaidIsCharged DisjointPayoutsAreCovered AggregatesAreOfAMoment LookupsFind
PROPERTIES CacheConverges
CHECK_DEADLOCK FALSE
