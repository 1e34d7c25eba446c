SPECIFICATION MCSpec
CONSTANTS
  Nil = Nil
  verify_after_mutation = FALSE
  kAmountMax = 1000000
  kScale = 10000
  kMaxLeaseDurationMs = 1000000
  Sites = {s1, s2}
  Paths = {p1, p2}
  Requests = {r1}
  Domains = {d1}
  default_domain = d1
  Incarnations = {i1, i2}
  Leases = {}
  OversubIds = {v1}
  AttestationIds = {a1}
  VerificationIds = {v1}
  Policies <- None
  Epochs = {}
  SiteGenerations = {0}
  PathGenerations = {}
  CapacityGenerations = {}
  Usables = {2}
  Amounts = {1}
  Classes = {"General"}
  Durations = {1000}
  Times = {400}
  Ratios = {}
  NotAfters = {}
  SiteStateInputs = {}
  PathStateInputs = {}
  VerifyResults = {}
  ReconcileTargets = {}
  Ops <- None
  AckOps <- None
  InitPolicy <- MCPolicy
  MaxSites = 2
  MaxPaths = 2
  MaxDomains = 1
  MaxGrants = 1
  MaxAttestations = 2
  MaxVerifications = 1
  MaxOversubscriptions = 1
  MaxSiteGeneration = 2
  Operators = {o1, o2}
  MaxGeneration = 3
  s1 = s1
  s2 = s2
  p1 = p1
  p2 = p2
  r1 = r1
  i1 = i1
  i2 = i2
  Commands <- AllCommands
SYMMETRY OperatorSymmetry
CHECK_DEADLOCK FALSE
PROPERTY NoLostPolicyUpdate
PROPERTY ActsOnWhatItRead
