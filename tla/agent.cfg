SPECIFICATION MCSpec
CONSTANTS
  Nil = Nil
  verify_after_mutation = FALSE
  kAmountMax = 1000000
  kScale = 10000
  kMaxLeaseDurationMs = 1000000
  Sites = {s1, s2}
  Paths = {p1}
  Requests = {r1, r2}
  Domains = {d1}
  default_domain = d1
  Incarnations = {i1, i2}
  Leases = {}
  OversubIds = {}
  AttestationIds = {a1}
  VerificationIds = {}
  Policies <- None
  Epochs = {2}
  SiteGenerations = {0}
  PathGenerations = {}
  CapacityGenerations = {}
  Usables = {2}
  Amounts = {1}
  Classes = {"General"}
  Durations = {1000}
  Times = {1, 150, 500}
  Ratios = {}
  NotAfters = {}
  SiteStateInputs = {"Fenced"}
  PathStateInputs = {}
  VerifyResults = {}
  ReconcileTargets = {"Active"}
  Ops <- None
  AckOps <- None
  InitPolicy <- MCPolicy
  MaxSites = 2
  MaxPaths = 1
  MaxDomains = 1
  MaxGrants = 2
  MaxAttestations = 2
  MaxVerifications = 0
  MaxOversubscriptions = 0
  MaxSiteGeneration = 3
  site = s1
  peer = s2
  path = p1
  Horizon = 150
CHECK_DEADLOCK FALSE
PROPERTY SupersededChangesNothing
PROPERTY LeaseRefreshedByHolder
PROPERTY SupersededEnds
PROPERTY OrphanedLosesAuthority
