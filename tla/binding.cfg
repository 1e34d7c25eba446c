SPECIFICATION Spec
CONSTANTS
  Nil = Nil
  verify_after_mutation = FALSE
  kAmountMax = 1000000
  kScale = 10000
  kMaxLeaseDurationMs = 1000000
  Sites = {s1, s2}
  Paths = {p1}
  Requests = {r1}
  Domains = {d1}
  default_domain = d1
  Incarnations = {i1, i2}
  Leases = {}
  OversubIds = {}
  AttestationIds = {a1}
  VerificationIds = {}
  Policies <- RaisedFloor
  Epochs = {1, 2}
  SiteGenerations = {0}
  PathGenerations = {1, 2}
  CapacityGenerations = {1, 2}
  Usables = {2}
  Amounts = {1}
  Classes = {"General"}
  Durations = {1}
  Times = {1}
  Ratios = {}
  NotAfters = {}
  SiteStateInputs = {"Down"}
  PathStateInputs = {"Up", "Down"}
  VerifyResults = {}
  ReconcileTargets = {"Active", "Retired"}
  Ops <- BindingOps
  AckOps <- AnonymousOps
  InitPolicy <- NoFloor
  MaxSites = 2
  MaxPaths = 1
  MaxDomains = 1
  MaxGrants = 1
  MaxAttestations = 2
  MaxVerifications = 0
  MaxOversubscriptions = 0
  MaxSiteGeneration = 2
SYMMETRY Symmetry
CHECK_DEADLOCK FALSE
INVARIANT TypeOK
INVARIANT AuthorisedBindingCurrent
PROPERTY TransitionsLegal
PROPERTY InvalidationNeverReleases
