SPECIFICATION Spec
CONSTANTS
  Nil = Nil
  verify_after_mutation = FALSE
  kAmountMax = 1000000
  kScale = 10000
  kMaxLeaseDurationMs = 1000000
  Sites = {s1, s2}
  Paths = {p1, p2}
  Requests = {r1, r2}
  Domains = {d1}
  default_domain = d1
  Incarnations = {i1}
  Leases = {}
  OversubIds = {o1}
  AttestationIds = {a1}
  VerificationIds = {}
  Policies <- LowerOverbooking
  Epochs = {1}
  SiteGenerations = {0}
  PathGenerations = {1}
  CapacityGenerations = {1}
  Usables = {2}
  Amounts = {1, 2}
  Classes = {"General"}
  Durations = {1}
  Times = {1}
  Ratios = {20000}
  NotAfters = {0, 1}
  SiteStateInputs = {}
  PathStateInputs = {"Up"}
  VerifyResults = {}
  ReconcileTargets = {}
  Ops <- TimedOps
  AckOps <- NoOps
  InitPolicy <- Overbooking
  MaxSites = 2
  MaxPaths = 2
  MaxDomains = 1
  MaxGrants = 2
  MaxAttestations = 2
  MaxVerifications = 0
  MaxOversubscriptions = 1
  MaxSiteGeneration = 2
SYMMETRY Symmetry
CHECK_DEADLOCK FALSE
INVARIANT NoOversubscription
INVARIANT SharedRiskBounded
