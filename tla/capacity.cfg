SPECIFICATION Spec
CONSTANTS
  Nil = Nil
  verify_after_mutation = FALSE
  kAmountMax = 1000000
  kScale = 10000
  kMaxLeaseDurationMs = 1000000
  Sites = {s1, s2}
  Paths = {p1}
  Requests = {r1, r2}
  Domains = {d1}
  default_domain = d1
  Incarnations = {i1}
  Leases = {}
  OversubIds = {}
  AttestationIds = {a1}
  VerificationIds = {}
  Policies <- RaisedFloor
  Epochs = {1}
  SiteGenerations = {0}
  PathGenerations = {1}
  CapacityGenerations = {1, 2}
  Usables = {2, 4}
  Amounts = {1, 2}
  Classes = {"General", "Protected"}
  Durations = {1}
  Times = {1}
  Ratios = {}
  NotAfters = {}
  SiteStateInputs = {}
  PathStateInputs = {"Up", "Down"}
  VerifyResults = {}
  ReconcileTargets = {}
  Ops <- AnonymousOps
  AckOps <- NoOps
  InitPolicy <- FloorInit
  MaxSites = 2
  MaxPaths = 1
  MaxDomains = 1
  MaxGrants = 2
  MaxAttestations = 2
  MaxVerifications = 0
  MaxOversubscriptions = 0
  MaxSiteGeneration = 2
SYMMETRY Symmetry
CHECK_DEADLOCK FALSE
INVARIANT NoOversubscription
INVARIANT FloorKeptForProtected
INVARIANT LedgerErrorBounded
INVARIANT UnavailableWithinUsable
PROPERTY ShedNewestFirst
