SPECIFICATION MCSpec
CONSTANTS
  Nil = Nil
  verify_after_mutation = TRUE
  kAmountMax = 1000000
  kScale = 10000
  kMaxLeaseDurationMs = 1000000
  Sites = {s1, s2}
  Paths = {p1}
  Requests = {r1, r2}
  Domains = {d1}
  default_domain = d1
  Incarnations = {i1}
  Leases = {}
  OversubIds = {}
  AttestationIds = {a1}
  VerificationIds = {}
  Policies <- NewPolicies
  Epochs = {}
  SiteGenerations = {0}
  PathGenerations = {}
  CapacityGenerations = {}
  Usables = {2}
  Amounts = {2}
  Classes = {"General"}
  Durations = {200}
  Times = {1, 400}
  Ratios = {}
  NotAfters = {}
  SiteStateInputs = {}
  PathStateInputs = {}
  VerifyResults = {}
  ReconcileTargets = {"Active", "Retired"}
  Ops <- PlainOps
  AckOps <- NoOps
  InitPolicy <- Plain
  MaxSites = 2
  MaxPaths = 1
  MaxDomains = 1
  MaxGrants = 2
  MaxAttestations = 2
  MaxVerifications = 0
  MaxOversubscriptions = 0
  MaxSiteGeneration = 2
  s1 = s1
  s2 = s2
SYMMETRY Symmetry
CHECK_DEADLOCK FALSE
INVARIANT DurableMatchesMemory
INVARIANT LostSiteIdle
PROPERTY RestartNeverReleases
PROPERTY RestartsWhenSound
PROPERTY AmbiguousNeverAdvances
