------------------------------ MODULE Authority ------------------------------
(***************************************************************************)
(* The capacity authority (authority.cpp, authority_plan.cpp): the tables  *)
(* of sites, paths, oversubscription authorities and grants, the policy    *)
(* and the epoch.  Every plan_* method reads the current tables and        *)
(* returns the post-images of the records it changes; apply installs them. *)
(* The daemon runs plan and apply of one request under its commit mutex,   *)
(* so one action here is one accepted request: its guard is the            *)
(* conjunction of the checks the planner makes before it returns a         *)
(* mutation, and a refused request is no step.  After apply, the daemon    *)
(* runs verify_invariants and accepts no mutation any more once it fails.  *)
(*                                                                         *)
(* What the records leave out: names, reasons, digests, advertised and     *)
(* observed figures, and timestamps no planner reads.  A grant is          *)
(* identified by its request, since request_index_ maps every request to   *)
(* at most one grant and grants are never deleted; for the same reason     *)
(* arbitration numbers are those of the proposals alone, without the gaps  *)
(* other requests leave.  The mark of an uncertain commit (ambiguous) is   *)
(* only set by a restart, which module Daemon adds.                        *)
(***************************************************************************)
EXTENDS Lifecycle, Capacity, FiniteSets, FiniteSetsExt

CONSTANTS
    Nil,              \* the nil identity; also an empty table entry
    Sites, Paths, Requests, Domains,
    default_domain,   \* the domain of paths registered without one
    Incarnations, Leases, OversubIds, AttestationIds, VerificationIds,
    \* the inputs requests may carry
    Policies, Epochs, SiteGenerations, PathGenerations, CapacityGenerations, Usables, Amounts,
    Classes, Durations, Times, Ratios, NotAfters,
    SiteStateInputs, PathStateInputs, VerifyResults, ReconcileTargets,
    Ops, AckOps,
    \* configuration
    verify_after_mutation, InitPolicy, kMaxLeaseDurationMs, MaxSites, MaxPaths, MaxDomains, MaxGrants, MaxAttestations,
    MaxVerifications, MaxOversubscriptions,
    MaxSiteGeneration \* bound of the model: how often a site may be taken over

\* policy.hpp, authority_plan.cpp
kMaxOversubscriptionBps == 10 * kScale
kMaxGrantsPerPathLimit  == 1048576
kMaxGrantsPerSiteLimit  == 16777216
kMinSiteLeaseTimeoutMs  == 100
kMaxSiteLeaseTimeoutMs  == 3600000
kHeartbeatDownMultiplier == 3

VARIABLES epoch,             \* config_.epoch
          policy,            \* config_.policy
          sites, paths, domains, attestations, oversubscriptions,
          grants, verifications

vars == <<epoch, policy, sites, paths, domains, attestations,
          oversubscriptions, grants, verifications>>

------------------------------------------------------------------------------
(* Records *)

Policy ==
    [generation : Nat, protected_floor_units : Nat, protected_floor_bps : Nat,
     min_free_units : Nat, min_free_bps : Nat, max_oversubscription_bps : Nat,
     max_lease_duration_ms : Nat, max_grants_per_path : Nat,
     max_grants_per_site : Nat, max_srd_concentration_bps : Nat,
     allow_degraded_activation : BOOLEAN,
     allow_partition_optimistic_recovery : BOOLEAN,
     require_verification_for_active : BOOLEAN,
     auto_reconcile_on_restart : BOOLEAN,
     site_lease_timeout_ms : Nat]

\* A site's own epoch is left out: it never exceeds the authority's, so the
\* check of plan_register_site against it never fires.
SiteRecord == [incarnation : Incarnations, generation : Nat,
               state : SiteState, last_heartbeat_ms : Nat]

PathRecord == [shared_risk_domain : Domains, endpoint_a : Sites, endpoint_b : Sites,
               generation : Nat, capacity_generation : Nat, state : PathState,
               authoritative_usable : Nat, unavailable : Nat]

OversubscriptionAuthority ==
    [path : Paths, path_generation : Nat, capacity_generation : Nat,
     policy_generation : Nat, epoch : Nat, ratio_bps : Nat, not_after_ms : Nat]

\* GrantRecord with its GrantBinding flattened into it.
GrantRecord ==
    [holder : Sites, holder_incarnation : Incarnations, path : Paths,
     path_generation : Nat, capacity_generation : Nat, policy_generation : Nat,
     epoch : Nat, lease : Leases \cup Requests, grant_class : GrantClass,
     amount : Nat, state : GrantState, expires_at_ms : Nat, arbitration : Nat,
     verification : VerificationState, acknowledged : BOOLEAN, ambiguous : BOOLEAN]

\* A GrantOperation or GrantAcknowledgement: who acts and on which generations
\* the caller believes it acts; Nil or 0 where the caller says nothing.
GrantOperation ==
    [actor : Sites \cup {Nil}, actor_incarnation : Incarnations \cup {Nil},
     lease : Leases \cup Requests \cup {Nil}, epoch : Nat, path_generation : Nat,
     capacity_generation : Nat, policy_generation : Nat, now_ms : Nat,
     reconcile : BOOLEAN]   \* the reason given is "reconcile"

ASSUME NilAssumption ==
    /\ Nil \notin Sites /\ Nil \notin Incarnations
    /\ Nil \notin Leases /\ Nil \notin Requests
    /\ Nil \notin SiteRecord /\ Nil \notin PathRecord
    /\ Nil \notin OversubscriptionAuthority /\ Nil \notin GrantRecord

ASSUME InputAssumption ==
    /\ Policies \subseteq Policy /\ InitPolicy \in Policy
    /\ Epochs \subseteq Nat /\ SiteGenerations \subseteq Nat
    /\ PathGenerations \subseteq Nat /\ CapacityGenerations \subseteq Nat /\ Usables \subseteq Amount
    /\ Amounts \subseteq Amount /\ Durations \subseteq Nat /\ Times \subseteq Nat
    /\ Ratios \subseteq Nat /\ NotAfters \subseteq Nat
    /\ Classes \subseteq GrantClass
    /\ SiteStateInputs \subseteq SiteState /\ PathStateInputs \subseteq PathState
    /\ VerifyResults \subseteq VerificationState
    /\ ReconcileTargets \subseteq GrantState
    /\ Ops \subseteq GrantOperation /\ AckOps \subseteq GrantOperation
    /\ default_domain \in Domains
    /\ IsFiniteSet(Requests)

ASSUME LimitAssumption ==
    /\ verify_after_mutation \in BOOLEAN
    /\ kMaxLeaseDurationMs \in Nat
    /\ MaxSites \in Nat /\ MaxPaths \in Nat /\ MaxDomains \in Nat
    /\ MaxGrants \in Nat /\ MaxAttestations \in Nat
    /\ MaxVerifications \in Nat /\ MaxOversubscriptions \in Nat
    /\ MaxSiteGeneration \in Nat

\* The keys a table has a record for.
Entries(table) == {k \in DOMAIN table : table[k] # Nil}

------------------------------------------------------------------------------
(* Policy, capacity and oversubscription *)

validate(pol) ==
    /\ pol.generation # 0
    /\ pol.protected_floor_bps <= kScale
    /\ pol.min_free_bps <= kScale
    /\ pol.max_oversubscription_bps <= kMaxOversubscriptionBps
    /\ pol.max_srd_concentration_bps <= kScale
    /\ pol.max_lease_duration_ms \in 1 .. kMaxLeaseDurationMs
    /\ pol.max_grants_per_path \in 1 .. kMaxGrantsPerPathLimit
    /\ pol.max_grants_per_site \in pol.max_grants_per_path .. kMaxGrantsPerSiteLimit
    /\ pol.site_lease_timeout_ms \in kMinSiteLeaseTimeoutMs .. kMaxSiteLeaseTimeoutMs
    /\ pol.allow_partition_optimistic_recovery => pol.auto_reconcile_on_restart

(* Definitions named X_... are faulty variants of X: the errors the properties *)
(* below must notice when X is replaced by them.                              *)

\* The outage is not subtracted.
Basis_IgnoresOutage(rec) == rec.authoritative_usable

\* What is left of a path's attested capacity.
Basis(rec) == IF rec.authoritative_usable > rec.unavailable
              THEN rec.authoritative_usable - rec.unavailable ELSE 0

\* Capacity that is unavailable can neither be protected nor kept free.
protected_floor(rec, pol) ==
    min_amount(Basis(rec),
               max_amount(pol.protected_floor_units,
                          fraction_bps(rec.authoritative_usable, pol.protected_floor_bps)))

minimum_free(rec, pol) ==
    min_amount(Basis(rec),
               max_amount(pol.min_free_units,
                          fraction_bps(rec.authoritative_usable, pol.min_free_bps)))

Amount_of(g) == grants[g].amount

\* The sum of the amounts of a set of grants.
Total(G) == MapThenSumSet(Amount_of, G)

\* The grants on a path that satisfy a predicate on their record.
GrantsOn(p, P(_)) == {g \in Entries(grants) : grants[g].path = p /\ P(grants[g])}

committed(p)   == Total(GrantsOn(p, LAMBDA r : r.state \in {"Active", "Degraded"}))
reserved(p)    == Total(GrantsOn(p, LAMBDA r : r.state = "Reserved"))
withdrawing(p) == Total(GrantsOn(p, LAMBDA r : r.state = "Withdrawing"))
protected_held(p) ==
    Total(GrantsOn(p, LAMBDA r : holds_capacity(r.state) /\ r.grant_class = "Protected"))

\* The best ratio a record for exactly these generations grants, cut to the
\* policy's ceiling; 0 when there is none.  At now_ms = 0, expiry is ignored.
live_oversubscription_bps(p, rec, pol, now_ms) ==
    LET live == {o \in Entries(oversubscriptions) :
                    LET a == oversubscriptions[o] IN
                    /\ a.path = p /\ a.ratio_bps > kScale
                    /\ a.epoch = epoch
                    /\ a.policy_generation = pol.generation
                    /\ a.path_generation = rec.generation
                    /\ a.capacity_generation = rec.capacity_generation
                    /\ now_ms = 0 \/ a.not_after_ms = 0 \/ now_ms <= a.not_after_ms}
    IN  min_amount(Max({0} \cup {oversubscriptions[o].ratio_bps : o \in live}),
                   pol.max_oversubscription_bps)

\* Usable capacity and the extension a live authority adds to it.
Ceiling(p, rec, pol, now_ms) ==
    saturating_add(rec.authoritative_usable,
                   oversubscription_extension(rec.authoritative_usable,
                                              live_oversubscription_bps(p, rec, pol, now_ms)))

\* Protected grants live inside the floor, general ones outside of it.
allocatable(p, class, now_ms) ==
    LET rec      == paths[p]
        floor    == protected_floor(rec, policy)
        ceiling  == Ceiling(p, rec, policy, now_ms)
        consumed == committed(p) + reserved(p) + withdrawing(p) + floor
                        + minimum_free(rec, policy) + rec.unavailable
    IN  IF class = "Protected"
        THEN IF protected_held(p) > floor THEN 0 ELSE floor - protected_held(p)
        ELSE IF consumed < ceiling THEN ceiling - consumed ELSE 0

------------------------------------------------------------------------------
(* Dependency tracking: what a grant is bound to, and what happens to the   *)
(* grants when it changes                                                   *)

\* The record agrees with the generations, the epoch and the incarnation that
\* are current.
BindingCurrent(r) ==
    /\ r.epoch = epoch
    /\ r.holder_incarnation = sites[r.holder].incarnation
    /\ r.policy_generation = policy.generation
    /\ r.path_generation = paths[r.path].generation
    /\ r.capacity_generation = paths[r.path].capacity_generation

\* The caller's identity and lease, where it states them, are the grant's.
ActorAccepted(r, op) ==
    /\ op.actor \in {Nil, r.holder}
    /\ op.lease \in {Nil, r.lease}

\* The mark of an uncertain commit is not looked at.
check_binding_Unmarked(r, op) ==
    /\ ActorAccepted(r, op)
    /\ op.actor_incarnation \in {Nil, sites[r.holder].incarnation}
    /\ op.epoch \in {0, epoch}
    /\ op.path_generation \in {0, paths[r.path].generation}
    /\ op.capacity_generation \in {0, paths[r.path].capacity_generation}
    /\ op.policy_generation \in {0, policy.generation}
    /\ requires_current_binding(r.state) => BindingCurrent(r)

check_binding(r, op) ==
    /\ ActorAccepted(r, op)
    /\ op.actor_incarnation \in {Nil, sites[r.holder].incarnation}
    /\ op.epoch \in {0, epoch}
    /\ op.path_generation \in {0, paths[r.path].generation}
    /\ op.capacity_generation \in {0, paths[r.path].capacity_generation}
    /\ op.policy_generation \in {0, policy.generation}
    /\ requires_current_binding(r.state) => BindingCurrent(r)
    /\ r.ambiguous => r.state = "Withdrawing" \/ op.reconcile

\* The epoch is left as it was.
Rebound_KeepsEpoch(r) ==
    [r EXCEPT !.holder_incarnation = sites[r.holder].incarnation,
              !.path_generation = paths[r.path].generation,
              !.capacity_generation = paths[r.path].capacity_generation,
              !.policy_generation = policy.generation]

\* The record bound to everything that is current (reserve and reconcile).
Rebound(r) ==
    [r EXCEPT !.holder_incarnation = sites[r.holder].incarnation,
              !.path_generation = paths[r.path].generation,
              !.capacity_generation = paths[r.path].capacity_generation,
              !.policy_generation = policy.generation,
              !.epoch = epoch]

\* Every live grant is withdrawn, those that hold nothing too.
Downgraded_All(r) == IF is_terminal(r.state) THEN r ELSE [r EXCEPT !.state = "Withdrawing"]

\* Reserved grants are forgotten.
Downgraded_ActiveOnly(r) == IF r.state = "Active" THEN [r EXCEPT !.state = "Degraded"] ELSE r

\* append_downgrades: what the loss of a site or a path does to a grant on it.
Downgraded(r) ==
    IF r.state = "Active" THEN [r EXCEPT !.state = "Degraded"]
    ELSE IF r.state = "Reserved" THEN [r EXCEPT !.state = "Withdrawing"]
    ELSE r

\* General grants may take the floor.
ClassLimit_NoGuard(p, rec, pol, now_ms, class) ==
    LET ceiling == Ceiling(p, rec, pol, now_ms) IN
    IF class = "Protected" THEN protected_floor(rec, pol)
    ELSE IF ceiling > rec.unavailable THEN ceiling - rec.unavailable ELSE 0

\* How much of each class a path may keep authorised under a policy.
ClassLimit(p, rec, pol, now_ms, class) ==
    LET ceiling   == Ceiling(p, rec, pol, now_ms)
        available == IF ceiling > rec.unavailable THEN ceiling - rec.unavailable ELSE 0
        floor     == protected_floor(rec, pol)
        guard     == min_amount(available, saturating_add(floor, minimum_free(rec, pol)))
    IN  IF class = "Protected" THEN floor ELSE available - guard

\* Oldest first.
NotNewer_Reversed(G, g) == {h \in G : grants[h].arbitration >= grants[g].arbitration}

\* The grants of G that arrived no later than g.
NotNewer(G, g) == {h \in G : grants[h].arbitration <= grants[g].arbitration}

\* Each grant is held against the limit alone.
Shed_EachAlone(p, rec, pol, now_ms) ==
    {g \in GrantsOn(p, LAMBDA r : authorised(r.state)) :
        grants[g].amount > ClassLimit(p, rec, pol, now_ms, grants[g].grant_class)}

\* withdraw_to_fit: newest first, until what remains authorised fits.  A grant
\* goes exactly when it and everything older do not fit.
Shed(p, rec, pol, now_ms) ==
    LET standing(class) ==
            GrantsOn(p, LAMBDA r : authorised(r.state) /\ r.grant_class = class)
    IN  {g \in standing("Protected") \cup standing("General") :
            Total(NotNewer(standing(grants[g].grant_class), g)) > ClassLimit(p, rec, pol, now_ms, grants[g].grant_class)}

\* The record bound to the current generations of its path.
PathBound(r, rec) == [r EXCEPT !.path_generation = rec.generation,
                               !.capacity_generation = rec.capacity_generation]

\* rebalance_path: the image of grant g on path p after the path's record
\* became rec or the policy became pol; what stays authorised becomes rebound.
Rebalanced(g, p, rec, pol, now_ms, rebound) ==
    IF g \in Shed(p, rec, pol, now_ms) THEN [grants[g] EXCEPT !.state = "Withdrawing"]
    ELSE IF authorised(grants[g].state) THEN rebound ELSE grants[g]

\* The grant table after the grants in G took the image F gives them.
Updated(G, F(_)) == [g \in Requests |-> IF g \in G THEN F(g) ELSE grants[g]]

GrantsOf(s) == {g \in Entries(grants) : grants[g].holder = s}
GrantsAt(p) == {g \in Entries(grants) : grants[g].path = p}

------------------------------------------------------------------------------
(* The process starts with its configured policy and empty tables, but for *)
(* the domain of paths that name none.                                     *)
Init ==
    /\ epoch = 1
    /\ policy = InitPolicy
    /\ sites = [s \in Sites |-> Nil]
    /\ paths = [p \in Paths |-> Nil]
    /\ domains = {default_domain}
    /\ attestations = {}
    /\ oversubscriptions = [o \in OversubIds |-> Nil]
    /\ grants = [g \in Requests |-> Nil]
    /\ verifications = {}

------------------------------------------------------------------------------
(* Policy and epoch *)

install_policy(pol) ==
    /\ validate(pol)
    /\ pol.generation > policy.generation
    /\ policy' = pol
    /\ grants' = Updated(Entries(grants), LAMBDA g :
                    LET p == grants[g].path
                    IN  Rebalanced(g, p, paths[p], pol, 0,
                                   [grants[g] EXCEPT !.policy_generation = pol.generation]))
    /\ UNCHANGED <<epoch, sites, paths, domains, attestations, oversubscriptions,
                   verifications>>

\* The grants of the old epoch are ended instead of withdrawn.
bump_epoch_Retires(e) ==
    /\ e > epoch
    /\ epoch' = e
    /\ grants' = Updated({g \in Entries(grants) : authorised(grants[g].state)},
                         LAMBDA g : [grants[g] EXCEPT !.state = "Expired"])
    /\ UNCHANGED <<policy, sites, paths, domains, attestations, oversubscriptions,
                   verifications>>

\* Everything authorised under the old epoch is withdrawn, still holding.
bump_epoch(e) ==
    /\ e > epoch
    /\ epoch' = e
    /\ grants' = Updated({g \in Entries(grants) : authorised(grants[g].state)},
                         LAMBDA g : [grants[g] EXCEPT !.state = "Withdrawing"])
    /\ UNCHANGED <<policy, sites, paths, domains, attestations, oversubscriptions,
                   verifications>>

------------------------------------------------------------------------------
(* Sites *)

register_new_site(s, inc, e, now_ms) ==
    /\ e = epoch
    /\ sites[s] = Nil
    /\ Cardinality(Entries(sites)) < MaxSites
    /\ sites' = [sites EXCEPT ![s] =
                    [incarnation |-> inc, generation |-> 1, state |-> "Up",
                     last_heartbeat_ms |-> now_ms]]
    /\ UNCHANGED <<epoch, policy, paths, domains, attestations, oversubscriptions,
                   grants, verifications>>

\* The same process registers again: its lease is refreshed, nothing else.
register_same_incarnation(s, inc, e, now_ms) ==
    /\ e = epoch
    /\ sites[s] # Nil
    /\ sites[s].state # "Fenced"
    /\ inc = sites[s].incarnation
    /\ sites' = [sites EXCEPT
                    ![s].last_heartbeat_ms = now_ms,
                    ![s].state = IF @ = "Unknown" THEN "Up" ELSE @]
    /\ UNCHANGED <<epoch, policy, paths, domains, attestations, oversubscriptions,
                   grants, verifications>>

\* Another process takes the site over: the grants of the one it supersedes
\* keep their capacity but lose their authorisation and their verification.
register_new_incarnation(s, inc, e, now_ms) ==
    /\ e = epoch
    /\ sites[s] # Nil
    /\ sites[s].state # "Fenced"
    /\ inc # sites[s].incarnation
    /\ sites[s].generation < MaxSiteGeneration
    /\ sites' = [sites EXCEPT ![s] =
                    [incarnation |-> inc, generation |-> @.generation + 1,
                     state |-> "Up", last_heartbeat_ms |-> now_ms]]
    /\ grants' = Updated({g \in GrantsOf(s) : authorised(grants[g].state)},
                         LAMBDA g : [grants[g] EXCEPT !.state = "Withdrawing",
                                                      !.verification = "Unverified"])
    /\ UNCHANGED <<epoch, policy, paths, domains, attestations, oversubscriptions,
                   verifications>>

register_site(s, inc, e, now_ms) ==
    \/ register_new_site(s, inc, e, now_ms)
    \/ register_same_incarnation(s, inc, e, now_ms)
    \/ register_new_incarnation(s, inc, e, now_ms)

\* Whoever sends it is believed.
heartbeat_Unfenced(s, inc, e, gen, now_ms) ==
    /\ sites[s] # Nil
    /\ e = epoch
    /\ sites[s].state # "Fenced"
    /\ sites' = [sites EXCEPT
                    ![s].last_heartbeat_ms = now_ms,
                    ![s].state = IF @ \in {"Up", "Degraded", "Unknown"} THEN "Up" ELSE @]
    /\ UNCHANGED <<epoch, policy, paths, domains, attestations, oversubscriptions,
                   grants, verifications>>

\* A heartbeat revives a degraded site; Down, Partitioned, Maintenance and
\* Draining are left only by an operator or a new incarnation.
heartbeat(s, inc, e, gen, now_ms) ==
    /\ sites[s] # Nil
    /\ inc = sites[s].incarnation
    /\ e = epoch
    /\ sites[s].state # "Fenced"
    /\ gen \in {0, sites[s].generation}
    /\ sites' = [sites EXCEPT
                    ![s].last_heartbeat_ms = now_ms,
                    ![s].state = IF @ \in {"Up", "Degraded", "Unknown"} THEN "Up" ELSE @]
    /\ UNCHANGED <<epoch, policy, paths, domains, attestations, oversubscriptions,
                   grants, verifications>>

set_site_state(s, state) ==
    /\ sites[s] # Nil
    /\ sites' = [sites EXCEPT ![s].state = state]
    /\ grants' = Updated(IF site_requires_degradation(state) THEN GrantsOf(s) ELSE {},
                         LAMBDA g : Downgraded(grants[g]))
    /\ UNCHANGED <<epoch, policy, paths, domains, attestations, oversubscriptions,
                   verifications>>

------------------------------------------------------------------------------
(* Paths and their capacity *)

PathEndpointsOk(a, b, d) ==
    /\ a # b
    /\ sites[a] # Nil /\ sites[b] # Nil
    /\ d \in domains \/ Cardinality(domains) < MaxDomains

\* Nothing can be allocated on a new path before an attestation arrives.
register_new_path(p, a, b, d, state) ==
    /\ PathEndpointsOk(a, b, d)
    /\ paths[p] = Nil
    /\ Cardinality(Entries(paths)) < MaxPaths
    /\ domains' = domains \cup {d}
    /\ paths' = [paths EXCEPT ![p] =
                    [shared_risk_domain |-> d, endpoint_a |-> a, endpoint_b |-> b,
                     generation |-> 1, capacity_generation |-> 0, state |-> state,
                     authoritative_usable |-> 0, unavailable |-> 0]]
    /\ UNCHANGED <<epoch, policy, sites, attestations, oversubscriptions, grants,
                   verifications>>

\* A new generation of a path: the state is taken over as given, without the
\* downgrades or the availability that set_path_state attaches to it.
reregister_path(p, a, b, d, gen, state, now_ms) ==
    /\ PathEndpointsOk(a, b, d)
    /\ paths[p] # Nil
    /\ gen > paths[p].generation
    /\ domains' = domains \cup {d}
    /\ LET rec == [paths[p] EXCEPT !.shared_risk_domain = d, !.endpoint_a = a,
                                   !.endpoint_b = b, !.generation = gen,
                                   !.state = state]
       IN  /\ paths' = [paths EXCEPT ![p] = rec]
           /\ grants' = Updated(GrantsAt(p), LAMBDA g :
                            Rebalanced(g, p, rec, policy, now_ms, PathBound(grants[g], rec)))
    /\ UNCHANGED <<epoch, policy, sites, attestations, oversubscriptions,
                   verifications>>

\* Both downgrade and rebalance read the grants as they were; where they
\* disagree, the later change, Withdrawing, is what apply leaves.
set_path_state(p, state, now_ms) ==
    /\ paths[p] # Nil
    /\ LET rec  == [paths[p] EXCEPT
                        !.state = state,
                        !.unavailable = IF path_requires_degradation(state)
                                        THEN paths[p].authoritative_usable ELSE 0]
           shed == IF path_requires_degradation(state)
                   THEN Shed(p, rec, policy, now_ms) ELSE {}
           down == IF path_requires_degradation(state) \/ state = "Draining"
                   THEN GrantsAt(p) ELSE {}
       IN  /\ paths' = [paths EXCEPT ![p] = rec]
           /\ grants' = Updated(down, LAMBDA g :
                            IF g \in shed THEN [grants[g] EXCEPT !.state = "Withdrawing"]
                            ELSE Downgraded(grants[g]))
    /\ UNCHANGED <<epoch, policy, sites, domains, attestations, oversubscriptions,
                   verifications>>

\* What was unavailable stays, however little is left.
Attested_Uncapped(rec, capGen, usable) ==
    [rec EXCEPT !.capacity_generation = capGen, !.authoritative_usable = usable]

\* A path's record under a new attestation; no more can be unavailable than
\* there is.
Attested(rec, capGen, usable) ==
    [rec EXCEPT !.capacity_generation = capGen, !.authoritative_usable = usable,
                !.unavailable = min_amount(@, usable)]

\* A newer attestation replaces the authoritative figure.
attest_capacity(id, p, e, pathGen, capGen, usable, now_ms) ==
    /\ e = epoch
    /\ paths[p] # Nil
    /\ pathGen = paths[p].generation
    /\ capGen > paths[p].capacity_generation
    /\ Cardinality(attestations) < MaxAttestations
    /\ attestations' = attestations \cup {id}
    /\ LET rec == Attested(paths[p], capGen, usable)
       IN  /\ paths' = [paths EXCEPT ![p] = rec]
           /\ grants' = Updated(GrantsAt(p), LAMBDA g :
                            Rebalanced(g, p, rec, policy, now_ms, PathBound(grants[g], rec)))
    /\ UNCHANGED <<epoch, policy, sites, domains, oversubscriptions, verifications>>

\* A record under an existing identity is overwritten.
issue_oversubscription(id, a) ==
    /\ a.ratio_bps > kScale
    /\ a.ratio_bps <= kMaxOversubscriptionBps
    /\ policy.max_oversubscription_bps # 0
    /\ a.ratio_bps <= policy.max_oversubscription_bps
    /\ a.epoch = epoch
    /\ a.policy_generation = policy.generation
    /\ paths[a.path] # Nil
    /\ a.path_generation = paths[a.path].generation
    /\ a.capacity_generation = paths[a.path].capacity_generation
    /\ Cardinality(Entries(oversubscriptions)) < MaxOversubscriptions
    /\ oversubscriptions' = [oversubscriptions EXCEPT ![id] = a]
    /\ UNCHANGED <<epoch, policy, sites, paths, domains, attestations, grants,
                   verifications>>

------------------------------------------------------------------------------
(* Grants *)

\* The proposal's lease is taken as it came.
LeaseFor_Unset(lease, g) == lease

\* A proposal that brings no lease gets one of its own.
LeaseFor(lease, g) == IF lease = Nil THEN g ELSE lease

propose_grant(g, s, inc, gen, p, class, amount, duration, lease, now_ms) ==
    /\ amount # 0
    /\ duration \in 1 .. policy.max_lease_duration_ms
    /\ Cardinality(Entries(grants)) < MaxGrants
    /\ grants[g] = Nil
    /\ sites[s] # Nil
    /\ inc = sites[s].incarnation
    /\ gen \in {0, sites[s].generation}
    /\ paths[p] # Nil
    /\ s \in {paths[p].endpoint_a, paths[p].endpoint_b}
    /\ grants' = [grants EXCEPT ![g] =
            [holder |-> s, holder_incarnation |-> inc, path |-> p,
             path_generation |-> paths[p].generation,
             capacity_generation |-> paths[p].capacity_generation,
             policy_generation |-> policy.generation, epoch |-> epoch,
             lease |-> LeaseFor(lease, g),
             grant_class |-> class, amount |-> amount, state |-> "Proposed",
             expires_at_ms |-> now_ms + duration,
             arbitration |-> Cardinality(Entries(grants)) + 1,
             verification |-> "Unverified", acknowledged |-> FALSE,
             ambiguous |-> FALSE]]
    /\ UNCHANGED <<epoch, policy, sites, paths, domains, attestations,
                   oversubscriptions, verifications>>

\* Grants on the path and of the site that are not terminal, this one included.
PopulationFits(r) ==
    LET standing == {h \in Entries(grants) : ~is_terminal(grants[h].state)}
    IN  /\ Cardinality({h \in standing : grants[h].path = r.path})
                < policy.max_grants_per_path
        /\ Cardinality({h \in standing : grants[h].holder = r.holder})
                < policy.max_grants_per_site

Accepting(r) ==
    /\ site_accepts_new_reservations(sites[r.holder].state)
    /\ path_accepts_new_reservations(paths[r.path].state)

\* Only grant g changes; its record becomes r.
SetGrant(g, r) ==
    /\ grants' = [grants EXCEPT ![g] = r]
    /\ UNCHANGED <<epoch, policy, sites, paths, domains, attestations,
                   oversubscriptions, verifications>>

\* Refusal is an answer, recorded in the grant, not a rejected request.
evaluate_grant(g, op) ==
    LET r == grants[g] IN
    /\ r # Nil
    /\ r.state = "Proposed"
    /\ check_binding(r, op)
    /\ SetGrant(g, [r EXCEPT !.state = IF Accepting(r) /\ PopulationFits(r)
                                       THEN "Eligible" ELSE "Refused"])

\* The paths that share a path's risk domain, what they can carry, and what is
\* promised on them.
DomainPeers(p) == {q \in Entries(paths) :
                      paths[q].shared_risk_domain = paths[p].shared_risk_domain}
DomainUsable(p) == MapThenSumSet(LAMBDA q : paths[q].authoritative_usable, DomainPeers(p))
\* Reservations are not counted.
DomainHeld_CommittedOnly(p) == MapThenSumSet(LAMBDA q : committed(q), DomainPeers(p))
DomainHeld(p)   == MapThenSumSet(LAMBDA q : committed(q) + reserved(q), DomainPeers(p))

\* With this grant, the domain stays within the share the policy allows.
ConcentrationOk(r) ==
    LET bps == policy.max_srd_concentration_bps IN
    bps < kScale => /\ (DomainHeld(r.path) + r.amount) * kScale <= kAmountMax
                    /\ DomainUsable(r.path) * bps <= kAmountMax
                    /\ (DomainHeld(r.path) + r.amount) * kScale <= DomainUsable(r.path) * bps

reserve_grant(g, op) ==
    LET r == grants[g] IN
    /\ r # Nil
    /\ r.state = "Eligible"
    /\ check_binding(r, op)
    /\ Accepting(r)
    /\ allocatable(r.path, r.grant_class, op.now_ms) >= r.amount
    /\ ConcentrationOk(r)
    /\ SetGrant(g, [Rebound(r) EXCEPT !.state = "Reserved"])

activate_grant(g, op) ==
    LET r == grants[g] IN
    /\ r # Nil
    /\ r.state = "Reserved"
    /\ check_binding(r, op)
    /\ Accepting(r)
    /\ paths[r.path].state = "Degraded" => policy.allow_degraded_activation
    /\ policy.require_verification_for_active => r.verification = "Verified"
    /\ SetGrant(g, [r EXCEPT !.state = "Active"])

degrade_grant(g, op) ==
    LET r == grants[g] IN
    /\ r # Nil
    /\ r.state = "Active"
    /\ check_binding(r, op)
    /\ SetGrant(g, [r EXCEPT !.state = "Degraded", !.verification = "Unverified"])

withdraw_grant(g, op) ==
    LET r == grants[g] IN
    /\ r # Nil
    /\ authorised(r.state)
    /\ check_binding(r, op)
    /\ SetGrant(g, [r EXCEPT !.state = "Withdrawing"])

\* Letting go needs no current binding, only the right holder.
retire_grant(g, op) ==
    LET r == grants[g] IN
    /\ r # Nil
    /\ r.state = "Withdrawing"
    /\ ActorAccepted(r, op)
    /\ SetGrant(g, [r EXCEPT !.state = "Retired", !.verification = "Unverified"])

cancel_grant(g, op) ==
    LET r == grants[g] IN
    /\ r # Nil
    /\ can_transition(r.state, "Cancelled")
    /\ ActorAccepted(r, op)
    /\ SetGrant(g, [r EXCEPT !.state = "Cancelled"])

\* The incarnation is not compared.
acknowledge_grant_AnyRun(g, ack) ==
    LET r == grants[g] IN
    /\ r # Nil
    /\ ~is_terminal(r.state)
    /\ ack.actor \in {Nil, r.holder}
    /\ ack.epoch \in {0, epoch}
    /\ SetGrant(g, [r EXCEPT !.acknowledged = TRUE])

acknowledge_grant(g, ack) ==
    LET r == grants[g] IN
    /\ r # Nil
    /\ ~is_terminal(r.state)
    /\ ack.actor \in {Nil, r.holder}
    /\ ack.actor_incarnation \in {Nil, sites[r.holder].incarnation}
    /\ ack.epoch \in {0, epoch}
    /\ SetGrant(g, [r EXCEPT !.acknowledged = TRUE])

\* The verdict is recorded for a grant in any state, terminal ones included.
verify_grant(g, id, result) ==
    /\ grants[g] # Nil
    /\ result # "Unverified"
    /\ Cardinality(verifications) < MaxVerifications
    /\ verifications' = verifications \cup {id}
    /\ grants' = [grants EXCEPT ![g].verification = result]
    /\ UNCHANGED <<epoch, policy, sites, paths, domains, attestations,
                   oversubscriptions>>

\* An operator reinstates a grant: it is bound to what is current, and the
\* path's capacity is not consulted.
reconcile_active(g) ==
    LET r == grants[g] IN
    /\ r # Nil
    /\ holds_capacity(r.state) \/ r.state = "Eligible"
    /\ Accepting(r)
    /\ SetGrant(g, [Rebound(r) EXCEPT !.state = "Active", !.verification = "Unverified",
                                      !.ambiguous = FALSE])

reconcile_retired(g) ==
    LET r == grants[g] IN
    /\ r # Nil
    /\ ~is_terminal(r.state)
    /\ SetGrant(g, [r EXCEPT !.state = "Retired", !.verification = "Unverified",
                             !.ambiguous = FALSE])

reconcile_grant(g, target) ==
    \/ target = "Active" /\ reconcile_active(g)
    \/ target = "Retired" /\ reconcile_retired(g)

\* Sites whose heartbeat is overdue, and what plan_tick makes of each.
Overdue(s, now_ms) ==
    /\ sites[s].state \notin {"Fenced", "Maintenance", "Draining"}
    /\ sites[s].last_heartbeat_ms # 0
    /\ now_ms > sites[s].last_heartbeat_ms + policy.site_lease_timeout_ms

LongOverdue(s, now_ms) ==
    now_ms > sites[s].last_heartbeat_ms
                + kHeartbeatDownMultiplier * policy.site_lease_timeout_ms

tick(now_ms) ==
    LET late    == {s \in Entries(sites) : Overdue(s, now_ms) /\
                        (LongOverdue(s, now_ms) \/ sites[s].state = "Up")}
        expired == {g \in Entries(grants) : /\ holds_capacity(grants[g].state)
                                            /\ grants[g].expires_at_ms # 0
                                            /\ now_ms >= grants[g].expires_at_ms}
        hit     == UNION {GrantsOf(s) : s \in late}
    IN  /\ late # {} \/ expired # {}
        /\ sites' = [s \in Sites |->
                        IF s \notin late THEN sites[s]
                        ELSE [sites[s] EXCEPT !.state = IF LongOverdue(s, now_ms)
                                                        THEN "Down" ELSE "Degraded"]]
        /\ grants' = Updated(hit \cup expired, LAMBDA g :
                        IF g \in expired THEN [grants[g] EXCEPT !.state = "Expired"]
                        ELSE Downgraded(grants[g]))
        /\ UNCHANGED <<epoch, policy, paths, domains, attestations,
                       oversubscriptions, verifications>>

------------------------------------------------------------------------------
(* verify_invariants and its parts                                           *)

\* No path has more capacity taken away than it was attested to have, whatever
\* order attestations, re-registrations and outages come in.
UnavailableWithinUsable ==
    \A p \in Entries(paths) : paths[p].unavailable <= paths[p].authoritative_usable

\* What is set aside for protected grants and not yet taken by one.
protected_headroom(p) ==
    LET floor == protected_floor(paths[p], policy) IN
    IF protected_held(p) >= floor THEN 0 ELSE floor - protected_held(p)

\* The authorised obligations of every path, the untaken floor and what is
\* unavailable fit under the path's ceiling (oversubscribed == 0 in the ledger).
NoOversubscription ==
    \A p \in Entries(paths) :
        committed(p) + reserved(p) + protected_headroom(p) + paths[p].unavailable
            <= Ceiling(p, paths[p], policy, 0)

\* What verify_invariants adds up for a path stays within the width of an amount.
TotalsFit ==
    \A p \in Entries(paths) :
        LET rec   == paths[p]
            ratio == live_oversubscription_bps(p, rec, policy, 0)
        IN  /\ rec.authoritative_usable
                    + oversubscription_extension(rec.authoritative_usable, ratio) <= kAmountMax
            /\ committed(p) + reserved(p) + protected_headroom(p) + rec.unavailable
                    + withdrawing(p) + minimum_free(rec, policy) <= kAmountMax

\* ARCHITECTURE.md, invariant 5, over every state requires_current_binding
\* names: a proposed or eligible grant is bound to what is current as well.
LiveBindingsCurrent ==
    \A g \in Entries(grants) :
        requires_current_binding(grants[g].state) => BindingCurrent(grants[g])

\* ARCHITECTURE.md, invariant 4: what protected grants hold on a path, those
\* being withdrawn included, does not exceed the protected floor.
ProtectedWithinFloor ==
    \A p \in Entries(paths) : protected_held(p) <= protected_floor(paths[p], policy)

\* ARCHITECTURE.md, invariant 6: no two grants share a lease identity.
LeasesUnique ==
    \A g, h \in Entries(grants) : g # h => grants[g].lease # grants[h].lease

\* Under a policy that demands it, an active grant has been verified.
ActiveVerified ==
    policy.require_verification_for_active =>
        \A g \in Entries(grants) :
            grants[g].state = "Active" => grants[g].verification = "Verified"

\* Nothing dangles: path ends, risk domains, grant holders and grant paths are
\* in their tables.
ReferencesExist ==
    /\ \A p \in Entries(paths) :
            /\ sites[paths[p].endpoint_a] # Nil
            /\ sites[paths[p].endpoint_b] # Nil
            /\ paths[p].shared_risk_domain \in domains
    /\ \A g \in Entries(grants) :
            /\ sites[grants[g].holder] # Nil
            /\ paths[grants[g].path] # Nil

\* The check the daemon runs after every mutation.  That table sizes stay within
\* their bounds is what the planners' guards say already, and that arbitration
\* numbers are unique holds by how they are numbered here.
verify_invariants ==
    /\ UnavailableWithinUsable
    /\ TotalsFit
    /\ NoOversubscription
    /\ ProtectedWithinFloor
    /\ LeasesUnique
    /\ ReferencesExist
    /\ LiveBindingsCurrent
    /\ ActiveVerified
    /\ validate(policy)

------------------------------------------------------------------------------
(* One disjunct per request type the daemon plans. *)

ConfigNext ==
    \/ \E pol \in Policies : install_policy(pol)
    \/ \E e \in Epochs : bump_epoch(e)

SiteNext ==
    \E s \in Sites :
        \/ \E inc \in Incarnations, e \in Epochs, now_ms \in Times :
                register_site(s, inc, e, now_ms)
        \/ \E inc \in Incarnations, e \in Epochs, gen \in SiteGenerations, now_ms \in Times :
                heartbeat(s, inc, e, gen, now_ms)
        \/ \E state \in SiteStateInputs : set_site_state(s, state)

PathNext ==
    \E p \in Paths :
        \/ \E a, b \in Sites, d \in Domains, state \in PathStateInputs :
                register_new_path(p, a, b, d, state)
        \/ \E a, b \in Sites, d \in Domains, gen \in PathGenerations,
              state \in PathStateInputs, now_ms \in Times :
                reregister_path(p, a, b, d, gen, state, now_ms)
        \/ \E state \in PathStateInputs, now_ms \in Times :
                set_path_state(p, state, now_ms)
        \/ \E id \in AttestationIds, e \in Epochs, pathGen \in PathGenerations,
              capGen \in CapacityGenerations, usable \in Usables, now_ms \in Times :
                attest_capacity(id, p, e, pathGen, capGen, usable, now_ms)

OversubscriptionNext ==
    \E id \in OversubIds, p \in Paths, pathGen \in PathGenerations,
       capGen \in CapacityGenerations, pol \in Policies \cup {InitPolicy}, e \in Epochs,
       ratio \in Ratios, not_after \in NotAfters :
            issue_oversubscription(id,
                [path |-> p, path_generation |-> pathGen, capacity_generation |-> capGen,
                 policy_generation |-> pol.generation, epoch |-> e, ratio_bps |-> ratio,
                 not_after_ms |-> not_after])

GrantNext ==
    \E g \in Requests :
        \/ \E s \in Sites, inc \in Incarnations, gen \in SiteGenerations, p \in Paths,
              class \in Classes, amount \in Amounts, duration \in Durations,
              lease \in Leases \cup {Nil}, now_ms \in Times :
                propose_grant(g, s, inc, gen, p, class, amount, duration, lease, now_ms)
        \/ \E op \in Ops :
            \/ evaluate_grant(g, op)
            \/ reserve_grant(g, op)
            \/ activate_grant(g, op)
            \/ degrade_grant(g, op)
            \/ withdraw_grant(g, op)
            \/ retire_grant(g, op)
            \/ cancel_grant(g, op)
        \/ \E ack \in AckOps : acknowledge_grant(g, ack)
        \/ \E id \in VerificationIds, result \in VerifyResults : verify_grant(g, id, result)
        \/ \E target \in ReconcileTargets : reconcile_grant(g, target)

Request ==
    \/ ConfigNext
    \/ SiteNext
    \/ PathNext
    \/ OversubscriptionNext
    \/ GrantNext
    \/ \E now_ms \in Times : tick(now_ms)

\* durability_failed: an earlier request left a state that verify_invariants
\* rejects.  The state does not change afterwards, so it need not be remembered.
Next ==
    /\ verify_after_mutation => verify_invariants
    /\ Request

Spec == Init /\ [][Next]_vars

------------------------------------------------------------------------------
(* Properties *)

\* Every table holds records of its type.
TypeOK ==
    /\ epoch \in Nat
    /\ policy \in Policy
    /\ sites \in [Sites -> SiteRecord \cup {Nil}]
    /\ paths \in [Paths -> PathRecord \cup {Nil}]
    /\ domains \subseteq Domains
    /\ attestations \subseteq AttestationIds
    /\ oversubscriptions \in [OversubIds -> OversubscriptionAuthority \cup {Nil}]
    /\ grants \in [Requests -> GrantRecord \cup {Nil}]
    /\ verifications \subseteq VerificationIds

\* A grant that is reserved, active or degraded is bound to the epoch, the
\* holder incarnation and the policy, path and capacity generations that are
\* current: every operation that moves one of them on rebinds or withdraws each
\* grant that depends on it (rebalance_path, plan_bump_epoch, plan_register_site).
AuthorisedBindingCurrent ==
    \A g \in Entries(grants) : authorised(grants[g].state) => BindingCurrent(grants[g])

\* General grants never reach into the protected floor, whether or not protected
\* grants have taken it, and authorised protected grants never outgrow it.
FloorKeptForProtected ==
    \A p \in Entries(paths) :
        LET floor      == protected_floor(paths[p], policy)
            of(class)  == Total(GrantsOn(p, LAMBDA r : authorised(r.state)
                                                       /\ r.grant_class = class))
        IN  /\ of("Protected") <= floor
            /\ of("General") + floor + paths[p].unavailable
                    <= Ceiling(p, paths[p], policy, 0)

\* While a site is partitioned, down, fenced or in maintenance, none of its
\* grants is reserved or active, however it got there (an operator or missed
\* heartbeats) and whatever reaches the authority afterwards.
LostSiteIdle ==
    \A g \in Entries(grants) :
        site_requires_degradation(sites[grants[g].holder].state)
            => grants[g].state \notin {"Reserved", "Active"}

\* What is promised on the paths of a risk domain stays within the share of
\* their capacity that policy.hpp allows to be "committed at once".
SharedRiskBounded ==
    \A p \in Entries(paths) :
        DomainHeld(p) * kScale <= DomainUsable(p) * policy.max_srd_concentration_bps

\* The state of a grant moves only along kGrantTransitions, except when an
\* operator reconciles that grant.
TransitionsLegal ==
    [][\A g \in Entries(grants) :
          \/ grants'[g].state = grants[g].state
          \/ can_transition(grants[g].state, grants'[g].state)
          \/ \E target \in ReconcileTargets : reconcile_grant(g, target)]_vars

\* A change of the epoch, the policy, a path or a holder's incarnation takes
\* authorisation away but never frees capacity: exactly the grants that held
\* capacity before still hold it.
InvalidationNeverReleases ==
    [][(\/ epoch' # epoch \/ policy' # policy \/ paths' # paths
        \/ \E s \in Entries(sites) : sites'[s].incarnation # sites[s].incarnation)
       => \A g \in Entries(grants) :
            holds_capacity(grants'[g].state) <=> holds_capacity(grants[g].state)]_vars

\* When a policy, path or capacity generation moves on, a grant is withdrawn
\* only if every newer authorised grant of its class on its path goes too.
ShedNewestFirst ==
    [][(\/ policy' # policy
        \/ \E p \in Entries(paths) :
              \/ paths'[p].generation # paths[p].generation
              \/ paths'[p].capacity_generation # paths[p].capacity_generation)
       => \A g, h \in Entries(grants) :
            (/\ grants[g].path = grants[h].path
             /\ grants[g].grant_class = grants[h].grant_class
             /\ grants[g].arbitration < grants[h].arbitration
             /\ authorised(grants[g].state) /\ authorised(grants[h].state)
             /\ grants'[g].state = "Withdrawing")
            => grants'[h].state = "Withdrawing"]_vars

==============================================================================
