------------------------------ MODULE MCOperator ------------------------------
(***************************************************************************)
(* Two operators and an authority with two sites, a path, a second one to  *)
(* be registered, and a grant.                                             *)
(***************************************************************************)
EXTENDS Operator, TLC

CONSTANTS s1, s2, p1, p2, r1, i1, i2

MCPolicy ==
    [generation |-> 1, protected_floor_units |-> 0, protected_floor_bps |-> 0,
     min_free_units |-> 0, min_free_bps |-> 0, max_oversubscription_bps |-> 20000,
     max_lease_duration_ms |-> 1000, max_grants_per_path |-> 10,
     max_grants_per_site |-> 10, max_srd_concentration_bps |-> kScale,
     allow_degraded_activation |-> FALSE,
     allow_partition_optimistic_recovery |-> FALSE,
     require_verification_for_active |-> FALSE,
     auto_reconcile_on_restart |-> FALSE, site_lease_timeout_ms |-> 100]

None == {}

SetUp ==
    /\ OperatorInit
    /\ epoch = 1
    /\ policy = InitPolicy
    /\ sites = [s \in Sites |-> [incarnation |-> i1, generation |-> 1, state |-> "Up",
                                 last_heartbeat_ms |-> 1]]
    /\ paths = [p \in Paths |-> IF p = p2 THEN Nil ELSE
                    [shared_risk_domain |-> default_domain, endpoint_a |-> s1,
                     endpoint_b |-> s2, generation |-> 1, capacity_generation |-> 1,
                     state |-> "Up", authoritative_usable |-> 2, unavailable |-> 0]]
    /\ domains = Domains
    /\ attestations = {}
    /\ oversubscriptions = [o \in OversubIds |-> Nil]
    /\ grants = [g \in Requests |-> Nil]
    /\ verifications = {}

PolicyCommands ==
    {[name |-> "policy-install", set |-> [protected_floor_units |-> 1], generation |-> 0],
     [name |-> "policy-install", set |-> [min_free_units |-> 1], generation |-> 0],
     [name |-> "policy-install", set |-> [min_free_units |-> 0], generation |-> 3]}

CapacityCommands ==
    {[name |-> "attest", path |-> p1, usable |-> 1, generation |-> 0],
     [name |-> "attest", path |-> p1, usable |-> 3, generation |-> 3],
     [name |-> "oversubscribe", path |-> p1, ratio_bps |-> 15000, not_after_ms |-> 0],
     [name |-> "path-register", path |-> p1, a |-> s1, b |-> s2, domain |-> default_domain,
      generation |-> 2, state |-> "Up"],
     [name |-> "path-register", path |-> p2, a |-> s1, b |-> s2, domain |-> default_domain,
      generation |-> 1, state |-> "Up"],
     [name |-> "path-state", path |-> p1, state |-> "Down"]}

GrantCommands ==
    {[name |-> n, grant |-> r1, actor |-> Nil, incarnation |-> Nil]
        : n \in {"grant-evaluate", "grant-reserve", "grant-activate", "grant-degrade",
                 "grant-withdraw", "grant-retire", "grant-cancel", "grant-ack"}} \cup
    {[name |-> "grant-propose", site |-> s1, path |-> p1, class |-> "General", amount |-> 1,
      duration |-> 1, incarnation |-> Nil, request |-> Nil],
     [name |-> "grant-reconcile", grant |-> r1, target |-> "Active"],
     [name |-> "grant-verify", grant |-> r1, result |-> "Verified"]}

SiteCommands ==
    {[name |-> "site-register", site |-> s1, incarnation |-> Nil],
     [name |-> "site-state", site |-> s1, state |-> "Down"],
     [name |-> "tick"],
     [name |-> "epoch-bump", epoch |-> 0]}

AllCommands == PolicyCommands \cup CapacityCommands \cup GrantCommands \cup SiteCommands

Named(names) == {c \in AllCommands : c.name \in names}

\* What is configured against what is configured; most of what is done with a
\* grant against the epoch and the site's runs; what authorises a grant against
\* overbooking, the epoch and the loss of the site; and what is said of a grant
\* against the epoch and its path.
Shifts ==
    {PolicyCommands \cup {c \in CapacityCommands : c.path = p1},
     (GrantCommands \ Named({"grant-ack", "grant-verify"}))
        \cup Named({"site-register", "epoch-bump"}),
     Named({"oversubscribe", "epoch-bump", "site-state", "tick", "grant-propose",
            "grant-evaluate", "grant-reserve", "grant-activate"}),
     Named({"path-register", "epoch-bump", "grant-propose", "grant-ack", "grant-verify"})}

\* Bound of the instance: the commands that are tried together.
VARIABLE shift

MCInit == SetUp /\ shift \in Shifts

MCNext ==
    /\ OperatorNext
    /\ \A o \in Operators : command'[o] \in shift \cup {Nil}
    /\ UNCHANGED shift

MCSpec == MCInit /\ [][MCNext]_<<allVars, shift>>

OperatorSymmetry == Permutations(Operators)
===============================================================================
