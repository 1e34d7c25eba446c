------------------------------- MODULE MCDaemon -------------------------------
(***************************************************************************)
(* Small instances of the daemon.  They start from a daemon that has been  *)
(* set up: two sites, a path between them and its capacity attested.       *)
(***************************************************************************)
EXTENDS Daemon, TLC

CONSTANTS s1, s2

\* Policy::conservative_default without a protected floor.
MCPolicy(gen) ==
    [generation |-> gen, protected_floor_units |-> 0, protected_floor_bps |-> 0,
     min_free_units |-> 0, min_free_bps |-> 0, max_oversubscription_bps |-> 0,
     max_lease_duration_ms |-> 1000, max_grants_per_path |-> 10,
     max_grants_per_site |-> 10, max_srd_concentration_bps |-> kScale,
     allow_degraded_activation |-> FALSE,
     allow_partition_optimistic_recovery |-> FALSE,
     require_verification_for_active |-> FALSE,
     auto_reconcile_on_restart |-> FALSE, site_lease_timeout_ms |-> 100]

NoPolicies  == {}
Plain       == MCPolicy(1)
NewPolicies == {MCPolicy(2)}

\* An operator's request, which names no actor and no generation.
Op ==
    [actor |-> Nil, actor_incarnation |-> Nil, lease |-> Nil, epoch |-> 0,
     path_generation |-> 0, capacity_generation |-> 0, policy_generation |-> 0,
     now_ms |-> 1, reconcile |-> FALSE]

NoOps    == {}
PlainOps == {Op}

\* Registered at time 1; usable capacity 2.
SetUp ==
    /\ epoch = 1
    /\ policy = InitPolicy
    /\ sites = [s \in Sites |-> [incarnation |-> CHOOSE i \in Incarnations : TRUE,
                                 generation |-> 1, state |-> "Up", last_heartbeat_ms |-> 1]]
    /\ paths = [p \in Paths |->
                    [shared_risk_domain |-> CHOOSE d \in Domains : TRUE,
                     endpoint_a |-> s1, endpoint_b |-> s2, generation |-> 1,
                     capacity_generation |-> 1, state |-> "Up",
                     authoritative_usable |-> 2, unavailable |-> 0]]
    /\ domains = Domains
    /\ attestations = AttestationIds
    /\ oversubscriptions = [o \in OversubIds |-> Nil]
    /\ grants = [g \in Requests |-> Nil]
    /\ verifications = {}
    /\ daemon = "Serving"
    /\ durability_failed = FALSE
    /\ memory = Image
    /\ durable = Image
    /\ pending = Nil

MCSpec == SetUp /\ [][DaemonNext]_dvars

\* Requests are told apart by nothing but their records.
Symmetry == Permutations(Requests)
==============================================================================
