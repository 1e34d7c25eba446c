------------------------------- MODULE MCAgent -------------------------------
(***************************************************************************)
(* A small instance of the agents.  The peer site and the path are set up. *)
(***************************************************************************)
EXTENDS Agent

CONSTANT peer

\* Policy::conservative_default without a protected floor, with the shortest
\* lease timeout the validation accepts.
MCPolicy ==
    [generation |-> 1, protected_floor_units |-> 0, protected_floor_bps |-> 0,
     min_free_units |-> 0, min_free_bps |-> 0, max_oversubscription_bps |-> 0,
     max_lease_duration_ms |-> 1000, max_grants_per_path |-> 10,
     max_grants_per_site |-> 10, max_srd_concentration_bps |-> kScale,
     allow_degraded_activation |-> FALSE,
     allow_partition_optimistic_recovery |-> FALSE,
     require_verification_for_active |-> FALSE,
     auto_reconcile_on_restart |-> FALSE, site_lease_timeout_ms |-> 100]

None == {}

SetUp ==
    /\ AgentInit
    /\ epoch = 1
    /\ policy = InitPolicy
    /\ sites = [s \in Sites |-> IF s = site THEN Nil
                                ELSE [incarnation |-> CHOOSE i \in Incarnations : TRUE,
                                      generation |-> 1, state |-> "Up",
                                      last_heartbeat_ms |-> 1]]
    /\ paths = [p \in Paths |->
                    [shared_risk_domain |-> default_domain, endpoint_a |-> site,
                     endpoint_b |-> peer, generation |-> 1, capacity_generation |-> 1,
                     state |-> "Up", authoritative_usable |-> 2, unavailable |-> 0]]
    /\ domains = Domains
    /\ attestations = AttestationIds
    /\ oversubscriptions = [o \in OversubIds |-> Nil]
    /\ grants = [g \in Requests |-> Nil]
    /\ verifications = {}

MCSpec == SetUp /\ [][AgentNext]_avars /\ AgentFairness
==============================================================================
