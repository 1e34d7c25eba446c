----------------------------- MODULE MCAuthority -----------------------------
(***************************************************************************)
(* Small instances of the authority: the values the configurations give    *)
(* its constants.                                                          *)
(***************************************************************************)
EXTENDS Authority, TLC

\* Policy::conservative_default with the floor and the oversubscription ceiling
\* as given.
MCPolicy(gen, floor, oversub) ==
    [generation |-> gen, protected_floor_units |-> floor, protected_floor_bps |-> 0,
     min_free_units |-> 0, min_free_bps |-> 0, max_oversubscription_bps |-> oversub,
     max_lease_duration_ms |-> 1000, max_grants_per_path |-> 10,
     max_grants_per_site |-> 10, max_srd_concentration_bps |-> kScale,
     allow_degraded_activation |-> FALSE,
     allow_partition_optimistic_recovery |-> FALSE,
     require_verification_for_active |-> FALSE,
     auto_reconcile_on_restart |-> FALSE, site_lease_timeout_ms |-> 100]

\* An operator's request, which names no actor and no generation.
AnonymousOp(now_ms) ==
    [actor |-> Nil, actor_incarnation |-> Nil, lease |-> Nil, epoch |-> 0,
     path_generation |-> 0, capacity_generation |-> 0, policy_generation |-> 0,
     now_ms |-> now_ms, reconcile |-> FALSE]

NoOps        == {}
AnonymousOps == {AnonymousOp(1)}
TimedOps     == {AnonymousOp(1), AnonymousOp(2)}
\* An agent that also pins the generations it last saw.
BindingOps   == {AnonymousOp(1)} \cup
                {[AnonymousOp(1) EXCEPT !.actor_incarnation = inc, !.epoch = 1,
                                        !.path_generation = gen, !.policy_generation = 1,
                                        !.capacity_generation = gen]
                    : inc \in Incarnations, gen \in {1, 2}}

\* No floor or a small one, and a policy that raises it.
NoFloor     == MCPolicy(1, 0, 0)
FloorInit   == MCPolicy(1, 1, 0)
RaisedFloor == {MCPolicy(2, 2, 0)}
\* Up to twice the usable capacity of a path, later up to one and a half times,
\* and at most three quarters of a shared-risk domain.
Overbooking      == [MCPolicy(1, 0, 20000) EXCEPT !.max_srd_concentration_bps = 7500]
LowerOverbooking == {[MCPolicy(2, 0, 15000) EXCEPT !.max_srd_concentration_bps = 7500]}

\* Sites, requests and incarnations are told apart by nothing but their records.
Symmetry == Permutations(Requests) \cup Permutations(Sites) \cup Permutations(Incarnations)
==============================================================================
