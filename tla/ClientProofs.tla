----------------------------- MODULE ClientProofs -----------------------------
(***************************************************************************)
(* Proofs about the processes that call the authority: the agents of a     *)
(* site (module Agent) and the commands of operators (module Operator).    *)
(* Each reads once and acts later on what it read.  Anything else may call *)
(* the authority in between.                                               *)
(***************************************************************************)
EXTENDS Agent, Operator, AllocationProofs

------------------------------------------------------------------------------
(* Agents *)

\* Another client calls, with any arguments: an operator, or the agents of another
\* site.  Only the agents of the site register it and send its heartbeats.
CallElsewhere ==
    /\ AnyRequest
    /\ IF sites[site] = Nil THEN sites'[site] = Nil
       ELSE /\ sites'[site].incarnation = sites[site].incarnation
            /\ sites'[site].last_heartbeat_ms = sites[site].last_heartbeat_ms
    /\ UNCHANGED <<clock, agentVars>>

AgentSpec == Init /\ AgentInit /\ [][AgentNext \/ CallElsewhere]_avars

\* Where an agent has a grant of its own.
Granted == {"Proposed", "Evaluated", "Reserved", "Activated"}

AgentTypes ==
    /\ clock \in Nat
    /\ stage \in [Agents -> Stage]
    /\ agent_epoch \in [Agents -> Nat]
    /\ known_generation \in [Agents -> Nat]
    /\ own \in [Agents -> Requests \cup {Nil}]
    /\ op_ms \in [Agents -> Nat]
    /\ \A a \in Agents : stage[a] \in Granted => own[a] \in Requests

\* What an agent asks for after its proposal is an operation on a grant.
LEMMA AgentOperationType ==
    ASSUME AgentTypes, NEW a \in Agents, own[a] \in Requests
    PROVE  AgentOperation(a) \in GrantOperation
BY AgentAssumption DEF AgentTypes, AgentOperation, GrantOperation, Agents

\* An agent that gives up tells nobody.
LEMMA RefusedChangesNothing ==
    ASSUME NEW a \in Agents, beat_refused(a)
    PROVE  /\ UNCHANGED <<vars, clock, agent_epoch, known_generation, own, op_ms>>
           /\ stage' = [stage EXCEPT ![a] = "Exited"]
BY DEF beat_refused, Goes

\* Every call of an agent is a request with arguments of the right types, and the
\* agent goes on to the next point of main.
LEMMA AgentCalls ==
    ASSUME TypeOK, AgentTypes, NEW a \in Agents, agent(a)
    PROVE  AnyRequest \/ UNCHANGED vars
<1> USE AgentAssumption DEF Agents
<1>1. CASE hello(a) \/ skip(a) \/ beat_refused(a) \/ leave(a)
    BY <1>1, RefusedChangesNothing DEF hello, skip, leave
<1>2. CASE register(a)
    <2>1. register_site(site, a, agent_epoch[a], clock)
        BY <1>2 DEF register
    <2> QED
        BY <2>1 DEF AnyRequest, AnySite, AgentTypes
<1>3. CASE reconcile(a)
    <2>1. \E g \in Requests, target \in ReconcileTargets : reconcile_grant(g, target)
        BY <1>3 DEF reconcile
    <2> QED
        BY <2>1, InputAssumption DEF AnyRequest, AnyGrant
<1>4. CASE propose(a)
    <2>1. \E g \in Requests, class \in Classes, amount \in Amounts, duration \in Durations :
            propose_grant(g, site, a, known_generation[a], path, class, amount, duration, Nil, clock)
        BY <1>4 DEF propose
    <2>2. known_generation[a] \in Nat /\ clock \in Nat
        BY DEF AgentTypes
    <2> QED
        BY <2>1, <2>2, InputAssumption DEF AnyRequest, AnyGrant
<1>5. CASE evaluate(a) \/ reserve(a) \/ activate(a) \/ acknowledge(a)
    <2>1. own[a] \in Requests
        BY <1>5 DEF evaluate, reserve, activate, acknowledge, At, AgentTypes, Granted
    <2>2. AgentOperation(a) \in GrantOperation
        BY <2>1, AgentOperationType
    <2>3. \/ evaluate_grant(own[a], AgentOperation(a))
          \/ reserve_grant(own[a], AgentOperation(a))
          \/ activate_grant(own[a], AgentOperation(a))
          \/ acknowledge_grant(own[a], AgentOperation(a))
          \/ UNCHANGED vars
        BY <1>5 DEF evaluate, reserve, activate, acknowledge
    <2> QED
        BY <2>1, <2>2, <2>3 DEF AnyRequest, AnyGrant
<1>6. CASE beat(a)
    <2>1. heartbeat(site, a, agent_epoch[a], known_generation[a], clock)
        BY <1>6 DEF beat, Beat
    <2> QED
        BY <2>1 DEF AnyRequest, AnySite, AgentTypes
<1> QED
    BY <1>1, <1>2, <1>3, <1>4, <1>5, <1>6 DEF agent

\* An agent's own variables keep their types, and it has a grant where it needs one.
LEMMA AgentKeepsTypes ==
    ASSUME TypeOK', TypeOK, AgentTypes, NEW a \in Agents, agent(a)
    PROVE  AgentTypes'
<1> USE DEF AgentTypes, At, Goes, Stage, Granted
<1>1. CASE hello(a)
    BY <1>1 DEF hello, TypeOK
<1>2. CASE register(a)
    <2>1. sites'[site] \in SiteRecord
        <3>1. register_site(site, a, agent_epoch[a], clock)
            BY <1>2 DEF register
        <3>2. site \in Sites /\ sites \in [Sites -> SiteRecord \cup {Nil}]
            BY AgentAssumption DEF TypeOK
        <3>3. sites'[site] # Nil
            <4>1. CASE register_new_site(site, a, agent_epoch[a], clock)
                <5>1. [incarnation |-> a, generation |-> 1, state |-> "Up",
                       last_heartbeat_ms |-> clock] \in SiteRecord
                    BY DEF SiteRecord, SiteState, Agents
                <5> QED
                    BY <4>1, <3>2, <5>1, NilAssumption DEF register_new_site
            <4>2. CASE register_same_incarnation(site, a, agent_epoch[a], clock)
                <5>1. sites[site] \in SiteRecord
                    BY <4>2, <3>2 DEF register_same_incarnation
                <5>2. sites'[site] \in SiteRecord
                    BY <4>2, <5>1, <3>2 DEF register_same_incarnation, SiteRecord, SiteState
                <5> QED
                    BY <5>2, NilAssumption
            <4>3. CASE register_new_incarnation(site, a, agent_epoch[a], clock)
                <5>1. sites[site] \in SiteRecord
                    BY <4>3, <3>2 DEF register_new_incarnation
                <5>2. sites'[site] \in SiteRecord
                    BY <4>3, <5>1, <3>2 DEF register_new_incarnation, SiteRecord, SiteState, Agents
                <5> QED
                    BY <5>2, NilAssumption
            <4> QED
                BY <3>1, <4>1, <4>2, <4>3 DEF register_site
        <3> QED
            BY <3>2, <3>3 DEF TypeOK
    <2>2. sites'[site].generation \in Nat
        BY <2>1 DEF SiteRecord
    <2> QED
        BY <1>2, <2>2 DEF register
<1>3. CASE reconcile(a)
    BY <1>3 DEF reconcile
<1>4. CASE propose(a)
    <2>1. PICK g \in Requests : own' = [own EXCEPT ![a] = g]
        BY <1>4 DEF propose
    <2>2. /\ stage' = [stage EXCEPT ![a] = "Proposed"]
          /\ op_ms' = [op_ms EXCEPT ![a] = clock]
          /\ UNCHANGED <<clock, agent_epoch, known_generation>>
        BY <1>4 DEF propose
    <2> QED
        BY <2>1, <2>2
<1>5. CASE evaluate(a)
    <2>1. /\ stage[a] = "Proposed"
          /\ \E there \in {"Evaluated", "Exited"} : stage' = [stage EXCEPT ![a] = there]
          /\ UNCHANGED <<clock, agent_epoch, known_generation, own, op_ms>>
        BY <1>5 DEF evaluate
    <2> QED
        BY <2>1
<1>6. CASE reserve(a)
    BY <1>6 DEF reserve
<1>7. CASE activate(a)
    BY <1>7 DEF activate
<1>8. CASE acknowledge(a) \/ skip(a) \/ leave(a)
    <2>1. /\ \E there \in {"Running", "Exited"} : stage' = [stage EXCEPT ![a] = there]
          /\ UNCHANGED <<clock, agent_epoch, known_generation, own, op_ms>>
        BY <1>8 DEF acknowledge, skip, leave
    <2> QED
        BY <2>1
<1>9. CASE beat(a)
    BY <1>9 DEF beat, agentVars
<1>10. CASE beat_refused(a)
    BY <1>10, RefusedChangesNothing
<1> QED
    BY <1>1, <1>2, <1>3, <1>4, <1>5, <1>6, <1>7, <1>8, <1>9, <1>10 DEF agent

\* The authority's inductive invariant and the types of the agents.
AgentInv == IInv /\ AgentTypes

\* They hold when the agents start.
LEMMA AgentInvInit == Init /\ AgentInit => AgentInv
<1> SUFFICES ASSUME Init, AgentInit PROVE AgentTypes
    BY IInvInit DEF AgentInv
<1> QED
    BY InputAssumption DEF AgentInit, AgentTypes, Stage, Granted

\* Whatever the agents, the ticker, time and everyone else do keeps them.
LEMMA AgentInvNext == AgentInv /\ [AgentNext \/ CallElsewhere]_avars => AgentInv'
<1> SUFFICES ASSUME AgentInv, [AgentNext \/ CallElsewhere]_avars PROVE AgentInv'
    OBVIOUS
<1>0. IInv /\ TypeOK /\ AgentTypes
    BY DEF AgentInv, IInv
<1>1. ASSUME UNCHANGED <<clock, agentVars>> PROVE AgentTypes'
    BY <1>0, <1>1 DEF agentVars, AgentTypes
<1>2. CASE \E a \in Agents : agent(a)
    <2>1. PICK a \in Agents : agent(a)
        BY <1>2
    <2>2. IInv' /\ TypeOK'
        BY <1>0, <2>1, AgentCalls, AnyRequestSafe, IInvStutter DEF IInv
    <2> QED
        BY <1>0, <2>1, <2>2, AgentKeepsTypes DEF AgentInv
<1>3. CASE ticker
    <2>1. AnyRequest /\ UNCHANGED <<clock, agentVars>>
        BY <1>0, <1>3 DEF ticker, AnyRequest, AgentTypes
    <2> QED
        BY <1>0, <1>1, <2>1, AnyRequestSafe DEF AgentInv
<1>4. CASE time_passes
    <2>1. UNCHANGED <<vars, agentVars>> /\ clock' \in Nat
        BY <1>4, InputAssumption DEF time_passes
    <2>2. AgentTypes'
        BY <1>0, <2>1 DEF agentVars, AgentTypes
    <2> QED
        BY <1>0, <2>1, <2>2, IInvStutter DEF AgentInv
<1>5. CASE operator
    <2>1. UNCHANGED <<clock, agentVars>>
        BY <1>5 DEF operator
    <2>2. \/ \E e \in Epochs : bump_epoch(e)
          \/ \E state \in SiteStateInputs : set_site_state(site, state)
          \/ \E state \in PathStateInputs : set_path_state(path, state, clock)
        BY <1>5 DEF operator
    <2>3. AnyRequest
        BY <1>0, <2>2, InputAssumption, AgentAssumption
           DEF AnyRequest, AnyConfig, AnySite, AnyPath, AgentTypes
    <2> QED
        BY <1>0, <1>1, <2>1, <2>3, AnyRequestSafe DEF AgentInv
<1>6. CASE CallElsewhere
    BY <1>0, <1>1, <1>6, AnyRequestSafe DEF CallElsewhere, AgentInv
<1>7. CASE UNCHANGED avars
    BY <1>0, <1>1, <1>7, IInvStutter DEF avars, AgentInv
<1> QED
    BY <1>2, <1>3, <1>4, <1>5, <1>6, <1>7 DEF AgentNext

\* They hold always.
LEMMA AgentInvAlways == AgentSpec => []AgentInv
BY AgentInvInit, AgentInvNext, PTL DEF AgentSpec

\* With agents that keep acting on the epoch and the generation they read at their
\* start, a grant that is authorised is still bound to what is current.
THEOREM BindingsCurrentWithAgents == AgentSpec => []AuthorisedBindingCurrent
<1>1. AgentInv => AuthorisedBindingCurrent
    BY DEF AgentInv, IInv
<1> QED
    BY <1>1, AgentInvAlways, PTL

\* The step of another process leaves an agent where it is.
LEMMA OnlyOwnSteps ==
    ASSUME AgentTypes, NEW a \in Agents, NEW b \in Agents, agent(b), a # b
    PROVE  stage'[a] = stage[a]
<1>1. \A there : Goes(b, there) => stage'[a] = stage[a]
    BY DEF Goes, AgentTypes
<1>2. beat(b) => stage' = stage
    BY DEF beat, agentVars
<1>3. beat_refused(b) => stage'[a] = stage[a]
    BY RefusedChangesNothing DEF AgentTypes
<1> QED
    BY <1>1, <1>2, <1>3 DEF agent, hello, register, reconcile, propose, evaluate, reserve,
        activate, acknowledge, skip, leave

\* main of isfsited sends its incarnation with every call after the registration, and
\* the authority compares it with the one that holds the site: from the moment another
\* process has registered the site, nothing a replaced agent does changes anything,
\* however far it had come; a reconciliation, which names no incarnation, is the
\* exception.
THEOREM SupersededIsFenced == AgentSpec => SupersededChangesNothing
<1>1. ASSUME AgentInv, AgentNext \/ CallElsewhere, NEW a \in Agents, Superseded(a),
             stage'[a] # stage[a]
      PROVE  reconcile(a) \/ UNCHANGED vars
    <2>0. AgentTypes /\ sites[site].incarnation # a /\ site # Nil /\ a # Nil
        BY <1>1, AgentAssumption, NilAssumption DEF AgentInv, Superseded, Agents
    <2>1. agent(a)
        <3>1. ~ UNCHANGED stage
            BY <1>1
        <3>2. \E b \in Agents : agent(b)
            BY <1>1, <3>1 DEF AgentNext, CallElsewhere, ticker, time_passes, operator, agentVars
        <3> QED
            BY <1>1, <2>0, <3>2, OnlyOwnSteps
    <2>2. ~ hello(a) /\ ~ register(a)
        BY <1>1 DEF Superseded, hello, register, At
    <2>3. ~ propose(a)
        BY <2>0 DEF propose, propose_grant
    <2>4. ASSUME NEW r, check_binding(r, AgentOperation(a)) PROVE FALSE
        BY <2>0, <2>4 DEF check_binding, ActorAccepted, AgentOperation
    <2>5. ~ evaluate(a) /\ ~ reserve(a) /\ ~ activate(a)
        BY <2>4 DEF evaluate, evaluate_grant, reserve, reserve_grant, activate, activate_grant
    <2>6. acknowledge(a) => UNCHANGED vars
        BY <2>0 DEF acknowledge, acknowledge_grant, AgentOperation
    <2>7. skip(a) \/ leave(a) \/ beat_refused(a) => UNCHANGED vars
        BY RefusedChangesNothing DEF skip, leave
    <2>8. ~ beat(a)
        BY <1>1 DEF beat, agentVars
    <2> QED
        BY <2>1, <2>2, <2>3, <2>5, <2>6, <2>7, <2>8 DEF agent
<1>2. ASSUME AgentInv, [AgentNext \/ CallElsewhere]_avars
      PROVE  [\A a \in Agents :
                Superseded(a) /\ stage'[a] # stage[a] => reconcile(a) \/ UNCHANGED vars]_avars
    BY <1>1, <1>2
<1> QED
    BY <1>2, AgentInvAlways, PTL DEF AgentSpec, SupersededChangesNothing

\* The ticker, a change of the state of a site and everything about configuration,
\* paths and grants leave the lease of a site alone.
LEMMA LeaseUntouched ==
    ASSUME TypeOK, NEW s \in Sites, sites[s] # Nil,
           \/ \E now_ms \in Nat : tick(now_ms)
           \/ \E state \in SiteState : set_site_state(s, state)
           \/ UNCHANGED sites
    PROVE  sites'[s].last_heartbeat_ms = sites[s].last_heartbeat_ms
<1>0. sites[s] \in SiteRecord /\ sites \in [Sites -> SiteRecord \cup {Nil}]
    BY DEF TypeOK
<1>1. \A state : [sites[s] EXCEPT !.state = state].last_heartbeat_ms = sites[s].last_heartbeat_ms
    BY <1>0 DEF SiteRecord
<1>2. CASE \E now_ms \in Nat : tick(now_ms)
    <2>1. sites'[s] = sites[s] \/ \E state : sites'[s] = [sites[s] EXCEPT !.state = state]
        BY <1>2 DEF tick
    <2> QED
        BY <1>1, <2>1
<1>3. CASE \E state \in SiteState : set_site_state(s, state)
    <2>1. \E state : sites'[s] = [sites[s] EXCEPT !.state = state]
        BY <1>0, <1>3 DEF set_site_state
    <2> QED
        BY <1>1, <2>1
<1> QED
    BY <1>2, <1>3

\* What an agent does with its site: it registers it under its own incarnation, or
\* refreshes the lease it holds.
LEMMA AgentSites ==
    ASSUME TypeOK, NEW a \in Agents, agent(a), sites[site] # Nil, ~ UNCHANGED sites
    PROVE  sites'[site].incarnation = a /\ stage[a] \in {"Connected", "Running"}
<1>0. site \in Sites /\ sites[site] \in SiteRecord /\ sites \in [Sites -> SiteRecord \cup {Nil}]
    BY AgentAssumption DEF TypeOK
<1>1. \A now_ms, state :
        [sites[site] EXCEPT !.last_heartbeat_ms = now_ms, !.state = state].incarnation
            = sites[site].incarnation
    BY <1>0 DEF SiteRecord
<1>2. CASE register(a)
    <2>1. register_site(site, a, agent_epoch[a], clock) /\ stage[a] = "Connected"
        BY <1>2 DEF register, At
    <2>2. sites'[site].incarnation = a
        <3>1. CASE register_same_incarnation(site, a, agent_epoch[a], clock)
            <4>1. \E now_ms, state : sites'[site] =
                    [sites[site] EXCEPT !.last_heartbeat_ms = now_ms, !.state = state]
                BY <1>0, <3>1 DEF register_same_incarnation
            <4>2. a = sites[site].incarnation
                BY <3>1 DEF register_same_incarnation
            <4> QED
                BY <1>1, <4>1, <4>2
        <3>2. CASE register_new_incarnation(site, a, agent_epoch[a], clock)
            BY <1>0, <3>2 DEF register_new_incarnation
        <3> QED
            BY <2>1, <3>1, <3>2 DEF register_site, register_new_site
    <2> QED
        BY <2>1, <2>2
<1>3. CASE beat(a)
    <2>1. heartbeat(site, a, agent_epoch[a], known_generation[a], clock) /\ stage[a] = "Running"
        BY <1>3 DEF beat, Beat, At
    <2>2. \E now_ms, state : sites'[site] =
            [sites[site] EXCEPT !.last_heartbeat_ms = now_ms, !.state = state]
        BY <1>0, <2>1 DEF heartbeat
    <2>3. a = sites[site].incarnation
        BY <2>1 DEF heartbeat
    <2> QED
        BY <1>1, <2>1, <2>2, <2>3
<1>4. CASE hello(a) \/ reconcile(a) \/ propose(a) \/ skip(a) \/ beat_refused(a) \/ leave(a)
    <2>1. UNCHANGED sites
        BY <1>4, RefusedChangesNothing
           DEF hello, reconcile, reconcile_grant, reconcile_active, reconcile_retired, propose,
               propose_grant, SetGrant, skip, leave, vars
    <2> QED
        BY <2>1
<1>5. CASE evaluate(a) \/ reserve(a) \/ activate(a) \/ acknowledge(a)
    <2>1. UNCHANGED sites
        BY <1>5 DEF evaluate, evaluate_grant, reserve, reserve_grant, activate, activate_grant,
               acknowledge, acknowledge_grant, SetGrant, vars
    <2> QED
        BY <2>1
<1> QED
    BY <1>2, <1>3, <1>4, <1>5 DEF agent

\* plan_heartbeat and plan_register_site let nobody but the run that holds the site
\* refresh its lease: an ended agent keeps no grant of its site alive, and neither
\* does one that was replaced.
THEOREM OnlyTheHolderRefreshes == AgentSpec => LeaseRefreshedByHolder
<1>1. ASSUME AgentInv, AgentNext \/ CallElsewhere, sites[site] # Nil,
             sites'[site].last_heartbeat_ms # sites[site].last_heartbeat_ms
      PROVE  stage[sites'[site].incarnation] \in {"Connected", "Running"}
    <2>0. TypeOK /\ AgentTypes /\ site \in Sites
        BY <1>1, AgentAssumption DEF AgentInv, IInv
    <2>1. CASE \E a \in Agents : agent(a)
        BY <1>1, <2>0, <2>1, AgentSites
    <2>2. CASE CallElsewhere
        BY <1>1, <2>2 DEF CallElsewhere
    <2>3. CASE ticker
        <3>1. \E now_ms \in Nat : tick(now_ms)
            BY <2>0, <2>3 DEF ticker, AgentTypes
        <3> QED
            BY <1>1, <2>0, <3>1, LeaseUntouched
    <2>4. CASE time_passes
        BY <1>1, <2>4 DEF time_passes, vars
    <2>5. CASE operator
        <3>1. UNCHANGED sites \/ \E state \in SiteState : set_site_state(site, state)
            BY <2>5, InputAssumption DEF operator, bump_epoch, set_path_state
        <3> QED
            BY <1>1, <2>0, <3>1, LeaseUntouched
    <2> QED
        BY <1>1, <2>1, <2>2, <2>3, <2>4, <2>5 DEF AgentNext
<1>2. ASSUME AgentInv, [AgentNext \/ CallElsewhere]_avars
      PROVE  [sites[site] # Nil /\ sites'[site].last_heartbeat_ms # sites[site].last_heartbeat_ms
              => stage[sites'[site].incarnation] \in {"Connected", "Running"}]_avars
    BY <1>1, <1>2
<1> QED
    BY <1>2, AgentInvAlways, PTL DEF AgentSpec, LeaseRefreshedByHolder

------------------------------------------------------------------------------
(* Operators *)

\* What policy-install puts together from the options and the policy it read is a
\* policy.
LEMMA NewPolicyType ==
    ASSUME NEW c \in Commands, c.name = "policy-install", NEW read \in Policy
    PROVE  NewPolicy(c, read) \in Policy
<1>1. /\ c.generation \in Nat
      /\ DOMAIN c.set \subseteq PolicyOptions
      /\ \A f \in DOMAIN c.set : [InitPolicy EXCEPT ![f] = c.set[f]] \in Policy
    BY OperatorAssumption DEF Parsed
<1>2. InitPolicy \in Policy
    BY InputAssumption
<1> DEFINE new == NewPolicy(c, read)
           Fields == DOMAIN read
<1>3. DOMAIN InitPolicy = DOMAIN read
    BY <1>2 DEF Policy
<1>4. ASSUME NEW f \in Fields, NEW T, \A r \in Policy : r[f] \in T, f # "generation",
             FALSE \in T \/ f # "allow_partition_optimistic_recovery"
      PROVE  new[f] \in T
    <2>1. CASE f \in DOMAIN c.set
        <3>1. [InitPolicy EXCEPT ![f] = c.set[f]][f] = c.set[f]
            BY <1>2, <1>3 DEF Policy
        <3>2. c.set[f] \in T
            BY <1>1, <1>4, <2>1, <3>1
        <3> QED
            BY <2>1, <3>2 DEF NewPolicy
    <2>2. CASE f \notin DOMAIN c.set
        BY <1>4, <2>2 DEF NewPolicy
    <2> QED
        BY <2>1, <2>2
<1>5. new["generation"] \in Nat
    <2>1. "generation" \notin DOMAIN c.set /\ "generation" \in Fields
        BY <1>1 DEF PolicyOptions, Policy
    <2>2. read.generation \in Nat
        BY DEF Policy
    <2> QED
        BY <1>1, <2>1, <2>2 DEF NewPolicy, following
<1>6. \A f \in Fields : (\A r \in Policy : r[f] \in Nat)
            /\ f \notin {"generation", "allow_partition_optimistic_recovery"} => new[f] \in Nat
    <2> HIDE DEF new, Fields
    <2> QED
        BY <1>4
<1>7. /\ new["protected_floor_units"] \in Nat /\ new["protected_floor_bps"] \in Nat
      /\ new["min_free_units"] \in Nat /\ new["min_free_bps"] \in Nat
    <2> HIDE DEF new
    <2> QED
        BY <1>6 DEF Policy
<1>8. /\ new["max_oversubscription_bps"] \in Nat
      /\ new["max_lease_duration_ms"] \in Nat /\ new["max_grants_per_path"] \in Nat
      /\ new["max_grants_per_site"] \in Nat /\ new["max_srd_concentration_bps"] \in Nat
      /\ new["site_lease_timeout_ms"] \in Nat
    <2> HIDE DEF new
    <2> QED
        BY <1>6 DEF Policy
<1>9. /\ new["allow_degraded_activation"] \in BOOLEAN
      /\ new["allow_partition_optimistic_recovery"] \in BOOLEAN
      /\ new["require_verification_for_active"] \in BOOLEAN
      /\ new["auto_reconcile_on_restart"] \in BOOLEAN
    <2>1. \A f \in Fields : (\A r \in Policy : r[f] \in BOOLEAN) /\ f # "generation"
                                => new[f] \in BOOLEAN
        <3> HIDE DEF new, Fields
        <3> QED
            BY <1>4
    <2> HIDE DEF new
    <2> QED
        BY <2>1 DEF Policy
<1>10. new = [f \in Fields |-> new[f]]
    BY DEF NewPolicy
<1> HIDE DEF new
<1> QED
    BY <1>5, <1>7, <1>8, <1>9, <1>10 DEF Policy, new

\* Operators run their commands while any requests arrive from anyone else.
OperatorSpec ==
    Init /\ OperatorInit /\ [][OperatorNext \/ (AnyRequest /\ UNCHANGED ovars)]_allVars

\* What a step of the authority may do to what a command has read: the epoch and the
\* generations do not go back, and nothing changes under the same generation.
Forward ==
    /\ epoch <= epoch'
    /\ policy' = policy \/ policy.generation < policy'.generation
    /\ \A p \in Paths : paths[p] # Nil =>
            /\ paths'[p] # Nil
            /\ paths[p].capacity_generation <= paths'[p].capacity_generation
            /\ paths[p].capacity_generation = paths'[p].capacity_generation
                => paths[p].authoritative_usable = paths'[p].authoritative_usable
    /\ Bounded(oversubscriptions) => Bounded(oversubscriptions')

\* A path is replaced by a record with the same capacity, or with a newer one.
LEMMA PathForward ==
    ASSUME TypeOK, NEW p \in Paths, paths[p] # Nil, NEW rec \in PathRecord,
           paths' = [paths EXCEPT ![p] = rec],
           \/ rec.capacity_generation > paths[p].capacity_generation
           \/ /\ rec.capacity_generation = paths[p].capacity_generation
              /\ rec.authoritative_usable = paths[p].authoritative_usable,
           UNCHANGED <<epoch, policy, oversubscriptions>>
    PROVE  Forward
<1>1. /\ paths \in [Paths -> PathRecord \cup {Nil}] /\ epoch \in Nat
      /\ \A q \in Paths : paths[q] # Nil => paths[q].capacity_generation \in Nat
      /\ rec.capacity_generation \in Nat /\ rec # Nil
    BY NilAssumption DEF TypeOK, PathRecord
<1> QED
    BY <1>1 DEF Forward

\* Every request, with any arguments, is such a step.
LEMMA RequestsGoForward ==
    ASSUME IInv, AnyRequest PROVE Forward
<1>0. TypeOK /\ paths \in [Paths -> PathRecord \cup {Nil}] /\ epoch \in Nat
    BY DEF IInv, TypeOK
<1>1. ASSUME UNCHANGED <<epoch, policy, paths, oversubscriptions>> PROVE Forward
    <2>1. \A p \in Paths : paths[p] # Nil => paths[p].capacity_generation \in Nat
        BY <1>0 DEF PathRecord
    <2> QED
        BY <1>0, <1>1, <2>1 DEF Forward
<1>2. CASE AnyConfig
    <2>1. \A p \in Paths : paths[p] # Nil => paths[p].capacity_generation \in Nat
        BY <1>0 DEF PathRecord
    <2>2. /\ UNCHANGED <<paths, oversubscriptions>>
          /\ \/ UNCHANGED epoch /\ policy.generation < policy'.generation
             \/ UNCHANGED policy /\ epoch' \in Nat /\ epoch' > epoch
        <3>1. ASSUME NEW pol \in Policy, install_policy(pol)
              PROVE  UNCHANGED <<paths, oversubscriptions, epoch>>
                        /\ policy.generation < policy'.generation
            <4>1. /\ UNCHANGED <<paths, oversubscriptions, epoch>>
                  /\ policy' = pol /\ pol.generation > policy.generation
                BY <3>1 DEF install_policy
            <4>2. pol.generation \in Nat /\ policy.generation \in Nat
                BY <1>0 DEF TypeOK, Policy
            <4> QED
                BY <4>1, <4>2
        <3>2. ASSUME NEW e \in Nat, bump_epoch(e)
              PROVE  UNCHANGED <<paths, oversubscriptions, policy>> /\ epoch' \in Nat /\ epoch' > epoch
            BY <3>2 DEF bump_epoch
        <3> QED
            BY <1>2, <3>1, <3>2 DEF AnyConfig
    <2> QED
        BY <1>0, <2>1, <2>2 DEF Forward
<1>3. CASE AnySite
    <2>1. ASSUME NEW s, NEW inc, NEW e, NEW now_ms, register_site(s, inc, e, now_ms)
          PROVE  UNCHANGED <<epoch, policy, paths, oversubscriptions>>
        <3>1. register_new_site(s, inc, e, now_ms)
                => UNCHANGED <<epoch, policy, paths, oversubscriptions>>
            BY DEF register_new_site
        <3>2. register_same_incarnation(s, inc, e, now_ms)
                => UNCHANGED <<epoch, policy, paths, oversubscriptions>>
            BY DEF register_same_incarnation
        <3>3. register_new_incarnation(s, inc, e, now_ms)
                => UNCHANGED <<epoch, policy, paths, oversubscriptions>>
            BY DEF register_new_incarnation
        <3> QED
            BY <2>1, <3>1, <3>2, <3>3 DEF register_site
    <2>2. ASSUME NEW s, NEW inc, NEW e, NEW gen, NEW now_ms, heartbeat(s, inc, e, gen, now_ms)
          PROVE  UNCHANGED <<epoch, policy, paths, oversubscriptions>>
        BY <2>2 DEF heartbeat
    <2>3. ASSUME NEW s, NEW state, set_site_state(s, state)
          PROVE  UNCHANGED <<epoch, policy, paths, oversubscriptions>>
        BY <2>3 DEF set_site_state
    <2> QED
        BY <1>1, <1>3, <2>1, <2>2, <2>3 DEF AnySite
<1>4. CASE AnyPath
    <2>1. ASSUME NEW p \in Paths, NEW a \in Sites, NEW b \in Sites, NEW d \in Domains,
                 NEW state \in PathState, register_new_path(p, a, b, d, state)
          PROVE  Forward
        <3>1. /\ \A q \in Paths : paths[q] # Nil => paths'[q] = paths[q]
              /\ UNCHANGED <<epoch, policy, oversubscriptions>>
            BY <1>0, <2>1 DEF register_new_path
        <3>2. \A q \in Paths : paths[q] # Nil => paths[q].capacity_generation \in Nat
            BY <1>0 DEF PathRecord
        <3> QED
            BY <1>0, <3>1, <3>2 DEF Forward
    <2>2. ASSUME NEW p \in Paths, NEW a \in Sites, NEW b \in Sites, NEW d \in Domains,
                 NEW gen \in Nat, NEW state \in PathState, NEW now_ms \in Nat,
                 reregister_path(p, a, b, d, gen, state, now_ms)
          PROVE  Forward
        <3> DEFINE rec == [paths[p] EXCEPT !.shared_risk_domain = d, !.endpoint_a = a,
                                           !.endpoint_b = b, !.generation = gen, !.state = state]
        <3>1. /\ paths[p] # Nil /\ paths' = [paths EXCEPT ![p] = rec]
              /\ UNCHANGED <<epoch, policy, oversubscriptions>>
            BY <2>2 DEF reregister_path
        <3>2. /\ rec \in PathRecord /\ rec.capacity_generation = paths[p].capacity_generation
              /\ rec.authoritative_usable = paths[p].authoritative_usable
            BY <1>0, <3>1 DEF PathRecord
        <3> HIDE DEF rec
        <3> QED
            BY <1>0, <3>1, <3>2, PathForward
    <2>3. ASSUME NEW p \in Paths, NEW state \in PathState, NEW now_ms \in Nat,
                 set_path_state(p, state, now_ms)
          PROVE  Forward
        <3> DEFINE rec == [paths[p] EXCEPT
                              !.state = state,
                              !.unavailable = IF path_requires_degradation(state)
                                              THEN paths[p].authoritative_usable ELSE 0]
        <3>1. /\ paths[p] # Nil /\ paths' = [paths EXCEPT ![p] = rec]
              /\ UNCHANGED <<epoch, policy, oversubscriptions>>
            BY <2>3 DEF set_path_state
        <3>2. /\ rec \in PathRecord /\ rec.capacity_generation = paths[p].capacity_generation
              /\ rec.authoritative_usable = paths[p].authoritative_usable
            BY <1>0, <3>1 DEF PathRecord
        <3> HIDE DEF rec
        <3> QED
            BY <1>0, <3>1, <3>2, PathForward
    <2>4. ASSUME NEW p \in Paths, NEW id \in AttestationIds, NEW e \in Nat, NEW pathGen \in Nat,
                 NEW capGen \in Nat, NEW usable \in Amount, NEW now_ms \in Nat,
                 attest_capacity(id, p, e, pathGen, capGen, usable, now_ms)
          PROVE  Forward
        <3> DEFINE rec == Attested(paths[p], capGen, usable)
        <3>1. /\ paths[p] # Nil /\ paths' = [paths EXCEPT ![p] = rec]
              /\ capGen > paths[p].capacity_generation
              /\ UNCHANGED <<epoch, policy, oversubscriptions>>
            BY <2>4 DEF attest_capacity
        <3>2. usable \in Nat
            BY CapacityAssumption DEF Amount
        <3>3. rec \in PathRecord /\ rec.capacity_generation = capGen
            BY <1>0, <3>1, <3>2 DEF PathRecord, Attested, min_amount
        <3> HIDE DEF rec
        <3> QED
            BY <1>0, <3>1, <3>3, PathForward
    <2> QED
        BY <1>4, <2>1, <2>2, <2>3, <2>4 DEF AnyPath
<1>5. CASE AnyOversubscription
    <2>1. PICK id \in OversubIds, a \in OversubscriptionAuthority : issue_oversubscription(id, a)
        BY <1>5 DEF AnyOversubscription
    <2>2. /\ UNCHANGED <<epoch, policy, paths>>
          /\ oversubscriptions' = [oversubscriptions EXCEPT ![id] = a]
          /\ a.ratio_bps <= kMaxOversubscriptionBps
        BY <2>1 DEF issue_oversubscription
    <2>3. Bounded(oversubscriptions) => Bounded(oversubscriptions')
        BY <1>0, <2>2 DEF TypeOK, Bounded, Entries
    <2>4. \A p \in Paths : paths[p] # Nil => paths[p].capacity_generation \in Nat
        BY <1>0 DEF PathRecord
    <2> QED
        BY <1>0, <2>2, <2>3, <2>4 DEF Forward
<1>6. CASE AnyGrant
    <2>1. UNCHANGED <<epoch, policy, paths, oversubscriptions>>
        BY <1>6 DEF AnyGrant, propose_grant, evaluate_grant, reserve_grant, activate_grant,
                    degrade_grant, withdraw_grant, retire_grant, cancel_grant, acknowledge_grant,
                    verify_grant, reconcile_grant, reconcile_active, reconcile_retired, SetGrant
    <2> QED
        BY <1>1, <2>1
<1>7. CASE \E now_ms \in Nat : tick(now_ms)
    <2>1. UNCHANGED <<epoch, policy, paths, oversubscriptions>>
        BY <1>7 DEF tick
    <2> QED
        BY <1>1, <2>1
<1> QED
    BY <1>2, <1>3, <1>4, <1>5, <1>6, <1>7 DEF AnyRequest

\* The commands that read a path, and the one that reads a site.
PathReaders == {"attest", "oversubscribe"}

\* What a command knows of the authority: an epoch that has been, a policy that is
\* current or of an earlier generation, and a path's capacity that is current or of an
\* earlier generation.
Knows(o) ==
    LET c == command[o] IN
    /\ c # Nil => known_epoch[o] >= 1 /\ known_epoch[o] <= epoch
    /\ c = Nil => seen[o] = Nil /\ seen_policy[o] = Nil
    /\ seen_policy[o] # Nil =>
            /\ seen_policy[o] \in Policy
            /\ seen_policy[o] = policy \/ seen_policy[o].generation < policy.generation
    /\ seen[o] # Nil /\ c.name = "grant-propose" => seen[o] \in SiteRecord
    /\ seen[o] # Nil /\ c.name \in PathReaders =>
            /\ seen[o] \in PathRecord
            /\ paths[c.path] # Nil
            /\ seen[o].capacity_generation <= paths[c.path].capacity_generation
            /\ seen[o].capacity_generation = paths[c.path].capacity_generation
                => seen[o].authoritative_usable = paths[c.path].authoritative_usable

OperatorTypes ==
    /\ command \in [Operators -> Commands \cup {Nil}]
    /\ known_epoch \in [Operators -> Nat]
    /\ now \in [Operators -> Nat]
    /\ DOMAIN seen = Operators /\ seen = [o \in Operators |-> seen[o]]
    /\ DOMAIN seen_policy = Operators /\ seen_policy = [o \in Operators |-> seen_policy[o]]

\* The authority's inductive invariant, and what every operator knows.
OperatorInv ==
    /\ IInv
    /\ epoch >= 1
    /\ Bounded(oversubscriptions)
    /\ OperatorTypes
    /\ \A o \in Operators : Knows(o)

\* The arguments of a command are what its name says.
LEMMA CommandParsed ==
    ASSUME OperatorTypes, NEW o \in Operators, command[o] # Nil
    PROVE  command[o] \in Commands /\ Parsed(command[o])
BY OperatorAssumption DEF OperatorTypes

\* What an operator knows outlives every step of others.
LEMMA KnowsKept ==
    ASSUME IInv, IInv', OperatorTypes, NEW o \in Operators, Knows(o), Forward,
           command'[o] = command[o], known_epoch'[o] = known_epoch[o],
           seen'[o] = seen[o], seen_policy'[o] = seen_policy[o]
    PROVE  Knows(o)'
<1> DEFINE c == command[o]
<1>0. /\ epoch \in Nat /\ epoch' \in Nat /\ known_epoch[o] \in Nat
      /\ policy \in Policy /\ policy' \in Policy
      /\ paths \in [Paths -> PathRecord \cup {Nil}] /\ paths' \in [Paths -> PathRecord \cup {Nil}]
    BY DEF IInv, TypeOK, OperatorTypes
<1>1. c # Nil => known_epoch[o] >= 1 /\ known_epoch[o] <= epoch'
    BY <1>0 DEF Knows, Forward
<1>2. seen_policy[o] # Nil =>
            /\ seen_policy[o] \in Policy
            /\ seen_policy[o] = policy' \/ seen_policy[o].generation < policy'.generation
    <2>1. \A r \in Policy : r.generation \in Nat
        BY DEF Policy
    <2> QED
        BY <1>0, <2>1 DEF Knows, Forward
<1>3. ASSUME seen[o] # Nil, c.name \in PathReaders
      PROVE  /\ seen[o] \in PathRecord
             /\ paths'[c.path] # Nil
             /\ seen[o].capacity_generation <= paths'[c.path].capacity_generation
             /\ seen[o].capacity_generation = paths'[c.path].capacity_generation
                => seen[o].authoritative_usable = paths'[c.path].authoritative_usable
    <2>1. c.path \in Paths
        <3>1. c # Nil
            BY <1>3 DEF Knows
        <3> QED
            BY <1>3, <3>1, CommandParsed DEF Parsed, PathReaders
    <2>2. /\ seen[o] \in PathRecord /\ paths[c.path] # Nil
          /\ seen[o].capacity_generation <= paths[c.path].capacity_generation
          /\ seen[o].capacity_generation = paths[c.path].capacity_generation
                => seen[o].authoritative_usable = paths[c.path].authoritative_usable
        BY <1>3 DEF Knows
    <2>3. /\ paths'[c.path] # Nil
          /\ paths[c.path].capacity_generation <= paths'[c.path].capacity_generation
          /\ paths[c.path].capacity_generation = paths'[c.path].capacity_generation
                => paths[c.path].authoritative_usable = paths'[c.path].authoritative_usable
        BY <2>1, <2>2 DEF Forward
    <2>4. /\ seen[o].capacity_generation \in Nat /\ paths[c.path].capacity_generation \in Nat
          /\ paths'[c.path].capacity_generation \in Nat
        BY <1>0, <2>1, <2>2, <2>3 DEF PathRecord
    <2> QED
        BY <2>2, <2>3, <2>4
<1>4. seen[o] # Nil /\ c.name = "grant-propose" => seen[o] \in SiteRecord
    BY DEF Knows
<1>5. c = Nil => seen[o] = Nil /\ seen_policy[o] = Nil
    BY DEF Knows
<1> QED
    BY <1>1, <1>2, <1>3, <1>4, <1>5 DEF Knows

\* The operation an operator's command sends.
LEMMA OperationType ==
    ASSUME OperatorTypes, NEW o \in Operators, command[o] # Nil,
           command[o].name \in GrantOperations
    PROVE  /\ command[o].grant \in Requests
           /\ Operation(o) \in GrantOperation
           /\ [Operation(o) EXCEPT !.actor = Nil, !.actor_incarnation = Nil] \in GrantOperation
<1>1. /\ command[o].grant \in Requests
      /\ command[o].actor \in Sites \cup {Nil}
      /\ command[o].incarnation \in Incarnations \cup {Nil}
    BY CommandParsed DEF Parsed
<1>2. known_epoch[o] \in Nat /\ now[o] \in Nat
    BY DEF OperatorTypes
<1>3. Operation(o) \in GrantOperation
    BY <1>1, <1>2 DEF Operation, GrantOperation
<1> QED
    BY <1>1, <1>3 DEF GrantOperation

\* The commands that are not about a grant.
FabricCall(o) ==
    \/ policy_install(o) \/ attest(o) \/ oversubscribe(o) \/ epoch_bump(o)
    \/ site_register(o) \/ site_state(o) \/ path_register(o) \/ path_state(o) \/ tick_now(o)

\* What they call, with arguments of the right types.
LEMMA FabricCalls ==
    ASSUME OperatorInv, NEW o \in Operators, FabricCall(o)
    PROVE  \/ AnyConfig \/ AnySite \/ AnyPath \/ AnyOversubscription
           \/ \E now_ms \in Nat : tick(now_ms)
<1> DEFINE c == command[o]
<1>0. /\ OperatorTypes /\ Knows(o) /\ c # Nil
      /\ known_epoch[o] \in Nat /\ now[o] \in Nat
    <2>1. c # Nil
        BY DEF FabricCall, policy_install, attest, oversubscribe, epoch_bump, site_register,
            site_state, path_register, path_state, tick_now, Runs
    <2> QED
        BY <2>1 DEF OperatorInv, OperatorTypes
<1>10. Parsed(c) /\ c \in Commands
    BY <1>0, CommandParsed
<1>1. CASE policy_install(o)
    <2>1. /\ c.name = "policy-install" /\ seen_policy[o] # Nil
          /\ install_policy(NewPolicy(c, seen_policy[o]))
        BY <1>1 DEF policy_install, Runs
    <2>2. NewPolicy(c, seen_policy[o]) \in Policy
        BY <1>0, <1>10, <2>1, NewPolicyType DEF Knows
    <2> QED
        BY <2>1, <2>2 DEF AnyConfig
<1>2. CASE attest(o)
    <2>1. /\ c.name = "attest" /\ seen[o] # Nil
          /\ \E id \in AttestationIds :
                attest_capacity(id, c.path, known_epoch[o], seen[o].generation,
                                following(c.generation, seen[o].capacity_generation),
                                c.usable, now[o])
        BY <1>2 DEF attest, Runs
    <2>2. c.path \in Paths /\ c.usable \in Amount /\ c.generation \in Nat
        BY <1>10, <2>1 DEF Parsed
    <2>3. seen[o] \in PathRecord
        BY <1>0, <2>1 DEF Knows, PathReaders
    <2>4. seen[o].generation \in Nat /\ seen[o].capacity_generation \in Nat
        BY <2>3 DEF PathRecord
    <2>5. following(c.generation, seen[o].capacity_generation) \in Nat
        BY <2>2, <2>4 DEF following
    <2> QED
        BY <1>0, <2>1, <2>2, <2>4, <2>5 DEF AnyPath
<1>3. CASE oversubscribe(o)
    <2> DEFINE a == [path |-> c.path, path_generation |-> seen[o].generation,
                     capacity_generation |-> seen[o].capacity_generation,
                     policy_generation |-> seen_policy[o].generation, epoch |-> known_epoch[o],
                     ratio_bps |-> c.ratio_bps, not_after_ms |-> c.not_after_ms]
    <2>1. /\ c.name = "oversubscribe" /\ seen[o] # Nil /\ seen_policy[o] # Nil
          /\ \E id \in OversubIds : issue_oversubscription(id, a)
        BY <1>3 DEF oversubscribe, Runs
    <2>2. c.path \in Paths /\ c.ratio_bps \in Nat /\ c.not_after_ms \in Nat
        BY <1>10, <2>1 DEF Parsed
    <2>3. seen[o] \in PathRecord /\ seen_policy[o] \in Policy
        BY <1>0, <2>1 DEF Knows, PathReaders
    <2>4. /\ seen[o].generation \in Nat /\ seen[o].capacity_generation \in Nat
          /\ seen_policy[o].generation \in Nat
        BY <2>3 DEF PathRecord, Policy
    <2>5. a \in OversubscriptionAuthority
        BY <1>0, <2>2, <2>4 DEF OversubscriptionAuthority
    <2> HIDE DEF a
    <2> QED
        BY <2>1, <2>5 DEF AnyOversubscription
<1>4. CASE epoch_bump(o)
    <2>1. c.name = "epoch-bump" /\ bump_epoch(following(c.epoch, known_epoch[o]))
        BY <1>4 DEF epoch_bump, Runs
    <2>2. following(c.epoch, known_epoch[o]) \in Nat
        BY <1>0, <1>10, <2>1 DEF Parsed, following
    <2> QED
        BY <2>1, <2>2 DEF AnyConfig
<1>5. CASE site_register(o)
    <2>1. /\ c.name = "site-register"
          /\ \E inc \in Incarnations : register_site(c.site, inc, known_epoch[o], now[o])
        BY <1>5 DEF site_register, Runs
    <2>2. c.site \in Sites
        BY <1>10, <2>1 DEF Parsed
    <2> QED
        BY <1>0, <2>1, <2>2 DEF AnySite
<1>6. CASE site_state(o)
    <2>1. c.name = "site-state" /\ set_site_state(c.site, c.state)
        BY <1>6 DEF site_state, Runs
    <2>2. c.site \in Sites /\ c.state \in SiteState
        BY <1>10, <2>1 DEF Parsed
    <2> QED
        BY <2>1, <2>2 DEF AnySite
<1>7. CASE path_register(o)
    <2>1. /\ c.name = "path-register"
          /\ \/ register_new_path(c.path, c.a, c.b, c.domain, c.state)
             \/ reregister_path(c.path, c.a, c.b, c.domain, c.generation, c.state, now[o])
        BY <1>7 DEF path_register, Runs
    <2>2. /\ c.path \in Paths /\ c.a \in Sites /\ c.b \in Sites /\ c.domain \in Domains
          /\ c.generation \in Nat /\ c.state \in PathState
        BY <1>10, <2>1 DEF Parsed
    <2> QED
        BY <1>0, <2>1, <2>2 DEF AnyPath
<1>8. CASE path_state(o)
    <2>1. c.name = "path-state" /\ set_path_state(c.path, c.state, now[o])
        BY <1>8 DEF path_state, Runs
    <2>2. c.path \in Paths /\ c.state \in PathState
        BY <1>10, <2>1 DEF Parsed
    <2> QED
        BY <1>0, <2>1, <2>2 DEF AnyPath
<1>9. CASE tick_now(o)
    BY <1>0, <1>9 DEF tick_now
<1> QED
    BY <1>1, <1>2, <1>3, <1>4, <1>5, <1>6, <1>7, <1>8, <1>9 DEF FabricCall

\* Every call of a command is a request with arguments of the right types.
LEMMA OperatorCalls ==
    ASSUME OperatorInv, NEW o \in Operators, Call(o)
    PROVE  AnyRequest
<1> DEFINE c == command[o]
<1>0. /\ OperatorTypes /\ Knows(o) /\ c # Nil
      /\ known_epoch[o] \in Nat /\ now[o] \in Nat
    <2>1. c # Nil
        BY DEF Call, policy_install, attest, oversubscribe, epoch_bump, grant_propose,
            grant_operation, grant_ack, grant_verify, grant_reconcile, site_register, site_state,
            path_register, path_state, tick_now, Runs
    <2> QED
        BY <2>1 DEF OperatorInv, OperatorTypes
<1>7. Parsed(c) /\ c \in Commands
    BY <1>0, CommandParsed
<1>1. CASE FabricCall(o)
    BY <1>1, FabricCalls DEF AnyRequest
<1>2. CASE grant_propose(o)
    <2> DEFINE inc == IF c.incarnation = Nil THEN seen[o].incarnation ELSE c.incarnation
    <2>1. /\ c.name = "grant-propose" /\ seen[o] # Nil
          /\ \E g \in Requests :
                propose_grant(g, c.site, inc, seen[o].generation, c.path, c.class, c.amount,
                              c.duration, Nil, now[o])
        BY <1>2 DEF grant_propose, Runs
    <2>2. /\ c.site \in Sites /\ c.path \in Paths /\ c.class \in GrantClass
          /\ c.amount \in Amount /\ c.duration \in Nat
          /\ c.incarnation \in Incarnations \cup {Nil}
        BY <1>7, <2>1 DEF Parsed
    <2>3. seen[o] \in SiteRecord
        BY <1>0, <2>1 DEF Knows
    <2>4. seen[o].generation \in Nat /\ inc \in Incarnations
        BY <2>2, <2>3 DEF SiteRecord
    <2> HIDE DEF inc
    <2> QED
        BY <1>0, <2>1, <2>2, <2>4 DEF AnyRequest, AnyGrant
<1>3. CASE grant_operation(o)
    <2>1. c.name \in GrantOperations
        BY <1>3 DEF grant_operation, Runs, GrantOperations
    <2>2. c.grant \in Requests /\ Operation(o) \in GrantOperation
        BY <1>0, <2>1, OperationType
    <2>3. \/ evaluate_grant(c.grant, Operation(o))
          \/ reserve_grant(c.grant, Operation(o))
          \/ activate_grant(c.grant, Operation(o))
          \/ degrade_grant(c.grant, Operation(o))
          \/ withdraw_grant(c.grant, Operation(o))
          \/ retire_grant(c.grant, Operation(o))
          \/ cancel_grant(c.grant, Operation(o))
        BY <1>3 DEF grant_operation
    <2> QED
        BY <2>2, <2>3 DEF AnyRequest, AnyGrant
<1>4. CASE grant_ack(o)
    <2> DEFINE ack == [Operation(o) EXCEPT !.actor = Nil, !.actor_incarnation = Nil]
    <2>1. c.name \in GrantOperations /\ acknowledge_grant(c.grant, ack)
        BY <1>4 DEF grant_ack, Runs, GrantOperations
    <2>2. c.grant \in Requests /\ ack \in GrantOperation
        BY <1>0, <2>1, OperationType
    <2> HIDE DEF ack
    <2> QED
        BY <2>1, <2>2 DEF AnyRequest, AnyGrant
<1>5. CASE grant_verify(o)
    <2>1. /\ c.name = "grant-verify"
          /\ \E id \in VerificationIds : verify_grant(c.grant, id, c.result)
        BY <1>5 DEF grant_verify, Runs
    <2>2. c.grant \in Requests /\ c.result \in VerificationState
        BY <1>7, <2>1 DEF Parsed
    <2> QED
        BY <2>1, <2>2 DEF AnyRequest, AnyGrant
<1>6. CASE grant_reconcile(o)
    <2>1. c.name = "grant-reconcile" /\ reconcile_grant(c.grant, c.target)
        BY <1>6 DEF grant_reconcile, Runs
    <2>2. c.grant \in Requests /\ c.target \in GrantState
        BY <1>7, <2>1 DEF Parsed
    <2> QED
        BY <2>1, <2>2 DEF AnyRequest, AnyGrant
<1> QED
    BY <1>1, <1>2, <1>3, <1>4, <1>5, <1>6 DEF Call, FabricCall

\* Every call ends its command, and so does a failure.
LEMMA CallsExit ==
    ASSUME NEW o \in Operators, Call(o) \/ fails(o) PROVE Exit(o)
BY DEF Call, fails, policy_install, attest, oversubscribe, epoch_bump, grant_propose,
       grant_operation, grant_ack, grant_verify, grant_reconcile, site_register, site_state,
       path_register, path_state, tick_now

\* A step that changes no table is a step forward.
LEMMA StutterForward ==
    ASSUME IInv, UNCHANGED vars PROVE Forward
<1>1. \A p \in Paths : paths[p] # Nil => paths[p].capacity_generation \in Nat
    BY DEF IInv, TypeOK, PathRecord
<1>2. epoch \in Nat
    BY DEF IInv, TypeOK
<1> QED
    BY <1>1, <1>2 DEF Forward, vars

\* Operators begin knowing nothing.
LEMMA OperatorInvInit == Init /\ OperatorInit => OperatorInv
<1> SUFFICES ASSUME Init, OperatorInit PROVE OperatorInv
    OBVIOUS
<1>1. IInv
    BY IInvInit
<1>2. epoch >= 1 /\ Bounded(oversubscriptions)
    BY DEF Init, Bounded, Entries
<1>3. OperatorTypes
    BY DEF OperatorInit, OperatorTypes
<1>4. ASSUME NEW o \in Operators PROVE Knows(o)
    BY DEF OperatorInit, Knows
<1> QED
    BY <1>1, <1>2, <1>3, <1>4 DEF OperatorInv

\* What operators know stays within what was and is, whoever acts.
LEMMA OperatorInvNext ==
    OperatorInv /\ [OperatorNext \/ (AnyRequest /\ UNCHANGED ovars)]_allVars => OperatorInv'
<1> SUFFICES ASSUME OperatorInv, [OperatorNext \/ (AnyRequest /\ UNCHANGED ovars)]_allVars
             PROVE  OperatorInv'
    OBVIOUS
<1>0. IInv /\ OperatorTypes /\ epoch \in Nat /\ TypeOK
    BY DEF OperatorInv, IInv, TypeOK
<1>1. AnyRequest \/ UNCHANGED vars
    BY OperatorCalls DEF OperatorNext, connect, list_paths, list_sites, status, fails, allVars
<1>2. IInv' /\ Forward
    BY <1>0, <1>1, AnyRequestSafe, IInvStutter, RequestsGoForward, StutterForward
<1>3. epoch' >= 1 /\ Bounded(oversubscriptions')
    <2>1. epoch' \in Nat
        BY <1>2 DEF IInv, TypeOK
    <2> QED
        BY <1>0, <1>2, <2>1 DEF OperatorInv, Forward
<1>4. ASSUME UNCHANGED ovars PROVE OperatorTypes' /\ \A o \in Operators : Knows(o)'
    <2>1. OperatorTypes'
        BY <1>0, <1>4 DEF ovars, OperatorTypes
    <2>2. ASSUME NEW o \in Operators PROVE Knows(o)'
        BY <1>0, <1>2, <1>4, KnowsKept DEF OperatorInv, ovars
    <2> QED
        BY <2>1, <2>2
<1>5. ASSUME NEW o \in Operators,
             \/ \E c \in Commands : connect(o, c)
             \/ list_paths(o) \/ list_sites(o) \/ status(o) \/ Call(o) \/ fails(o)
      PROVE  OperatorTypes' /\ \A q \in Operators : Knows(q)'
    <2>1. ASSUME NEW q \in Operators, q # o
          PROVE  /\ command'[q] = command[q] /\ known_epoch'[q] = known_epoch[q]
                 /\ seen'[q] = seen[q] /\ seen_policy'[q] = seen_policy[q]
        BY <1>0, <1>5, <2>1, CallsExit
           DEF OperatorTypes, connect, list_paths, list_sites, status, Exit
    <2>2. ASSUME NEW q \in Operators, q # o PROVE Knows(q)'
        BY <1>0, <1>2, <2>1, <2>2, KnowsKept DEF OperatorInv
    <2>3. CASE \E c \in Commands : connect(o, c)
        <3>1. PICK c \in Commands : connect(o, c)
            BY <2>3
        <3>2. PICK t \in Times : now' = [now EXCEPT ![o] = t]
            BY <3>1 DEF connect
        <3>3. /\ command[o] = Nil /\ command' = [command EXCEPT ![o] = c]
              /\ known_epoch' = [known_epoch EXCEPT ![o] = epoch]
              /\ UNCHANGED <<vars, seen, seen_policy>>
            BY <3>1 DEF connect
        <3>4. OperatorTypes'
            BY <1>0, <3>2, <3>3, InputAssumption DEF OperatorTypes
        <3>5. Knows(o)'
            <4>1. seen[o] = Nil /\ seen_policy[o] = Nil /\ c # Nil
                BY <3>3, OperatorAssumption DEF OperatorInv, Knows
            <4>2. /\ command'[o] = c /\ known_epoch'[o] = epoch /\ epoch' = epoch
                  /\ seen'[o] = Nil /\ seen_policy'[o] = Nil
                BY <1>0, <3>3, <4>1 DEF OperatorTypes, vars
            <4> QED
                BY <1>0, <4>1, <4>2 DEF OperatorInv, Knows
        <3> QED
            BY <2>2, <3>4, <3>5
    <2>4. CASE list_paths(o)
        <3> DEFINE c == command[o]
        <3>1. /\ c # Nil /\ c.name \in PathReaders /\ seen[o] = Nil /\ paths[c.path] # Nil
              /\ seen' = [seen EXCEPT ![o] = paths[c.path]]
              /\ UNCHANGED <<vars, command, known_epoch, now, seen_policy>>
            BY <2>4 DEF list_paths, Runs, PathReaders
        <3>2. c.path \in Paths
            BY <1>0, <3>1, CommandParsed DEF Parsed, PathReaders
        <3>3. paths[c.path] \in PathRecord
            BY <1>0, <3>1, <3>2 DEF TypeOK
        <3>4. paths[c.path].capacity_generation \in Nat
            BY <3>3 DEF PathRecord
        <3>5. OperatorTypes'
            BY <1>0, <3>1 DEF OperatorTypes
        <3>6. /\ seen'[o] = paths[c.path] /\ command'[o] = c /\ paths' = paths
              /\ policy' = policy /\ epoch' = epoch /\ seen_policy'[o] = seen_policy[o]
              /\ known_epoch'[o] = known_epoch[o]
            BY <1>0, <3>1 DEF OperatorTypes, vars
        <3>7. Knows(o)'
            <4> HIDE DEF c
            <4>1. Knows(o) /\ command[o] = c
                BY DEF OperatorInv, c
            <4>2. c.name # "grant-propose"
                BY <3>1 DEF PathReaders
            <4> QED
                BY <3>1, <3>3, <3>4, <3>6, <4>1, <4>2 DEF Knows
        <3> QED
            BY <2>2, <3>5, <3>7
    <2>5. CASE list_sites(o)
        <3> DEFINE c == command[o]
        <3>1. /\ c # Nil /\ c.name = "grant-propose" /\ sites[c.site] # Nil
              /\ seen' = [seen EXCEPT ![o] = sites[c.site]]
              /\ UNCHANGED <<vars, command, known_epoch, now, seen_policy>>
            BY <2>5 DEF list_sites, Runs
        <3>2. c.site \in Sites
            BY <1>0, <3>1, CommandParsed DEF Parsed
        <3>3. sites[c.site] \in SiteRecord
            BY <1>0, <3>1, <3>2 DEF TypeOK
        <3>4. OperatorTypes'
            BY <1>0, <3>1 DEF OperatorTypes
        <3>5. /\ seen'[o] = sites[c.site] /\ command'[o] = c /\ paths' = paths
              /\ policy' = policy /\ epoch' = epoch /\ seen_policy'[o] = seen_policy[o]
              /\ known_epoch'[o] = known_epoch[o]
            BY <1>0, <3>1 DEF OperatorTypes, vars
        <3>6. Knows(o)'
            <4> HIDE DEF c
            <4>1. Knows(o) /\ command[o] = c
                BY DEF OperatorInv, c
            <4>2. c.name \notin PathReaders
                BY <3>1 DEF PathReaders
            <4> QED
                BY <3>1, <3>3, <3>5, <4>1, <4>2 DEF Knows
        <3> QED
            BY <2>2, <3>4, <3>6
    <2>6. CASE status(o)
        <3>1. /\ command[o] # Nil
              /\ seen_policy' = [seen_policy EXCEPT ![o] = policy]
              /\ UNCHANGED <<vars, command, known_epoch, now, seen>>
            BY <2>6 DEF status, Runs
        <3>2. OperatorTypes'
            BY <1>0, <3>1 DEF OperatorTypes
        <3>3. /\ seen_policy'[o] = policy /\ policy' = policy /\ policy \in Policy
              /\ command' = command /\ seen' = seen /\ known_epoch' = known_epoch
              /\ paths' = paths /\ epoch' = epoch
            BY <1>0, <3>1 DEF OperatorTypes, vars, TypeOK
        <3>4. Knows(o)'
            <4>1. Knows(o)
                BY DEF OperatorInv
            <4> QED
                BY <3>1, <3>3, <4>1 DEF Knows
        <3> QED
            BY <2>2, <3>2, <3>4
    <2>7. CASE Call(o) \/ fails(o)
        <3>1. Exit(o)
            BY <2>7, CallsExit
        <3>2. OperatorTypes'
            BY <1>0, <3>1 DEF OperatorTypes, Exit
        <3>3. command'[o] = Nil /\ seen'[o] = Nil /\ seen_policy'[o] = Nil
            BY <1>0, <3>1 DEF OperatorTypes, Exit
        <3>4. Knows(o)'
            BY <3>3 DEF Knows
        <3> QED
            BY <2>2, <3>2, <3>4
    <2> QED
        BY <1>5, <2>3, <2>4, <2>5, <2>6, <2>7
<1>6. OperatorTypes' /\ \A o \in Operators : Knows(o)'
    BY <1>4, <1>5 DEF OperatorNext, allVars
<1> QED
    BY <1>2, <1>3, <1>6 DEF OperatorInv

\* It holds always.
LEMMA OperatorInvAlways == OperatorSpec => []OperatorInv
BY OperatorInvInit, OperatorInvNext, PTL DEF OperatorSpec

\* Only an operator's own call ends its command with an effect.
LEMMA OwnCall ==
    ASSUME OperatorTypes, OperatorNext \/ (AnyRequest /\ UNCHANGED ovars),
           NEW o \in Operators, command[o] # Nil, command'[o] = Nil
    PROVE  Call(o) \/ (fails(o) /\ UNCHANGED vars)
<1>1. ~ UNCHANGED command
    OBVIOUS
<1>2. PICK q \in Operators :
            \/ \E c \in Commands : connect(q, c)
            \/ list_paths(q) \/ list_sites(q) \/ status(q) \/ Call(q) \/ fails(q)
    BY <1>1 DEF OperatorNext, ovars
<1>3. Call(q) \/ fails(q)
    <2>1. ASSUME NEW c \in Commands, connect(q, c) PROVE FALSE
        <3>1. command[q] = Nil /\ command' = [command EXCEPT ![q] = c]
            BY <2>1 DEF connect
        <3> QED
            BY <3>1 DEF OperatorTypes
    <2> QED
        BY <1>1, <1>2, <2>1 DEF list_paths, list_sites, status
<1>4. q = o
    BY <1>3, CallsExit DEF Exit, OperatorTypes
<1> QED
    BY <1>3, <1>4 DEF fails

\* policy-install reads the policy and replaces all of it, and nothing holds the
\* authority still in between; install_policy accepts a newer generation only, and the
\* one that is counted up from what was read is newer only if nothing was installed
\* since.
THEOREM PolicyUpdatesKept == OperatorSpec => NoLostPolicyUpdate
<1>1. ASSUME OperatorInv, OperatorNext \/ (AnyRequest /\ UNCHANGED ovars), NEW o \in Operators,
             TakesEffect(o, "policy-install"), command[o].generation = 0,
             NEW f \in DOMAIN policy \ (DOMAIN command[o].set \cup {"generation"})
      PROVE  policy'[f] = IF f = "allow_partition_optimistic_recovery" THEN FALSE ELSE policy[f]
    <2> DEFINE c == command[o]
               read == seen_policy[o]
    <2>1. c # Nil /\ c.name = "policy-install" /\ policy_install(o)
        <3>1. c # Nil /\ c.name = "policy-install" /\ command'[o] = Nil /\ ~ UNCHANGED vars
            BY <1>1 DEF TakesEffect, Runs
        <3>2. Call(o)
            BY <1>1, <3>1, OwnCall DEF OperatorInv
        <3> QED
            BY <3>1, <3>2 DEF Call, attest, oversubscribe, epoch_bump, grant_propose,
                grant_operation, grant_ack, grant_verify, grant_reconcile, site_register,
                site_state, path_register, path_state, tick_now, Runs
    <2>2. read # Nil /\ install_policy(NewPolicy(c, read))
        BY <2>1 DEF policy_install
    <2>3. /\ read \in Policy /\ policy \in Policy
          /\ read = policy \/ read.generation < policy.generation
        BY <1>1, <2>2 DEF OperatorInv, Knows, IInv, TypeOK
    <2>4. NewPolicy(c, read).generation = read.generation + 1
        <3>1. "generation" \in DOMAIN read
            BY <2>3 DEF Policy
        <3>2. c \in Commands /\ Parsed(c)
            BY <1>1, <2>1, CommandParsed DEF OperatorInv
        <3>3. "generation" \notin DOMAIN c.set
            BY <2>1, <3>2 DEF Parsed, PolicyOptions
        <3> QED
            BY <1>1, <3>1, <3>3 DEF NewPolicy, following
    <2>5. read = policy
        <3>1. read.generation + 1 > policy.generation
            BY <2>2, <2>4 DEF install_policy
        <3>2. read.generation \in Nat /\ policy.generation \in Nat
            BY <2>3 DEF Policy
        <3> QED
            BY <2>3, <3>1, <3>2
    <2>6. policy' = NewPolicy(c, policy)
        BY <2>2, <2>5 DEF install_policy
    <2> QED
        BY <1>1, <2>6 DEF NewPolicy
<1>2. ASSUME OperatorInv, [OperatorNext \/ (AnyRequest /\ UNCHANGED ovars)]_allVars
      PROVE  [\A o \in Operators :
                TakesEffect(o, "policy-install") /\ command[o].generation = 0
                => \A f \in DOMAIN policy \ (DOMAIN command[o].set \cup {"generation"}) :
                      policy'[f] = IF f = "allow_partition_optimistic_recovery" THEN FALSE
                                   ELSE policy[f]]_allVars
    BY <1>1, <1>2
<1> QED
    BY <1>2, OperatorInvAlways, PTL DEF OperatorSpec, NoLostPolicyUpdate

\* A command that replaces the capacity of a path under a generation counted up from
\* the one it read replaces the capacity it read.
LEMMA AttestsWhatItRead ==
    ASSUME OperatorInv, NEW o \in Operators, attest(o), command[o].generation = 0
    PROVE  /\ seen[o].generation = paths[command[o].path].generation
           /\ seen[o].authoritative_usable = paths[command[o].path].authoritative_usable
<1> DEFINE c == command[o]
<1>1. /\ c # Nil /\ c.name = "attest" /\ seen[o] # Nil
      /\ \E id \in AttestationIds :
            attest_capacity(id, c.path, known_epoch[o], seen[o].generation,
                            following(c.generation, seen[o].capacity_generation),
                            c.usable, now[o])
    BY DEF attest, Runs
<1>2. /\ paths[c.path] # Nil /\ seen[o].generation = paths[c.path].generation
      /\ seen[o].capacity_generation + 1 > paths[c.path].capacity_generation
    BY <1>1 DEF attest_capacity, following
<1>3. /\ seen[o] \in PathRecord
      /\ seen[o].capacity_generation <= paths[c.path].capacity_generation
      /\ seen[o].capacity_generation = paths[c.path].capacity_generation
            => seen[o].authoritative_usable = paths[c.path].authoritative_usable
    BY <1>1 DEF OperatorInv, Knows, PathReaders
<1>4. c.path \in Paths
    BY <1>1, CommandParsed DEF OperatorInv, Parsed
<1>5. paths[c.path].capacity_generation \in Nat /\ seen[o].capacity_generation \in Nat
    BY <1>2, <1>3, <1>4 DEF OperatorInv, IInv, TypeOK, PathRecord
<1> QED
    BY <1>2, <1>3, <1>5

\* What a command put together from the path and the policy it read one after the other
\* is in force when it is accepted.
LEMMA OverbookingInForce ==
    ASSUME OperatorInv, OperatorInv', NEW o \in Operators, oversubscribe(o),
           NEW p \in Paths, command[o].path = p
    PROVE  live_oversubscription_bps(p, paths[p], policy, 0)' > kScale
<1> DEFINE c == command[o]
           a == [path |-> p, path_generation |-> seen[o].generation,
                 capacity_generation |-> seen[o].capacity_generation,
                 policy_generation |-> seen_policy[o].generation, epoch |-> known_epoch[o],
                 ratio_bps |-> c.ratio_bps, not_after_ms |-> c.not_after_ms]
           tab == oversubscriptions'
           R == RatiosIn(tab, epoch, p, paths[p], policy, 0)
<1>1. PICK id \in OversubIds : issue_oversubscription(id, a)
    BY DEF oversubscribe
<1>2. /\ c.ratio_bps > kScale /\ c.ratio_bps <= policy.max_oversubscription_bps
      /\ known_epoch[o] = epoch /\ seen_policy[o].generation = policy.generation
      /\ seen[o].generation = paths[p].generation
      /\ seen[o].capacity_generation = paths[p].capacity_generation
      /\ oversubscriptions' = [oversubscriptions EXCEPT ![id] = a]
      /\ UNCHANGED <<epoch, policy, paths>>
    BY <1>1 DEF issue_oversubscription
<1>3. c # Nil /\ c.ratio_bps \in Nat
    BY CommandParsed DEF OperatorInv, oversubscribe, Runs, Parsed
<1>4. tab \in OversubscriptionTable /\ policy \in Policy /\ DOMAIN tab = OversubIds
    BY <1>2 DEF OperatorInv, IInv, TypeOK, OversubscriptionTable
<1>5. tab[id] = a /\ a \in OversubscriptionAuthority /\ a # Nil
    <2>1. tab[id] = a
        BY <1>2 DEF OperatorInv, IInv, TypeOK
    <2>2. a # Nil
        <3>1. /\ seen[o] \in PathRecord /\ seen_policy[o] \in Policy
              /\ c.not_after_ms \in Nat /\ known_epoch[o] \in Nat
            BY CommandParsed DEF OperatorInv, oversubscribe, Runs, Parsed, Knows, PathReaders,
                                 OperatorTypes
        <3>2. a \in OversubscriptionAuthority
            BY <1>3, <3>1 DEF OversubscriptionAuthority, PathRecord, Policy
        <3> QED
            BY <3>2, NilAssumption
    <2> QED
        BY <1>4, <2>1, <2>2 DEF OversubscriptionTable
<1>6. c.ratio_bps \in R
    <2>1. /\ a.path = p /\ a.ratio_bps = c.ratio_bps /\ a.epoch = epoch
          /\ a.policy_generation = policy.generation
          /\ a.path_generation = paths[p].generation
          /\ a.capacity_generation = paths[p].capacity_generation
        BY <1>2
    <2> HIDE DEF a
    <2>2. id \in LiveIn(tab, epoch, p, paths[p], policy, 0)
        BY <1>2, <1>4, <1>5, <2>1 DEF LiveIn, Entries
    <2> QED
        BY <1>5, <2>1, <2>2 DEF RatiosIn
<1>7. R \subseteq Nat /\ \A x \in R : x <= Max(R)
    BY <1>4, BestExists
<1>8. Max(R) \in Nat
    BY <1>4, BestExists
<1>9. live_oversubscription_bps(p, paths[p], policy, 0)'
        = min_amount(Max(R), policy.max_oversubscription_bps)
    BY <1>2 DEF live_oversubscription_bps, RatiosIn, LiveIn, Entries
<1>10. policy.max_oversubscription_bps \in Nat /\ kScale \in Nat
    BY <1>4, CapacityAssumption DEF Policy
<1> HIDE DEF R
<1> QED
    BY <1>2, <1>3, <1>6, <1>7, <1>8, <1>9, <1>10 DEF min_amount

\* A command that connected in an earlier epoch authorises nothing: what reserves looks
\* at the epoch, and everything else but a reconciliation takes authorisation away or
\* leaves it.
LEMMA StaleAuthorisesNothing ==
    ASSUME OperatorInv, NEW o \in Operators, Call(o), ~ Runs(o, "grant-reconcile"),
           known_epoch[o] # epoch, NEW g \in Entries(grants), authorised(grants'[g].state)
    PROVE  authorised(grants[g].state)
<1> DEFINE c == command[o]
<1>0. /\ IInv /\ c # Nil /\ Parsed(c) /\ known_epoch[o] \in Nat /\ known_epoch[o] >= 1
      /\ now[o] \in Nat /\ g \in Requests /\ grants[g] \in GrantRecord
      /\ grants \in [Requests -> GrantRecord \cup {Nil}]
    <2>1. c # Nil
        BY DEF Call, policy_install, attest, oversubscribe, epoch_bump, grant_propose,
            grant_operation, grant_ack, grant_verify, grant_reconcile, site_register, site_state,
            path_register, path_state, tick_now, Runs
    <2>2. IInv /\ g \in Requests /\ grants[g] \in GrantRecord
          /\ grants \in [Requests -> GrantRecord \cup {Nil}]
        BY DEF OperatorInv, IInv, TypeOK, Entries
    <2> QED
        BY <2>1, <2>2, CommandParsed DEF OperatorInv, OperatorTypes, Knows
<1>1. ASSUME Invalidated(grants[g].state, grants'[g].state) PROVE authorised(grants[g].state)
    BY <1>1 DEF Invalidated, authorised
<1>2. CASE AnyConfig \/ AnySite \/ AnyPath
    BY <1>0, <1>1, <1>2, AnyInvalidates
<1>3. CASE AnyOversubscription
    BY <1>3 DEF AnyOversubscription, issue_oversubscription
<1>4. CASE \E now_ms \in Nat : tick(now_ms)
    <2>1. \/ Invalidated(grants[g].state, grants'[g].state)
          \/ grants'[g].state = "Expired"
        BY <1>0, <1>4, AnyTickInvalidates
    <2> QED
        BY <1>1, <2>1 DEF authorised
<1>5. ASSUME NEW h \in Requests, NEW st, grants[h] # Nil,
             \/ SetGrant(h, [grants[h] EXCEPT !.state = st])
             \/ SetGrant(h, [grants[h] EXCEPT !.state = st, !.verification = "Unverified"]),
             authorised(st) => authorised(grants[h].state)
      PROVE  authorised(grants[g].state)
    <2>1. grants[h] \in GrantRecord
        BY <1>0, <1>5
    <2>2. grants'[h].state = st
        BY <1>0, <1>5, <2>1 DEF SetGrant, GrantRecord
    <2>3. h # g => grants'[g] = grants[g]
        BY <1>0, <1>5 DEF SetGrant
    <2> QED
        BY <1>5, <2>2, <2>3
<1>6. CASE grant_operation(o)
    <2> DEFINE h == c.grant
               op == Operation(o)
    <2>1. h \in Requests
        BY <1>0, <1>6 DEF Parsed, grant_operation, Runs, GrantOperations
    <2>2. ASSUME NEW r, check_binding(r, op) PROVE FALSE
        BY <1>0, <2>2 DEF check_binding, Operation
    <2> HIDE DEF op
    <2>3. ~ evaluate_grant(h, op) /\ ~ reserve_grant(h, op) /\ ~ activate_grant(h, op)
            /\ ~ degrade_grant(h, op) /\ ~ withdraw_grant(h, op)
        BY <2>2 DEF evaluate_grant, reserve_grant, activate_grant, degrade_grant, withdraw_grant
    <2>4. CASE retire_grant(h, op)
        <3>1. /\ grants[h] # Nil
              /\ SetGrant(h, [grants[h] EXCEPT !.state = "Retired", !.verification = "Unverified"])
            BY <2>4 DEF retire_grant
        <3>2. ~ authorised("Retired")
            BY DEF authorised
        <3> HIDE DEF h
        <3> QED
            BY <1>5, <2>1, <3>1, <3>2
    <2>5. CASE cancel_grant(h, op)
        <3>1. grants[h] # Nil /\ SetGrant(h, [grants[h] EXCEPT !.state = "Cancelled"])
            BY <2>5 DEF cancel_grant
        <3>2. ~ authorised("Cancelled")
            BY DEF authorised
        <3> HIDE DEF h
        <3> QED
            BY <1>5, <2>1, <3>1, <3>2
    <2> QED
        BY <1>6, <2>3, <2>4, <2>5 DEF grant_operation, op
<1>7. CASE grant_propose(o)
    <2>1. ASSUME NEW h, NEW s, NEW inc, NEW gen, NEW p, NEW class, NEW amount, NEW duration,
                 NEW lease, NEW now_ms,
                 propose_grant(h, s, inc, gen, p, class, amount, duration, lease, now_ms)
          PROVE  grants'[g] = grants[g]
        <3>1. grants[h] = Nil /\ \E r : grants' = [grants EXCEPT ![h] = r]
            BY <2>1 DEF propose_grant
        <3> QED
            BY <1>0, <3>1 DEF Entries
    <2>2. grants'[g] = grants[g]
        BY <1>7, <2>1 DEF grant_propose
    <2> QED
        BY <2>2
<1>8. CASE grant_ack(o)
    <2> DEFINE h == c.grant
               ack == [Operation(o) EXCEPT !.actor = Nil, !.actor_incarnation = Nil]
    <2>1. ack.epoch = known_epoch[o]
        BY DEF Operation
    <2> HIDE DEF ack
    <2>2. ~ acknowledge_grant(h, ack)
        BY <1>0, <2>1 DEF acknowledge_grant
    <2> QED
        BY <1>8, <2>2 DEF grant_ack, ack
<1>9. CASE grant_verify(o)
    <2>1. \E result : grants[c.grant] # Nil /\ grants' = [grants EXCEPT ![c.grant].verification = result]
        BY <1>9 DEF grant_verify, verify_grant
    <2>2. c.grant \in Requests
        BY <1>0, <1>9 DEF Parsed, grant_verify, Runs
    <2>3. grants'[g].state = grants[g].state
        BY <1>0, <2>1, <2>2 DEF GrantRecord
    <2> QED
        BY <2>3
<1>10. ~ grant_reconcile(o)
    BY DEF grant_reconcile
<1>11. CASE FabricCall(o)
    BY <1>2, <1>3, <1>4, <1>11, FabricCalls
<1> QED
    BY <1>6, <1>7, <1>8, <1>9, <1>10, <1>11 DEF Call, FabricCall

\* Commands of isfctl that read before they call act on what is still true, or are
\* refused, whatever the authority is asked to do between the read and the call: the
\* guards of plan_attest_capacity, plan_bump_epoch, plan_propose_grant,
\* plan_issue_oversubscription and check_binding compare what was read with what is
\* current.
THEOREM CommandsActOnWhatTheyRead == OperatorSpec => ActsOnWhatItRead
<1> DEFINE Acts(o) ==
        LET c == command[o] IN
          /\ TakesEffect(o, "attest") /\ c.generation = 0 =>
                /\ seen[o].generation = paths[c.path].generation
                /\ seen[o].authoritative_usable = paths[c.path].authoritative_usable
          /\ TakesEffect(o, "epoch-bump") /\ c.epoch = 0 => known_epoch[o] = epoch
          /\ TakesEffect(o, "grant-propose") /\ c.incarnation = Nil =>
                seen[o].incarnation = sites[c.site].incarnation
          /\ \A p \in Paths : TakesEffect(o, "oversubscribe") /\ c.path = p =>
                live_oversubscription_bps(p, paths[p], policy, 0)' > kScale
          /\ /\ c # Nil /\ command'[o] = Nil /\ ~ Runs(o, "grant-reconcile")
             /\ known_epoch[o] # epoch
             => \A g \in Entries(grants) :
                    authorised(grants'[g].state) => authorised(grants[g].state)
<1>1. ASSUME OperatorInv, OperatorInv', OperatorNext \/ (AnyRequest /\ UNCHANGED ovars),
             NEW o \in Operators
      PROVE  Acts(o)
    <2> DEFINE c == command[o]
    <2>0. OperatorTypes
        BY <1>1 DEF OperatorInv
    <2>1. ASSUME NEW name, TakesEffect(o, name)
          PROVE  c # Nil /\ c.name = name /\ Call(o)
        <3>1. c # Nil /\ c.name = name /\ command'[o] = Nil /\ ~ UNCHANGED vars
            BY <2>1 DEF TakesEffect, Runs
        <3> QED
            BY <1>1, <2>0, <3>1, OwnCall
    <2>2. ASSUME NEW name, Call(o), c.name = name
          PROVE  /\ name = "attest" => attest(o)
                 /\ name = "epoch-bump" => epoch_bump(o)
                 /\ name = "grant-propose" => grant_propose(o)
                 /\ name = "oversubscribe" => oversubscribe(o)
        BY <2>2 DEF Call, policy_install, attest, oversubscribe, epoch_bump, grant_propose,
            grant_operation, grant_ack, grant_verify, grant_reconcile, site_register, site_state,
            path_register, path_state, tick_now, Runs
    <2>3. ASSUME TakesEffect(o, "attest"), c.generation = 0
          PROVE  /\ seen[o].generation = paths[c.path].generation
                 /\ seen[o].authoritative_usable = paths[c.path].authoritative_usable
        BY <1>1, <2>1, <2>2, <2>3, AttestsWhatItRead
    <2>4. ASSUME TakesEffect(o, "epoch-bump"), c.epoch = 0 PROVE known_epoch[o] = epoch
        <3>1. c # Nil /\ epoch_bump(o)
            BY <2>1, <2>2, <2>4
        <3>2. known_epoch[o] + 1 > epoch
            BY <2>4, <3>1 DEF epoch_bump, bump_epoch, following
        <3>3. known_epoch[o] <= epoch /\ known_epoch[o] \in Nat /\ epoch \in Nat
            BY <1>1, <3>1 DEF OperatorInv, OperatorTypes, Knows, IInv, TypeOK
        <3> QED
            BY <3>2, <3>3
    <2>5. ASSUME TakesEffect(o, "grant-propose"), c.incarnation = Nil
          PROVE  seen[o].incarnation = sites[c.site].incarnation
        <3>1. grant_propose(o)
            BY <2>1, <2>2, <2>5
        <3> QED
            BY <2>5, <3>1 DEF grant_propose, propose_grant
    <2>6. ASSUME NEW p \in Paths, TakesEffect(o, "oversubscribe"), c.path = p
          PROVE  live_oversubscription_bps(p, paths[p], policy, 0)' > kScale
        <3>1. oversubscribe(o)
            BY <2>1, <2>2, <2>6
        <3> QED
            BY <1>1, <2>6, <3>1, OverbookingInForce
    <2>7. ASSUME c # Nil, command'[o] = Nil, ~ Runs(o, "grant-reconcile"), known_epoch[o] # epoch,
                 NEW g \in Entries(grants), authorised(grants'[g].state)
          PROVE  authorised(grants[g].state)
        <3>1. Call(o) \/ UNCHANGED vars
            BY <1>1, <2>0, <2>7, OwnCall
        <3>2. UNCHANGED vars => grants' = grants
            BY DEF vars
        <3> QED
            BY <1>1, <2>7, <3>1, <3>2, StaleAuthorisesNothing
    <2> QED
        BY <2>3, <2>4, <2>5, <2>6, <2>7
<1> HIDE DEF Acts
<1>2. ASSUME OperatorInv, OperatorInv', [OperatorNext \/ (AnyRequest /\ UNCHANGED ovars)]_allVars
      PROVE  [\A o \in Operators : Acts(o)]_allVars
    BY <1>1, <1>2
<1>3. OperatorSpec => [][\A o \in Operators : Acts(o)]_allVars
    BY <1>2, OperatorInvAlways, PTL DEF OperatorSpec
<1> QED
    BY <1>3 DEF Acts, ActsOnWhatItRead

===============================================================================
