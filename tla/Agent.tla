-------------------------------- MODULE Agent --------------------------------
(***************************************************************************)
(* Site agents (apps/isfsited/main.cpp) and the authority they talk to.    *)
(* An agent is one run of one process and is named by its incarnation: it  *)
(* registers its site, may reconcile a grant, takes one grant through      *)
(* proposal, evaluation, reservation, activation and acknowledgement, and  *)
(* then sends heartbeats.  It reads the epoch and the site's generation    *)
(* once, at the start, and any call that fails ends it.  Several agents    *)
(* may run for one site: one that was replaced does not know it.           *)
(*                                                                         *)
(* A call succeeds as the authority's action, or it fails: refused, timed  *)
(* out or lost.  A call that took effect and whose reply was lost is that  *)
(* action and then leave.  Operators and the daemon's ticker act in        *)
(* between.  All of them read one clock.                                   *)
(***************************************************************************)
EXTENDS Authority

CONSTANTS site,       \* the site the agents run for
          path,       \* --path
          Horizon     \* bound of the model: agents call only at times up to this one

ASSUME AgentAssumption == site \in Sites /\ path \in Paths /\ Horizon \in Nat

VARIABLES clock,
          stage,               \* of each agent: how far main has come
          agent_epoch,         \* hello().epoch
          known_generation,    \* site.value().generation
          own,                 \* the grant the agent proposed
          op_ms                \* op.now_ms, taken once for all its operations

agentVars == <<stage, agent_epoch, known_generation, own, op_ms>>
avars == <<vars, clock, agentVars>>

Agents == Incarnations

Stage == {"Start", "Connected", "Registered", "Reconciled", "Proposed", "Evaluated", "Reserved",
          "Activated", "Running", "Exited"}

AgentInit ==
    /\ clock \in {t \in Times : \A u \in Times : t <= u}
    /\ stage = [a \in Agents |-> "Start"]
    /\ agent_epoch = [a \in Agents |-> 0]
    /\ known_generation = [a \in Agents |-> 0]
    /\ own = [a \in Agents |-> Nil]
    /\ op_ms = [a \in Agents |-> 0]

------------------------------------------------------------------------------
(* The agent, in the order of main *)

\* Agent a is at this point of main, and goes on to that one.
At(a, here)    == stage[a] = here /\ clock <= Horizon
Goes(a, there) == stage' = [stage EXCEPT ![a] = there]

hello(a) ==
    /\ At(a, "Start")
    /\ Goes(a, "Connected")
    /\ agent_epoch' = [agent_epoch EXCEPT ![a] = epoch]
    /\ UNCHANGED <<vars, clock, known_generation, own, op_ms>>

register(a) ==
    /\ At(a, "Connected")
    /\ register_site(site, a, agent_epoch[a], clock)
    /\ Goes(a, "Registered")
    /\ known_generation' = [known_generation EXCEPT ![a] = sites'[site].generation]
    /\ UNCHANGED <<clock, agent_epoch, own, op_ms>>

\* --reconcile; without --run-ms the agent is done.
reconcile(a) ==
    /\ At(a, "Registered")
    /\ \E g \in Requests, target \in ReconcileTargets : reconcile_grant(g, target)
    /\ Goes(a, "Reconciled") \/ Goes(a, "Exited")
    /\ UNCHANGED <<clock, agent_epoch, known_generation, own, op_ms>>

propose(a) ==
    /\ At(a, "Registered") \/ At(a, "Reconciled")
    /\ \E g \in Requests, class \in Classes, amount \in Amounts, duration \in Durations :
          /\ propose_grant(g, site, a, known_generation[a], path, class, amount, duration,
                           Nil, clock)
          /\ own' = [own EXCEPT ![a] = g]
    /\ Goes(a, "Proposed")
    /\ op_ms' = [op_ms EXCEPT ![a] = clock]
    /\ UNCHANGED <<clock, agent_epoch, known_generation>>

AgentOperation(a) ==
    [actor |-> site, actor_incarnation |-> a, lease |-> own[a], epoch |-> agent_epoch[a],
     path_generation |-> 0, capacity_generation |-> 0, policy_generation |-> 0,
     now_ms |-> op_ms[a], reconcile |-> FALSE]

\* A grant that was not found eligible is the end of it.
evaluate(a) ==
    /\ At(a, "Proposed")
    /\ evaluate_grant(own[a], AgentOperation(a))
    /\ Goes(a, IF grants'[own[a]].state = "Eligible" THEN "Evaluated" ELSE "Exited")
    /\ UNCHANGED <<clock, agent_epoch, known_generation, own, op_ms>>

reserve(a) ==
    /\ At(a, "Evaluated")
    /\ reserve_grant(own[a], AgentOperation(a))
    /\ Goes(a, "Reserved")
    /\ UNCHANGED <<clock, agent_epoch, known_generation, own, op_ms>>

activate(a) ==
    /\ At(a, "Reserved")
    /\ activate_grant(own[a], AgentOperation(a))
    /\ Goes(a, "Activated")
    /\ UNCHANGED <<clock, agent_epoch, known_generation, own, op_ms>>

\* Whether the acknowledgement is accepted makes no difference to the agent.
acknowledge(a) ==
    /\ At(a, "Activated")
    /\ acknowledge_grant(own[a], AgentOperation(a)) \/ UNCHANGED vars
    /\ Goes(a, "Running")
    /\ UNCHANGED <<clock, agent_epoch, known_generation, own, op_ms>>

\* An agent without --path and --reserve has no grant.
skip(a) ==
    /\ At(a, "Registered") \/ At(a, "Reconciled")
    /\ Goes(a, "Running")
    /\ UNCHANGED <<vars, clock, agent_epoch, known_generation, own, op_ms>>

Beat(a) == heartbeat(site, a, agent_epoch[a], known_generation[a], clock)

beat(a) ==
    /\ At(a, "Running")
    /\ Beat(a)
    /\ UNCHANGED <<clock, agentVars>>

beat_refused(a) ==
    /\ stage[a] = "Running"
    /\ ~ ENABLED Beat(a)
    /\ Goes(a, "Exited")
    /\ UNCHANGED <<vars, clock, agent_epoch, known_generation, own, op_ms>>

\* Any other end: a call fails, --run-ms is over, or the process is killed.
leave(a) ==
    /\ stage[a] # "Exited"
    /\ Goes(a, "Exited")
    /\ UNCHANGED <<vars, clock, agent_epoch, known_generation, own, op_ms>>

agent(a) ==
    \/ hello(a)
    \/ register(a)
    \/ reconcile(a)
    \/ propose(a)
    \/ evaluate(a)
    \/ reserve(a)
    \/ activate(a)
    \/ acknowledge(a)
    \/ skip(a)
    \/ beat(a)
    \/ beat_refused(a)
    \/ leave(a)

------------------------------------------------------------------------------
(* Everyone else *)

ticker == tick(clock) /\ UNCHANGED <<clock, agentVars>>

time_passes ==
    /\ \E t \in Times : /\ t > clock
                        /\ \A u \in Times : u <= clock \/ t <= u
                        /\ clock' = t
    /\ UNCHANGED <<vars, agentVars>>

operator ==
    /\ \/ \E e \in Epochs : bump_epoch(e)
       \/ \E state \in SiteStateInputs : set_site_state(site, state)
       \/ \E state \in PathStateInputs : set_path_state(path, state, clock)
    /\ UNCHANGED <<clock, agentVars>>

AgentNext ==
    \/ \E a \in Agents : agent(a)
    \/ ticker
    \/ time_passes
    \/ operator

\* An agent that runs sends its heartbeats, the ticker ticks and time passes.
\* Nothing makes an agent succeed, and nothing makes one leave that is not
\* refused.
AgentFairness ==
    /\ WF_avars(ticker)
    /\ WF_avars(time_passes)
    /\ \A a \in Agents : WF_avars(beat_refused(a))

------------------------------------------------------------------------------
(* Properties *)

\* The site belongs to another run, and this one has not noticed yet.
Superseded(a) ==
    /\ stage[a] \notin {"Start", "Connected", "Exited"}
    /\ sites[site].incarnation # a

\* README.md: when a new process gets a new incarnation, "the previous one is
\* fenced".  Nothing a replaced agent goes on to do changes anything, wherever in
\* its sequence it was replaced; a reconciliation is an operator's decision and
\* the exception.
SupersededChangesNothing ==
    [][\A a \in Agents :
          Superseded(a) /\ stage'[a] # stage[a] => reconcile(a) \/ UNCHANGED vars]_avars

\* A site's lease is only ever refreshed for the run that holds the site, by
\* that run, while it has not ended.
LeaseRefreshedByHolder ==
    [][sites[site] # Nil /\ sites'[site].last_heartbeat_ms # sites[site].last_heartbeat_ms
       => stage[sites'[site].incarnation] \in {"Connected", "Running"}]_avars

\* TESTING.md: "stale-incarnation fencing after an agent restart".  An agent that
\* was replaced while it sends heartbeats finds out and ends.
SupersededEnds ==
    \A a \in Agents : (stage[a] = "Running" /\ Superseded(a)) ~> stage[a] = "Exited"

\* An authorisation does not outlive its agent: once every agent of the site has
\* ended, no grant of the site stays reserved or active.
OrphanedLosesAuthority ==
    (\A a \in Agents : stage[a] = "Exited")
        ~> \A g \in GrantsOf(site) : grants[g].state \notin {"Reserved", "Active"}
==============================================================================
