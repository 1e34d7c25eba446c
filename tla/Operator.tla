------------------------------- MODULE Operator -------------------------------
(***************************************************************************)
(* Operators at the command line (apps/isfctl/main.cpp), several at once.  *)
(* Every command is a process of its own: it connects, which tells it the  *)
(* epoch, reads the clock once, reads what its defaults need, and makes    *)
(* one mutating call.  Nothing holds the authority still between the read  *)
(* and the call.  What the command line leaves out is taken from what was  *)
(* read: a new policy is the old one with some fields replaced, and a      *)
(* generation or epoch that is not given is the one that was read plus     *)
(* one.                                                                    *)
(*                                                                         *)
(* A call succeeds as the authority's action, or it fails (refused, timed  *)
(* out, the daemon restarted) and ends the command.  A call whose reply is *)
(* lost is the action; the operator may run the command again.  Commands   *)
(* that only print what they read are left out, and so is shutdown, which  *)
(* is the signal of module Server.                                         *)
(* Definitions named X_... are faulty variants of X, as in Authority.      *)
(***************************************************************************)
EXTENDS Authority

CONSTANTS Operators,
          Commands,        \* the command lines operators may give
          MaxGeneration    \* bound of the model on generations and epochs that are counted up

\* A command line: its name and the arguments it has, 0 or Nil for the ones that
\* take their default.
CommandNames ==
    {"policy-install", "attest", "oversubscribe", "epoch-bump", "grant-propose",
     "grant-evaluate", "grant-reserve", "grant-activate", "grant-degrade",
     "grant-withdraw", "grant-retire", "grant-cancel", "grant-ack", "grant-verify",
     "grant-reconcile", "site-register", "site-state", "path-register", "path-state",
     "tick"}

\* The fields of a policy that policy-install has an option for.
PolicyOptions ==
    {"protected_floor_units", "protected_floor_bps", "min_free_units", "min_free_bps",
     "max_oversubscription_bps", "max_lease_duration_ms", "max_grants_per_path",
     "max_grants_per_site", "max_srd_concentration_bps", "allow_degraded_activation",
     "require_verification_for_active", "auto_reconcile_on_restart"}

GrantOperations ==
    {"grant-evaluate", "grant-reserve", "grant-activate", "grant-degrade", "grant-withdraw",
     "grant-retire", "grant-cancel", "grant-ack"}

\* What the parser of the command line ensures of the arguments of a command.
Parsed(c) ==
    /\ c.name \in CommandNames
    /\ c.name = "policy-install" =>
            /\ c.generation \in Nat
            /\ DOMAIN c.set \subseteq PolicyOptions
            /\ \A f \in DOMAIN c.set : [InitPolicy EXCEPT ![f] = c.set[f]] \in Policy
    /\ c.name = "attest" => c.path \in Paths /\ c.usable \in Amount /\ c.generation \in Nat
    /\ c.name = "oversubscribe" =>
            c.path \in Paths /\ c.ratio_bps \in Nat /\ c.not_after_ms \in Nat
    /\ c.name = "epoch-bump" => c.epoch \in Nat
    /\ c.name = "grant-propose" =>
            /\ c.site \in Sites /\ c.path \in Paths /\ c.class \in GrantClass
            /\ c.amount \in Amount /\ c.duration \in Nat
            /\ c.incarnation \in Incarnations \cup {Nil} /\ c.request \in Requests \cup {Nil}
    /\ c.name \in GrantOperations =>
            /\ c.grant \in Requests
            /\ c.actor \in Sites \cup {Nil} /\ c.incarnation \in Incarnations \cup {Nil}
    /\ c.name = "grant-verify" => c.grant \in Requests /\ c.result \in VerificationState
    /\ c.name = "grant-reconcile" => c.grant \in Requests /\ c.target \in GrantState
    /\ c.name = "site-register" =>
            c.site \in Sites /\ c.incarnation \in Incarnations \cup {Nil}
    /\ c.name = "site-state" => c.site \in Sites /\ c.state \in SiteState
    /\ c.name = "path-register" =>
            /\ c.path \in Paths /\ c.a \in Sites /\ c.b \in Sites /\ c.domain \in Domains
            /\ c.generation \in Nat /\ c.state \in PathState
    /\ c.name = "path-state" => c.path \in Paths /\ c.state \in PathState

ASSUME OperatorAssumption ==
    /\ MaxGeneration \in Nat
    /\ \A c \in Commands : Parsed(c)
    /\ Nil \notin Commands /\ Nil \notin Policy

VARIABLES command,        \* of each operator: the command that runs, or Nil
          known_epoch,    \* hello().epoch
          now,            \* read once, after connecting
          seen,           \* the record of its path or site that the command read
          seen_policy     \* status().policy

ovars == <<command, known_epoch, now, seen, seen_policy>>
allVars == <<vars, ovars>>

OperatorInit ==
    /\ command = [o \in Operators |-> Nil]
    /\ known_epoch = [o \in Operators |-> 0]
    /\ now = [o \in Operators |-> 0]
    /\ seen = [o \in Operators |-> Nil]
    /\ seen_policy = [o \in Operators |-> Nil]

Runs(o, name) == command[o] # Nil /\ command[o].name = name

\* The process ends; nothing it knew outlives it.
Exit(o) ==
    /\ command' = [command EXCEPT ![o] = Nil]
    /\ known_epoch' = [known_epoch EXCEPT ![o] = 0]
    /\ now' = [now EXCEPT ![o] = 0]
    /\ seen' = [seen EXCEPT ![o] = Nil]
    /\ seen_policy' = [seen_policy EXCEPT ![o] = Nil]

------------------------------------------------------------------------------
(* Connecting and reading *)

connect(o, c) ==
    /\ command[o] = Nil
    /\ command' = [command EXCEPT ![o] = c]
    /\ known_epoch' = [known_epoch EXCEPT ![o] = epoch]
    /\ \E t \in Times : now' = [now EXCEPT ![o] = t]
    /\ UNCHANGED <<vars, seen, seen_policy>>

\* An unknown path or site ends the command (fails).
list_paths(o) ==
    /\ Runs(o, "attest") \/ Runs(o, "oversubscribe")
    /\ seen[o] = Nil
    /\ paths[command[o].path] # Nil
    /\ seen' = [seen EXCEPT ![o] = paths[command[o].path]]
    /\ UNCHANGED <<vars, command, known_epoch, now, seen_policy>>

list_sites(o) ==
    /\ Runs(o, "grant-propose")
    /\ seen[o] = Nil
    /\ sites[command[o].site] # Nil
    /\ seen' = [seen EXCEPT ![o] = sites[command[o].site]]
    /\ UNCHANGED <<vars, command, known_epoch, now, seen_policy>>

\* oversubscribe asks for the status after it has the path.
status(o) ==
    /\ \/ Runs(o, "policy-install")
       \/ Runs(o, "oversubscribe") /\ seen[o] # Nil
    /\ seen_policy[o] = Nil
    /\ seen_policy' = [seen_policy EXCEPT ![o] = policy]
    /\ UNCHANGED <<vars, command, known_epoch, now, seen>>

------------------------------------------------------------------------------
(* The calls *)

\* The number given on the command line, or the next one after the one read.
following(given, read) == IF given = 0 THEN read + 1 ELSE given

\* The document starts from the defaults of the runtime.
NewPolicy_FromDefaults(c, read) ==
    [f \in DOMAIN read |->
        IF f \in DOMAIN c.set THEN c.set[f]
        ELSE IF f = "generation" THEN following(c.generation, read.generation)
        ELSE InitPolicy[f]]

\* The policy that was read with the given fields replaced.
NewPolicy(c, read) ==
    [f \in DOMAIN read |->
        IF f \in DOMAIN c.set THEN c.set[f]
        ELSE IF f = "generation" THEN following(c.generation, read.generation)
        ELSE IF f = "allow_partition_optimistic_recovery" THEN FALSE
        ELSE read[f]]

policy_install(o) ==
    /\ Runs(o, "policy-install") /\ seen_policy[o] # Nil
    /\ LET pol == NewPolicy(command[o], seen_policy[o])
       IN  pol.generation <= MaxGeneration /\ install_policy(pol)
    /\ Exit(o)

attest(o) ==
    LET c == command[o] IN
    /\ Runs(o, "attest") /\ seen[o] # Nil
    /\ following(c.generation, seen[o].capacity_generation) <= MaxGeneration
    /\ \E id \in AttestationIds :
            attest_capacity(id, c.path, known_epoch[o], seen[o].generation,
                            following(c.generation, seen[o].capacity_generation),
                            c.usable, now[o])
    /\ Exit(o)

oversubscribe(o) ==
    LET c == command[o] IN
    /\ Runs(o, "oversubscribe") /\ seen[o] # Nil /\ seen_policy[o] # Nil
    /\ \E id \in OversubIds :
            issue_oversubscription(id,
                [path |-> c.path, path_generation |-> seen[o].generation,
                 capacity_generation |-> seen[o].capacity_generation,
                 policy_generation |-> seen_policy[o].generation, epoch |-> known_epoch[o],
                 ratio_bps |-> c.ratio_bps, not_after_ms |-> c.not_after_ms])
    /\ Exit(o)

epoch_bump(o) ==
    /\ Runs(o, "epoch-bump")
    /\ following(command[o].epoch, known_epoch[o]) <= MaxGeneration
    /\ bump_epoch(following(command[o].epoch, known_epoch[o]))
    /\ Exit(o)

\* Without --request the request is a new one, however often the operator asks.
grant_propose(o) ==
    LET c == command[o] IN
    /\ Runs(o, "grant-propose") /\ seen[o] # Nil
    /\ \E g \in Requests :
            /\ c.request \in {Nil, g}
            /\ propose_grant(g, c.site,
                             IF c.incarnation = Nil THEN seen[o].incarnation ELSE c.incarnation,
                             seen[o].generation, c.path, c.class, c.amount, c.duration, Nil,
                             now[o])
    /\ Exit(o)

\* The epoch is left open.
Operation_AnyEpoch(o) ==
    [actor |-> command[o].actor, actor_incarnation |-> command[o].incarnation, lease |-> Nil,
     epoch |-> 0, path_generation |-> 0, capacity_generation |-> 0,
     policy_generation |-> 0, now_ms |-> now[o], reconcile |-> FALSE]

\* The GrantOperation of a command: the epoch of its connection, and the site
\* and incarnation if they are given.  The reason matters only for ambiguous
\* grants, which a restart makes (module Daemon) and none are here.
Operation(o) ==
    [actor |-> command[o].actor, actor_incarnation |-> command[o].incarnation, lease |-> Nil,
     epoch |-> known_epoch[o], path_generation |-> 0, capacity_generation |-> 0,
     policy_generation |-> 0, now_ms |-> now[o], reconcile |-> FALSE]

grant_operation(o) ==
    LET g == command[o].grant IN
    /\ \/ Runs(o, "grant-evaluate") /\ evaluate_grant(g, Operation(o))
       \/ Runs(o, "grant-reserve")  /\ reserve_grant(g, Operation(o))
       \/ Runs(o, "grant-activate") /\ activate_grant(g, Operation(o))
       \/ Runs(o, "grant-degrade")  /\ degrade_grant(g, Operation(o))
       \/ Runs(o, "grant-withdraw") /\ withdraw_grant(g, Operation(o))
       \/ Runs(o, "grant-retire")   /\ retire_grant(g, Operation(o))
       \/ Runs(o, "grant-cancel")   /\ cancel_grant(g, Operation(o))
    /\ Exit(o)

grant_ack(o) ==
    /\ Runs(o, "grant-ack")
    /\ acknowledge_grant(command[o].grant, [Operation(o) EXCEPT !.actor = Nil,
                                                                !.actor_incarnation = Nil])
    /\ Exit(o)

grant_verify(o) ==
    /\ Runs(o, "grant-verify")
    /\ \E id \in VerificationIds : verify_grant(command[o].grant, id, command[o].result)
    /\ Exit(o)

\* The epoch of the connection is sent, and ignored.
grant_reconcile(o) ==
    /\ Runs(o, "grant-reconcile")
    /\ reconcile_grant(command[o].grant, command[o].target)
    /\ Exit(o)

\* Without --incarnation the site is taken over under a new identity.
site_register(o) ==
    /\ Runs(o, "site-register")
    /\ \E inc \in Incarnations :
            /\ command[o].incarnation \in {Nil, inc}
            /\ register_site(command[o].site, inc, known_epoch[o], now[o])
    /\ Exit(o)

site_state(o) ==
    /\ Runs(o, "site-state")
    /\ set_site_state(command[o].site, command[o].state)
    /\ Exit(o)

path_register(o) ==
    LET c == command[o] IN
    /\ Runs(o, "path-register")
    /\ \/ register_new_path(c.path, c.a, c.b, c.domain, c.state)
       \/ reregister_path(c.path, c.a, c.b, c.domain, c.generation, c.state, now[o])
    /\ Exit(o)

path_state(o) ==
    /\ Runs(o, "path-state")
    /\ set_path_state(command[o].path, command[o].state, now[o])
    /\ Exit(o)

tick_now(o) ==
    /\ Runs(o, "tick")
    /\ tick(now[o])
    /\ Exit(o)

\* A call is refused or lost, there is nothing to act on, or the process is killed.
fails(o) ==
    /\ command[o] # Nil
    /\ Exit(o)
    /\ UNCHANGED vars

Call(o) ==
    \/ policy_install(o)
    \/ attest(o)
    \/ oversubscribe(o)
    \/ epoch_bump(o)
    \/ grant_propose(o)
    \/ grant_operation(o)
    \/ grant_ack(o)
    \/ grant_verify(o)
    \/ grant_reconcile(o)
    \/ site_register(o)
    \/ site_state(o)
    \/ path_register(o)
    \/ path_state(o)
    \/ tick_now(o)

OperatorNext ==
    \E o \in Operators :
        \/ \E c \in Commands : connect(o, c)
        \/ list_paths(o)
        \/ list_sites(o)
        \/ status(o)
        \/ Call(o)
        \/ fails(o)

------------------------------------------------------------------------------
(* Properties *)

\* The command of operator o takes effect in this step.
TakesEffect(o, name) == Runs(o, name) /\ command'[o] = Nil /\ vars' # vars

\* Two operators that change different fields of the policy at the same time do
\* not undo each other's change: a policy with a generation that was counted up
\* differs from the one it replaces only in the fields on its command line, and in
\* the one that policy-install always resets.
NoLostPolicyUpdate ==
    [][\A o \in Operators :
          TakesEffect(o, "policy-install") /\ command[o].generation = 0
          => \A f \in DOMAIN policy \ (DOMAIN command[o].set \cup {"generation"}) :
                policy'[f] = IF f = "allow_partition_optimistic_recovery" THEN FALSE
                             ELSE policy[f]]_allVars

\* A command that read before it called acted on what is still true: the capacity
\* it replaced is the one it saw, the epoch it ended is the one it connected to,
\* the run of the site it spoke for is the current one, and the oversubscription
\* it issued, put together from two separate reads, is in force.  A command that
\* connected in an earlier epoch authorises no grant; reconciliation, which ignores
\* the epoch, is the exception.
ActsOnWhatItRead ==
    [][\A o \in Operators :
          LET c == command[o] IN
          /\ TakesEffect(o, "attest") /\ c.generation = 0 =>
                /\ seen[o].generation = paths[c.path].generation
                /\ seen[o].authoritative_usable = paths[c.path].authoritative_usable
          /\ TakesEffect(o, "epoch-bump") /\ c.epoch = 0 => known_epoch[o] = epoch
          /\ TakesEffect(o, "grant-propose") /\ c.incarnation = Nil =>
                seen[o].incarnation = sites[c.site].incarnation
          /\ \A p \in Paths : TakesEffect(o, "oversubscribe") /\ c.path = p =>
                live_oversubscription_bps(p, paths[p], policy, 0)' > kScale
          /\ /\ c # Nil /\ command'[o] = Nil /\ ~ Runs(o, "grant-reconcile")
             /\ known_epoch[o] # epoch
             => \A g \in Entries(grants) :
                    authorised(grants'[g].state) => authorised(grants[g].state)]_allVars
===============================================================================
