--------------------------- MODULE AuthorityProofs ---------------------------
(***************************************************************************)
(* Proofs about the authority, for every number of sites, paths and grants *)
(* and every set of inputs.                                                *)
(***************************************************************************)
EXTENDS Authority, FiniteSetTheorems, TLAPS

------------------------------------------------------------------------------
(* Records *)

\* A grant record stays one when its state and verification change.
LEMMA GrantStateType ==
    ASSUME NEW r \in GrantRecord, NEW st \in GrantState, NEW v \in VerificationState
    PROVE  /\ [r EXCEPT !.state = st] \in GrantRecord
           /\ [r EXCEPT !.state = st, !.verification = v] \in GrantRecord
           /\ [r EXCEPT !.state = st, !.verification = v, !.ambiguous = FALSE] \in GrantRecord
           /\ [r EXCEPT !.verification = v] \in GrantRecord
           /\ [r EXCEPT !.acknowledged = TRUE] \in GrantRecord
BY DEF GrantRecord

\* append_downgrades yields a grant record.
LEMMA DowngradedType ==
    ASSUME NEW r \in GrantRecord PROVE Downgraded(r) \in GrantRecord
BY DEF Downgraded, GrantRecord, GrantState

\* rebalance_path withdraws only authorised grants of its path.
LEMMA ShedAuthorised ==
    ASSUME NEW p, NEW rec, NEW pol, NEW now_ms, NEW g \in Shed(p, rec, pol, now_ms)
    PROVE  /\ g \in Entries(grants)
           /\ grants[g].path = p
           /\ authorised(grants[g].state)
BY DEF Shed, GrantsOn

\* What rebalance_path does to a grant: it is withdrawn, or bound to what moved
\* on, or left alone because it is not authorised.
LEMMA RebalancedCases ==
    ASSUME NEW g, NEW p, NEW rec, NEW pol, NEW now_ms, NEW rebound,
           NEW r, r = Rebalanced(g, p, rec, pol, now_ms, rebound)
    PROVE  \/ authorised(grants[g].state) /\ r = [grants[g] EXCEPT !.state = "Withdrawing"]
           \/ authorised(grants[g].state) /\ r = rebound
           \/ ~authorised(grants[g].state) /\ r = grants[g]
BY ShedAuthorised DEF Rebalanced, authorised

\* Binding a grant to another policy generation yields a grant record.
LEMMA PolicyBoundType ==
    ASSUME NEW r \in GrantRecord, NEW pol \in Policy
    PROVE  [r EXCEPT !.policy_generation = pol.generation] \in GrantRecord
BY DEF GrantRecord, Policy

\* Binding a grant to another record of its path yields a grant record.
LEMMA PathBoundType ==
    ASSUME NEW r \in GrantRecord, NEW rec \in PathRecord
    PROVE  PathBound(r, rec) \in GrantRecord
BY DEF PathBound, GrantRecord, PathRecord

\* Binding a grant to what is current yields a grant record.
LEMMA ReboundType ==
    ASSUME TypeOK, NEW r \in GrantRecord, sites[r.holder] # Nil, paths[r.path] # Nil
    PROVE  Rebound(r) \in GrantRecord
<1>1. r.holder \in Sites /\ r.path \in Paths
    BY DEF GrantRecord
<1>2. sites[r.holder] \in SiteRecord /\ paths[r.path] \in PathRecord
    BY <1>1 DEF TypeOK
<1> QED
    BY <1>2 DEF Rebound, GrantRecord, SiteRecord, PathRecord, TypeOK, Policy

------------------------------------------------------------------------------
(* The requests of module Authority with any arguments of the right types.    *)
(* The inputs of Request are among them, and so is whatever a client sends    *)
(* that takes its arguments from what it read (modules Agent and Operator).   *)

AnyConfig ==
    \/ \E pol \in Policy : install_policy(pol)
    \/ \E e \in Nat : bump_epoch(e)

AnySite ==
    \E s \in Sites :
        \/ \E inc \in Incarnations, e \in Nat, now_ms \in Nat :
                register_site(s, inc, e, now_ms)
        \/ \E inc \in Incarnations, e \in Nat, gen \in Nat, now_ms \in Nat :
                heartbeat(s, inc, e, gen, now_ms)
        \/ \E state \in SiteState : set_site_state(s, state)

AnyPath ==
    \E p \in Paths :
        \/ \E a, b \in Sites, d \in Domains, state \in PathState :
                register_new_path(p, a, b, d, state)
        \/ \E a, b \in Sites, d \in Domains, gen \in Nat, state \in PathState, now_ms \in Nat :
                reregister_path(p, a, b, d, gen, state, now_ms)
        \/ \E state \in PathState, now_ms \in Nat : set_path_state(p, state, now_ms)
        \/ \E id \in AttestationIds, e \in Nat, pathGen \in Nat, capGen \in Nat,
              usable \in Amount, now_ms \in Nat :
                attest_capacity(id, p, e, pathGen, capGen, usable, now_ms)

AnyOversubscription ==
    \E id \in OversubIds, a \in OversubscriptionAuthority : issue_oversubscription(id, a)

AnyGrant ==
    \E g \in Requests :
        \/ \E s \in Sites, inc \in Incarnations, gen \in Nat, p \in Paths,
              class \in GrantClass, amount \in Amount, duration \in Nat,
              lease \in Leases \cup {Nil}, now_ms \in Nat :
                propose_grant(g, s, inc, gen, p, class, amount, duration, lease, now_ms)
        \/ \E op \in GrantOperation :
            \/ evaluate_grant(g, op)
            \/ reserve_grant(g, op)
            \/ activate_grant(g, op)
            \/ degrade_grant(g, op)
            \/ withdraw_grant(g, op)
            \/ retire_grant(g, op)
            \/ cancel_grant(g, op)
        \/ \E ack \in GrantOperation : acknowledge_grant(g, ack)
        \/ \E id \in VerificationIds, result \in VerificationState : verify_grant(g, id, result)
        \/ \E target \in GrantState : reconcile_grant(g, target)

AnyRequest ==
    \/ AnyConfig
    \/ AnySite
    \/ AnyPath
    \/ AnyOversubscription
    \/ AnyGrant
    \/ \E now_ms \in Nat : tick(now_ms)

\* The inputs of the model have the right types.
LEMMA InputsAny ==
    /\ ConfigNext => AnyConfig
    /\ SiteNext => AnySite
    /\ PathNext => AnyPath
    /\ OversubscriptionNext => AnyOversubscription
    /\ GrantNext => AnyGrant
<1> USE InputAssumption
<1>1. ConfigNext => AnyConfig
    BY DEF ConfigNext, AnyConfig
<1>2. SiteNext => AnySite
    BY DEF SiteNext, AnySite
<1>3. PathNext => AnyPath
    BY DEF PathNext, AnyPath
<1>4. OversubscriptionNext => AnyOversubscription
    <2>1. ASSUME NEW p \in Paths, NEW pathGen \in PathGenerations,
                 NEW capGen \in CapacityGenerations, NEW pol \in Policies \cup {InitPolicy},
                 NEW e \in Epochs, NEW ratio \in Ratios, NEW not_after \in NotAfters
          PROVE  [path |-> p, path_generation |-> pathGen, capacity_generation |-> capGen,
                  policy_generation |-> pol.generation, epoch |-> e, ratio_bps |-> ratio,
                  not_after_ms |-> not_after] \in OversubscriptionAuthority
        BY DEF OversubscriptionAuthority, Policy
    <2> QED
        BY <2>1 DEF OversubscriptionNext, AnyOversubscription
<1>5. GrantNext => AnyGrant
    BY DEF GrantNext, AnyGrant
<1> QED
    BY <1>1, <1>2, <1>3, <1>4, <1>5

\* So every request of the model is one of these.
LEMMA RequestIsAny == Request => AnyRequest
<1>1. (\E now_ms \in Times : tick(now_ms)) => \E now_ms \in Nat : tick(now_ms)
    BY InputAssumption
<1> QED
    BY <1>1, InputsAny DEF Request, AnyRequest

------------------------------------------------------------------------------
(* Type correctness *)

\* Empty tables, the first epoch and a configured policy have their types.
LEMMA InitType == Init => TypeOK
BY InputAssumption DEF Init, TypeOK

\* plan_install_policy and plan_bump_epoch keep the types of the tables.
LEMMA ConfigType ==
    ASSUME TypeOK, AnyConfig PROVE TypeOK'
<1>1. ASSUME NEW pol \in Policy, install_policy(pol) PROVE TypeOK'
    <2>1. pol \in Policy
        BY InputAssumption
    <2>2. grants' \in [Requests -> GrantRecord \cup {Nil}]
        <3>1. ASSUME NEW g \in Entries(grants), NEW p
              PROVE  Rebalanced(g, p, paths[p], pol, 0,
                                [grants[g] EXCEPT !.policy_generation = pol.generation])
                        \in GrantRecord
            <4>1. g \in Requests /\ grants[g] \in GrantRecord
                BY DEF TypeOK, Entries
            <4>2. [grants[g] EXCEPT !.policy_generation = pol.generation] \in GrantRecord
                BY <4>1, <2>1, PolicyBoundType
            <4>3. [grants[g] EXCEPT !.state = "Withdrawing"] \in GrantRecord
                BY <4>1, GrantStateType DEF GrantState, VerificationState
            <4> QED
                BY <4>1, <4>2, <4>3, RebalancedCases
        <3> QED
            BY <1>1, <3>1 DEF install_policy, Updated, TypeOK
    <2> QED
        BY <1>1, <2>1, <2>2 DEF install_policy, TypeOK
<1>2. ASSUME NEW e \in Nat, bump_epoch(e) PROVE TypeOK'
    <2>1. grants' \in [Requests -> GrantRecord \cup {Nil}]
        <3>1. ASSUME NEW g \in Entries(grants)
              PROVE  [grants[g] EXCEPT !.state = "Withdrawing"] \in GrantRecord
            BY GrantStateType DEF TypeOK, Entries, GrantState, VerificationState
        <3> QED
            BY <1>2, <3>1 DEF bump_epoch, Updated, TypeOK
    <2> QED
        BY <1>2, <2>1, InputAssumption DEF bump_epoch, TypeOK
<1> QED
    BY <1>1, <1>2 DEF AnyConfig

\* Registration, heartbeats and operator states of sites keep the types.
LEMMA SiteType ==
    ASSUME TypeOK, AnySite PROVE TypeOK'
<1> PICK s \in Sites :
        \/ \E inc \in Incarnations, e \in Nat, now_ms \in Nat :
                register_site(s, inc, e, now_ms)
        \/ \E inc \in Incarnations, e \in Nat, gen \in Nat, now_ms \in Nat :
                heartbeat(s, inc, e, gen, now_ms)
        \/ \E state \in SiteState : set_site_state(s, state)
    BY DEF AnySite
<1> USE InputAssumption
<1>1. ASSUME NEW inc \in Incarnations, NEW e \in Nat, NEW now_ms \in Nat,
             register_new_site(s, inc, e, now_ms)
      PROVE  TypeOK'
    <2>1. [incarnation |-> inc, generation |-> 1, state |-> "Up",
           last_heartbeat_ms |-> now_ms] \in SiteRecord
        BY DEF SiteRecord, SiteState
    <2> QED
        BY <1>1, <2>1 DEF register_new_site, TypeOK
<1>2. ASSUME NEW inc \in Incarnations, NEW e \in Nat, NEW now_ms \in Nat,
             register_same_incarnation(s, inc, e, now_ms)
      PROVE  TypeOK'
    <2>1. sites[s] \in SiteRecord
        BY <1>2 DEF register_same_incarnation, TypeOK
    <2>2. ASSUME NEW st \in SiteState
          PROVE  [sites[s] EXCEPT !.last_heartbeat_ms = now_ms, !.state = st] \in SiteRecord
        BY <2>1 DEF SiteRecord
    <2>3. (IF sites[s].state = "Unknown" THEN "Up" ELSE sites[s].state) \in SiteState
        BY <2>1 DEF SiteRecord, SiteState
    <2>4. sites' \in [Sites -> SiteRecord \cup {Nil}]
        BY <1>2, <2>1, <2>3 DEF register_same_incarnation, TypeOK, SiteRecord
    <2> QED
        BY <1>2, <2>4 DEF register_same_incarnation, TypeOK
<1>3. ASSUME NEW inc \in Incarnations, NEW e \in Nat, NEW now_ms \in Nat,
             register_new_incarnation(s, inc, e, now_ms)
      PROVE  TypeOK'
    <2>1. sites[s] \in SiteRecord
        BY <1>3 DEF register_new_incarnation, TypeOK
    <2>2. sites' \in [Sites -> SiteRecord \cup {Nil}]
        BY <1>3, <2>1 DEF register_new_incarnation, TypeOK, SiteRecord, SiteState
    <2>3. ASSUME NEW g \in Entries(grants)
          PROVE  [grants[g] EXCEPT !.state = "Withdrawing", !.verification = "Unverified"]
                    \in GrantRecord
        BY GrantStateType DEF TypeOK, Entries, GrantState, VerificationState
    <2>4. grants' \in [Requests -> GrantRecord \cup {Nil}]
        BY <1>3, <2>3 DEF register_new_incarnation, Updated, GrantsOf, TypeOK
    <2> QED
        BY <1>3, <2>2, <2>4 DEF register_new_incarnation, TypeOK
<1>4. ASSUME NEW inc \in Incarnations, NEW e \in Nat, NEW gen \in Nat,
             NEW now_ms \in Nat, heartbeat(s, inc, e, gen, now_ms)
      PROVE  TypeOK'
    <2>1. sites[s] \in SiteRecord
        BY <1>4 DEF heartbeat, TypeOK
    <2>2. (IF sites[s].state \in {"Up", "Degraded", "Unknown"} THEN "Up" ELSE sites[s].state)
            \in SiteState
        BY <2>1 DEF SiteRecord, SiteState
    <2>3. sites' \in [Sites -> SiteRecord \cup {Nil}]
        BY <1>4, <2>1, <2>2 DEF heartbeat, TypeOK, SiteRecord
    <2> QED
        BY <1>4, <2>3 DEF heartbeat, TypeOK
<1>5. ASSUME NEW state \in SiteState, set_site_state(s, state)
      PROVE  TypeOK'
    <2>1. sites[s] \in SiteRecord
        BY <1>5 DEF set_site_state, TypeOK
    <2>2. sites' \in [Sites -> SiteRecord \cup {Nil}]
        BY <1>5, <2>1 DEF set_site_state, TypeOK, SiteRecord
    <2>3. ASSUME NEW g \in Entries(grants)
          PROVE  Downgraded(grants[g]) \in GrantRecord
        BY DowngradedType DEF TypeOK, Entries
    <2>4. grants' \in [Requests -> GrantRecord \cup {Nil}]
        BY <1>5, <2>3 DEF set_site_state, Updated, GrantsOf, TypeOK
    <2> QED
        BY <1>5, <2>2, <2>4 DEF set_site_state, TypeOK
<1> QED
    BY <1>1, <1>2, <1>3, <1>4, <1>5 DEF register_site

\* Registration, state changes and attestation of paths keep the types.
LEMMA PathType ==
    ASSUME TypeOK, AnyPath PROVE TypeOK'
<1> PICK p \in Paths :
        \/ \E a, b \in Sites, d \in Domains, state \in PathState :
                register_new_path(p, a, b, d, state)
        \/ \E a, b \in Sites, d \in Domains, gen \in Nat,
              state \in PathState, now_ms \in Nat :
                reregister_path(p, a, b, d, gen, state, now_ms)
        \/ \E state \in PathState, now_ms \in Nat :
                set_path_state(p, state, now_ms)
        \/ \E id \in AttestationIds, e \in Nat, pathGen \in Nat,
              capGen \in Nat, usable \in Amount, now_ms \in Nat :
                attest_capacity(id, p, e, pathGen, capGen, usable, now_ms)
    BY DEF AnyPath
<1> USE InputAssumption
<1>0. ASSUME NEW rec \in PathRecord, NEW now_ms,
             grants' = [g \in Requests |->
                            IF g \in GrantsAt(p)
                            THEN Rebalanced(g, p, rec, policy, now_ms, PathBound(grants[g], rec))
                            ELSE grants[g]]
      PROVE  grants' \in [Requests -> GrantRecord \cup {Nil}]
    <2>1. ASSUME NEW g \in GrantsAt(p)
          PROVE  Rebalanced(g, p, rec, policy, now_ms, PathBound(grants[g], rec))
                    \in GrantRecord
        <3>1. grants[g] \in GrantRecord
            BY DEF TypeOK, GrantsAt, Entries
        <3>2. PathBound(grants[g], rec) \in GrantRecord
            BY <3>1, PathBoundType
        <3>3. [grants[g] EXCEPT !.state = "Withdrawing"] \in GrantRecord
            BY <3>1, GrantStateType DEF GrantState, VerificationState
        <3> QED
            BY <3>1, <3>2, <3>3, RebalancedCases
    <2> QED
        BY <1>0, <2>1 DEF TypeOK
<1>1. ASSUME NEW a \in Sites, NEW b \in Sites, NEW d \in Domains, NEW state \in PathState,
             register_new_path(p, a, b, d, state)
      PROVE  TypeOK'
    <2>1. paths' \in [Paths -> PathRecord \cup {Nil}]
        BY <1>1 DEF register_new_path, TypeOK, PathRecord
    <2> QED
        BY <1>1, <2>1 DEF register_new_path, TypeOK
<1>2. ASSUME NEW a \in Sites, NEW b \in Sites, NEW d \in Domains, NEW gen \in Nat,
             NEW state \in PathState, NEW now_ms \in Nat,
             reregister_path(p, a, b, d, gen, state, now_ms)
      PROVE  TypeOK'
    <2> DEFINE rec == [paths[p] EXCEPT !.shared_risk_domain = d, !.endpoint_a = a,
                                       !.endpoint_b = b, !.generation = gen,
                                       !.state = state]
    <2>1. rec \in PathRecord
        BY <1>2 DEF reregister_path, TypeOK, PathRecord
    <2>2. paths' = [paths EXCEPT ![p] = rec] /\ domains' = domains \cup {d}
        BY <1>2 DEF reregister_path
    <2>3. grants' \in [Requests -> GrantRecord \cup {Nil}]
        BY <1>0, <1>2, <2>1 DEF reregister_path, Updated
    <2> HIDE DEF rec
    <2> QED
        BY <1>2, <2>1, <2>2, <2>3 DEF reregister_path, TypeOK
<1>3. ASSUME NEW state \in PathState, NEW now_ms \in Nat,
             set_path_state(p, state, now_ms)
      PROVE  TypeOK'
    <2>1. paths[p] \in PathRecord
        BY <1>3 DEF set_path_state, TypeOK
    <2>2. paths' \in [Paths -> PathRecord \cup {Nil}]
        BY <1>3, <2>1 DEF set_path_state, TypeOK, PathRecord
    <2>3. ASSUME NEW g \in GrantsAt(p)
          PROVE  /\ Downgraded(grants[g]) \in GrantRecord
                 /\ [grants[g] EXCEPT !.state = "Withdrawing"] \in GrantRecord
        BY DowngradedType, GrantStateType DEF TypeOK, GrantsAt, Entries, GrantState, VerificationState
    <2>4. grants' \in [Requests -> GrantRecord \cup {Nil}]
        BY <1>3, <2>3 DEF set_path_state, Updated, TypeOK
    <2> QED
        BY <1>3, <2>2, <2>4 DEF set_path_state, TypeOK
<1>4. ASSUME NEW id \in AttestationIds, NEW e \in Nat, NEW pathGen \in Nat,
             NEW capGen \in Nat, NEW usable \in Amount, NEW now_ms \in Nat,
             attest_capacity(id, p, e, pathGen, capGen, usable, now_ms)
      PROVE  TypeOK'
    <2>1. Attested(paths[p], capGen, usable) \in PathRecord
        <3>1. paths[p] \in PathRecord /\ usable \in Nat
            BY <1>4 DEF attest_capacity, TypeOK, Amount
        <3> QED
            BY <3>1 DEF Attested, min_amount, PathRecord
    <2>2. paths' \in [Paths -> PathRecord \cup {Nil}]
        BY <1>4, <2>1 DEF attest_capacity, TypeOK
    <2>3. grants' \in [Requests -> GrantRecord \cup {Nil}]
        BY <1>0, <1>4, <2>1 DEF attest_capacity, Updated
    <2> QED
        BY <1>4, <2>2, <2>3 DEF attest_capacity, TypeOK
<1> QED
    BY <1>1, <1>2, <1>3, <1>4

\* plan_issue_oversubscription keeps the types.
LEMMA OversubscriptionType ==
    ASSUME TypeOK, AnyOversubscription PROVE TypeOK'
<1> PICK id \in OversubIds, a \in OversubscriptionAuthority : issue_oversubscription(id, a)
    BY DEF AnyOversubscription
<1>1. /\ oversubscriptions' = [oversubscriptions EXCEPT ![id] = a]
      /\ UNCHANGED <<epoch, policy, sites, paths, domains, attestations, grants,
                     verifications>>
    BY DEF issue_oversubscription
<1> QED
    BY <1>1 DEF TypeOK

\* Replacing the record of one grant keeps the type.
LEMMA SetGrantType ==
    ASSUME TypeOK, NEW g \in Requests, NEW r \in GrantRecord, SetGrant(g, r)
    PROVE  TypeOK'
BY DEF SetGrant, TypeOK

\* The record plan_propose_grant builds is a grant record.
LEMMA ProposeType ==
    ASSUME TypeOK, NEW g \in Requests, NEW s \in Sites, NEW inc \in Incarnations,
           NEW gen \in Nat, NEW p \in Paths, NEW class \in GrantClass,
           NEW amount \in Amount, NEW duration \in Nat,
           NEW lease \in Leases \cup {Nil}, NEW now_ms \in Nat,
           propose_grant(g, s, inc, gen, p, class, amount, duration, lease, now_ms)
    PROVE  /\ TypeOK'
           /\ \E r \in GrantRecord : r.state = "Proposed" /\ grants' = [grants EXCEPT ![g] = r]
<1>1. Cardinality(Entries(grants)) \in Nat
    <2>1. Entries(grants) \subseteq Requests
        BY DEF Entries, TypeOK
    <2> QED
        BY <2>1, InputAssumption, FS_Subset, FS_CardinalityType
<1>2. paths[p] \in PathRecord
    BY DEF propose_grant, TypeOK
<1>3. LeaseFor(lease, g) \in Leases \cup Requests
    BY DEF LeaseFor
<1> DEFINE r == [holder |-> s, holder_incarnation |-> inc, path |-> p,
                 path_generation |-> paths[p].generation,
                 capacity_generation |-> paths[p].capacity_generation,
                 policy_generation |-> policy.generation, epoch |-> epoch,
                 lease |-> LeaseFor(lease, g),
                 grant_class |-> class, amount |-> amount, state |-> "Proposed",
                 expires_at_ms |-> now_ms + duration,
                 arbitration |-> Cardinality(Entries(grants)) + 1,
                 verification |-> "Unverified", acknowledged |-> FALSE,
                 ambiguous |-> FALSE]
<1>4. r \in GrantRecord
    <2>1. amount \in Nat /\ now_ms + duration \in Nat /\ class \in GrantClass
        BY InputAssumption DEF Amount
    <2>2. "Proposed" \in GrantState /\ "Unverified" \in VerificationState
        BY DEF GrantState, VerificationState
    <2>3. epoch \in Nat /\ policy.generation \in Nat
        BY DEF TypeOK, Policy
    <2>4. paths[p].generation \in Nat /\ paths[p].capacity_generation \in Nat
        BY <1>2 DEF PathRecord
    <2> QED
        BY <1>1, <1>3, <2>1, <2>2, <2>3, <2>4 DEF GrantRecord
<1>5. /\ grants' = [grants EXCEPT ![g] = r]
      /\ UNCHANGED <<epoch, policy, sites, paths, domains, attestations,
                     oversubscriptions, verifications>>
    BY DEF propose_grant
<1>6. r.state = "Proposed"
    OBVIOUS
<1> HIDE DEF r
<1>7. TypeOK'
    BY <1>4, <1>5 DEF TypeOK
<1> QED
    BY <1>4, <1>5, <1>6, <1>7

\* Every operation on one grant keeps the types.
LEMMA GrantType ==
    ASSUME TypeOK, ReferencesExist, AnyGrant PROVE TypeOK'
<1> PICK g \in Requests :
        \/ \E s \in Sites, inc \in Incarnations, gen \in Nat, p \in Paths,
              class \in GrantClass, amount \in Amount, duration \in Nat,
              lease \in Leases \cup {Nil}, now_ms \in Nat :
                propose_grant(g, s, inc, gen, p, class, amount, duration, lease, now_ms)
        \/ \E op \in GrantOperation :
            \/ evaluate_grant(g, op)
            \/ reserve_grant(g, op)
            \/ activate_grant(g, op)
            \/ degrade_grant(g, op)
            \/ withdraw_grant(g, op)
            \/ retire_grant(g, op)
            \/ cancel_grant(g, op)
        \/ \E ack \in GrantOperation : acknowledge_grant(g, ack)
        \/ \E id \in VerificationIds, result \in VerificationState : verify_grant(g, id, result)
        \/ \E target \in GrantState : reconcile_grant(g, target)
    BY DEF AnyGrant
<1> DEFINE r == grants[g]
<1>1. ASSUME r # Nil
      PROVE  /\ r \in GrantRecord
             /\ Rebound(r) \in GrantRecord
    <2>1. r \in GrantRecord
        BY <1>1 DEF TypeOK
    <2>2. sites[r.holder] # Nil /\ paths[r.path] # Nil
        BY <1>1 DEF ReferencesExist, Entries, TypeOK
    <2> QED
        BY <2>1, <2>2, ReboundType
<1>2. CASE \E s \in Sites, inc \in Incarnations, gen \in Nat, p \in Paths,
              class \in GrantClass, amount \in Amount, duration \in Nat,
              lease \in Leases \cup {Nil}, now_ms \in Nat :
                propose_grant(g, s, inc, gen, p, class, amount, duration, lease, now_ms)
    BY <1>2, ProposeType
<1> USE DEF GrantState, VerificationState
<1>3. ASSUME NEW op \in GrantOperation, evaluate_grant(g, op) PROVE TypeOK'
    <2>1. ASSUME NEW st \in {"Eligible", "Refused"}
          PROVE  [r EXCEPT !.state = st] \in GrantRecord
        BY <1>1, <1>3, GrantStateType DEF evaluate_grant
    <2> QED
        BY <1>3, <2>1, SetGrantType DEF evaluate_grant
<1>4. ASSUME NEW op \in GrantOperation, reserve_grant(g, op) PROVE TypeOK'
    <2>1. [Rebound(r) EXCEPT !.state = "Reserved"] \in GrantRecord
        BY <1>1, <1>4, GrantStateType DEF reserve_grant
    <2> QED
        BY <1>4, <2>1, SetGrantType DEF reserve_grant
<1>5. ASSUME NEW op \in GrantOperation, activate_grant(g, op) PROVE TypeOK'
    BY <1>1, <1>5, GrantStateType, SetGrantType DEF activate_grant
<1>6. ASSUME NEW op \in GrantOperation, degrade_grant(g, op) PROVE TypeOK'
    BY <1>1, <1>6, GrantStateType, SetGrantType DEF degrade_grant
<1>7. ASSUME NEW op \in GrantOperation, withdraw_grant(g, op) PROVE TypeOK'
    BY <1>1, <1>7, GrantStateType, SetGrantType DEF withdraw_grant
<1>8. ASSUME NEW op \in GrantOperation, retire_grant(g, op) PROVE TypeOK'
    BY <1>1, <1>8, GrantStateType, SetGrantType DEF retire_grant
<1>9. ASSUME NEW op \in GrantOperation, cancel_grant(g, op) PROVE TypeOK'
    BY <1>1, <1>9, GrantStateType, SetGrantType DEF cancel_grant
<1>10. ASSUME NEW ack \in GrantOperation, acknowledge_grant(g, ack) PROVE TypeOK'
    BY <1>1, <1>10, GrantStateType, SetGrantType DEF acknowledge_grant
<1>11. ASSUME NEW id \in VerificationIds, NEW result \in VerificationState,
              verify_grant(g, id, result)
       PROVE  TypeOK'
    <2>1. [r EXCEPT !.verification = result] \in GrantRecord
        BY <1>1, <1>11, GrantStateType, InputAssumption DEF verify_grant
    <2> QED
        BY <1>11, <2>1 DEF verify_grant, TypeOK
<1>12. ASSUME reconcile_active(g) PROVE TypeOK'
    <2>1. [Rebound(r) EXCEPT !.state = "Active", !.verification = "Unverified",
                             !.ambiguous = FALSE] \in GrantRecord
        BY <1>1, <1>12, GrantStateType DEF reconcile_active
    <2> QED
        BY <1>12, <2>1, SetGrantType DEF reconcile_active
<1>13. ASSUME reconcile_retired(g) PROVE TypeOK'
    BY <1>1, <1>13, GrantStateType, SetGrantType DEF reconcile_retired
<1> QED
    BY <1>2, <1>3, <1>4, <1>5, <1>6, <1>7, <1>8, <1>9, <1>10, <1>11, <1>12, <1>13
       DEF reconcile_grant

\* plan_tick keeps the types of the sites and grants it changes.
LEMMA TickType ==
    ASSUME TypeOK, NEW now_ms \in Nat, tick(now_ms) PROVE TypeOK'
<1>1. ASSUME NEW s \in Entries(sites), NEW st \in {"Down", "Degraded"}
      PROVE  [sites[s] EXCEPT !.state = st] \in SiteRecord
    BY DEF TypeOK, Entries, SiteRecord, SiteState
<1>2. sites' \in [Sites -> SiteRecord \cup {Nil}]
    BY <1>1 DEF tick, TypeOK
<1>3. ASSUME NEW g \in Entries(grants)
      PROVE  /\ [grants[g] EXCEPT !.state = "Expired"] \in GrantRecord
             /\ Downgraded(grants[g]) \in GrantRecord
    BY DowngradedType, GrantStateType DEF TypeOK, Entries, GrantState, VerificationState
<1>4. grants' \in [Requests -> GrantRecord \cup {Nil}]
    BY <1>3 DEF tick, Updated, GrantsOf, TypeOK
<1> QED
    BY <1>2, <1>4 DEF tick, TypeOK

------------------------------------------------------------------------------
(* The inductive invariant.  ReferencesExist makes the look-ups of the other  *)
(* conjuncts meaningful and keeps a site or path that is registered for the   *)
(* first time from having grants already.                                     *)

IInv ==
    /\ TypeOK
    /\ ReferencesExist
    /\ AuthorisedBindingCurrent
    /\ UnavailableWithinUsable
    /\ LostSiteIdle

\* The conjuncts beside the type.
SafetyInv ==
    /\ ReferencesExist
    /\ AuthorisedBindingCurrent
    /\ UnavailableWithinUsable
    /\ LostSiteIdle

\* What append_downgrades does to a grant: the binding stays, the state goes
\* down and capacity stays held.
LEMMA DowngradedFields ==
    ASSUME NEW r \in GrantRecord
    PROVE  /\ Downgraded(r).holder = r.holder
           /\ Downgraded(r).holder_incarnation = r.holder_incarnation
           /\ Downgraded(r).path = r.path
           /\ Downgraded(r).path_generation = r.path_generation
           /\ Downgraded(r).capacity_generation = r.capacity_generation
           /\ Downgraded(r).policy_generation = r.policy_generation
           /\ Downgraded(r).epoch = r.epoch
           /\ authorised(Downgraded(r).state) => authorised(r.state)
           /\ Downgraded(r).state \notin {"Reserved", "Active"}
           /\ holds_capacity(Downgraded(r).state) <=> holds_capacity(r.state)
           /\ \/ Downgraded(r).state = r.state
              \/ can_transition(r.state, Downgraded(r).state)
BY DEF Downgraded, GrantRecord, authorised, holds_capacity, can_transition

\* Binding a grant to what is current makes its binding current.
LEMMA ReboundFields ==
    ASSUME NEW r \in GrantRecord
    PROVE  /\ Rebound(r).holder = r.holder
           /\ Rebound(r).path = r.path
           /\ BindingCurrent(Rebound(r))
BY DEF Rebound, BindingCurrent, GrantRecord

\* With empty tables the safety part of the invariant holds.
LEMMA InitSafety == Init => SafetyInv
BY DEF Init, SafetyInv, ReferencesExist, AuthorisedBindingCurrent,
       UnavailableWithinUsable, LostSiteIdle, Entries

\* A grant's record, holder and path are in their tables.
LEMMA GrantLookup ==
    ASSUME TypeOK, ReferencesExist, NEW g \in Entries(grants)
    PROVE  /\ g \in Requests
           /\ grants[g] \in GrantRecord
           /\ grants[g].holder \in Sites /\ sites[grants[g].holder] \in SiteRecord
           /\ grants[g].path \in Paths /\ paths[grants[g].path] \in PathRecord
<1>1. g \in Requests /\ grants[g] \in GrantRecord
    BY DEF TypeOK, Entries
<1>2. grants[g].holder \in Sites /\ grants[g].path \in Paths
    BY <1>1 DEF GrantRecord
<1> QED
    BY <1>1, <1>2 DEF ReferencesExist, TypeOK

\* A new policy rebinds what it leaves authorised (rebalance_path), a new epoch
\* leaves nothing authorised: both keep the invariant.
LEMMA ConfigSafety ==
    ASSUME IInv, AnyConfig PROVE SafetyInv'
<1> USE DEF IInv
<1>1. ASSUME NEW pol \in Policy, install_policy(pol) PROVE SafetyInv'
    <2>1. pol \in Policy
        BY InputAssumption
    <2>2. ASSUME NEW g \in Entries(grants)
          PROVE  /\ grants'[g] # Nil
                 /\ grants'[g].holder = grants[g].holder
                 /\ grants'[g].holder_incarnation = grants[g].holder_incarnation
                 /\ grants'[g].path = grants[g].path
                 /\ grants'[g].epoch = grants[g].epoch
                 /\ grants'[g].state \in {grants[g].state, "Withdrawing"}
                 /\ authorised(grants'[g].state) =>
                        /\ authorised(grants[g].state)
                        /\ grants'[g].policy_generation = pol.generation
                        /\ grants'[g].path_generation = grants[g].path_generation
                        /\ grants'[g].capacity_generation = grants[g].capacity_generation
        <3> DEFINE kept == [grants[g] EXCEPT !.policy_generation = pol.generation]
        <3>1. grants[g] \in GrantRecord /\ grants[g] # Nil /\ kept # Nil
            BY <2>1, GrantLookup, PolicyBoundType, NilAssumption DEF Entries
        <3>2. [grants[g] EXCEPT !.state = "Withdrawing"] # Nil
            BY <3>1, GrantStateType, NilAssumption DEF GrantState, VerificationState
        <3>3. grants'[g] = Rebalanced(g, grants[g].path, paths[grants[g].path], pol, 0, kept)
            BY <1>1, GrantLookup DEF install_policy, Updated
        <3>4. \/ authorised(grants[g].state) /\ grants'[g] = [grants[g] EXCEPT !.state = "Withdrawing"]
              \/ authorised(grants[g].state) /\ grants'[g] = kept
              \/ ~authorised(grants[g].state) /\ grants'[g] = grants[g]
            BY <3>3, RebalancedCases
        <3> QED
            BY <3>1, <3>2, <3>4 DEF authorised, GrantRecord
    <2>3. Entries(grants)' = Entries(grants)
        BY <1>1, <2>2 DEF install_policy, Updated, Entries, TypeOK
    <2>4. ReferencesExist'
        <3>1. UNCHANGED <<sites, paths, domains>>
            BY <1>1 DEF install_policy
        <3> QED
            BY <2>2, <2>3, <3>1 DEF ReferencesExist
    <2>5. AuthorisedBindingCurrent'
        <3> SUFFICES ASSUME NEW g \in Entries(grants), authorised(grants'[g].state)
                     PROVE  BindingCurrent(grants[g])'
            BY <2>3 DEF AuthorisedBindingCurrent
        <3>1. BindingCurrent(grants[g])
            BY <2>2 DEF AuthorisedBindingCurrent
        <3> QED
            BY <1>1, <2>2, <3>1 DEF install_policy, BindingCurrent
    <2>6. UnavailableWithinUsable'
        BY <1>1 DEF install_policy, UnavailableWithinUsable
    <2>7. LostSiteIdle'
        BY <1>1, <2>2, <2>3 DEF install_policy, LostSiteIdle
    <2> QED
        BY <2>4, <2>5, <2>6, <2>7 DEF SafetyInv
<1>2. ASSUME NEW e \in Nat, bump_epoch(e) PROVE SafetyInv'
    <2>1. ASSUME NEW g \in Entries(grants)
          PROVE  /\ grants'[g] # Nil
                 /\ grants'[g].holder = grants[g].holder
                 /\ grants'[g].path = grants[g].path
                 /\ ~authorised(grants'[g].state)
        <3>1. grants'[g] = IF authorised(grants[g].state)
                           THEN [grants[g] EXCEPT !.state = "Withdrawing"] ELSE grants[g]
            BY <1>2, GrantLookup DEF bump_epoch, Updated
        <3>2. [grants[g] EXCEPT !.state = "Withdrawing"] \in GrantRecord
            BY GrantLookup, GrantStateType DEF GrantState, VerificationState
        <3>3. grants[g] \in GrantRecord
            BY GrantLookup
        <3>4. CASE authorised(grants[g].state)
            <4>1. /\ grants'[g] \in GrantRecord
                  /\ grants'[g].state = "Withdrawing"
                  /\ grants'[g].holder = grants[g].holder
                  /\ grants'[g].path = grants[g].path
                BY <3>1, <3>2, <3>3, <3>4 DEF GrantRecord
            <4>2. ~authorised(grants'[g].state)
                BY <4>1 DEF authorised
            <4> QED
                BY <4>1, <4>2, NilAssumption
        <3>5. CASE ~authorised(grants[g].state)
            BY <3>1, <3>3, <3>5, NilAssumption
        <3> QED
            BY <3>4, <3>5
    <2>2. Entries(grants)' = Entries(grants)
        BY <1>2, <2>1 DEF bump_epoch, Updated, Entries, TypeOK
    <2>3. ReferencesExist'
        <3>1. UNCHANGED <<sites, paths, domains>>
            BY <1>2 DEF bump_epoch
        <3> QED
            BY <2>1, <2>2, <3>1 DEF ReferencesExist
    <2>4. AuthorisedBindingCurrent'
        BY <2>1, <2>2 DEF AuthorisedBindingCurrent
    <2>5. UnavailableWithinUsable'
        BY <1>2 DEF bump_epoch, UnavailableWithinUsable
    <2>6. LostSiteIdle'
        BY <2>1, <2>2 DEF LostSiteIdle, authorised
    <2> QED
        BY <2>3, <2>4, <2>5, <2>6 DEF SafetyInv
<1> QED
    BY <1>1, <1>2 DEF AnyConfig

\* A step that touches only sites and grants keeps the invariant when sites stay
\* registered, grants keep their identity, nothing is authorised afresh, what
\* stays authorised keeps a holder of the same incarnation, and the grants of
\* lost sites are idle.
LEMMA SiteStepSafety ==
    ASSUME IInv,
           UNCHANGED <<epoch, policy, paths, domains>>,
           Entries(grants)' = Entries(grants),
           \A s \in Sites : sites[s] # Nil => sites'[s] # Nil,
           \A g \in Entries(grants) :
              /\ grants'[g].holder = grants[g].holder
              /\ grants'[g].path = grants[g].path
              /\ authorised(grants'[g].state) =>
                    /\ authorised(grants[g].state)
                    /\ sites'[grants[g].holder].incarnation = sites[grants[g].holder].incarnation
                    /\ grants'[g].holder_incarnation = grants[g].holder_incarnation
                    /\ grants'[g].path_generation = grants[g].path_generation
                    /\ grants'[g].capacity_generation = grants[g].capacity_generation
                    /\ grants'[g].policy_generation = grants[g].policy_generation
                    /\ grants'[g].epoch = grants[g].epoch
              /\ site_requires_degradation(sites'[grants[g].holder].state)
                    => grants'[g].state \notin {"Reserved", "Active"}
    PROVE  SafetyInv'
<1> USE DEF IInv
<1>1. ReferencesExist'
    <2>1. ASSUME NEW p \in Entries(paths)
          PROVE  /\ sites'[paths[p].endpoint_a] # Nil
                 /\ sites'[paths[p].endpoint_b] # Nil
        <3>1. paths[p].endpoint_a \in Sites /\ paths[p].endpoint_b \in Sites
            BY DEF TypeOK, Entries, PathRecord
        <3> QED
            BY <3>1 DEF ReferencesExist
    <2>2. ASSUME NEW g \in Entries(grants)
          PROVE  sites'[grants'[g].holder] # Nil /\ paths[grants'[g].path] # Nil
        <3>1. grants[g].holder \in Sites
            BY GrantLookup
        <3> QED
            BY <3>1 DEF ReferencesExist
    <2> QED
        BY <2>1, <2>2 DEF ReferencesExist
<1>2. AuthorisedBindingCurrent'
    <2> SUFFICES ASSUME NEW g \in Entries(grants), authorised(grants'[g].state)
                 PROVE  BindingCurrent(grants[g])'
        BY DEF AuthorisedBindingCurrent
    <2>1. BindingCurrent(grants[g])
        BY DEF AuthorisedBindingCurrent
    <2> QED
        BY <2>1 DEF BindingCurrent
<1>3. UnavailableWithinUsable'
    BY DEF UnavailableWithinUsable
<1>4. LostSiteIdle'
    BY DEF LostSiteIdle
<1> QED
    BY <1>1, <1>2, <1>3, <1>4 DEF SafetyInv

\* Registration, heartbeats and operator states of sites keep the invariant:
\* plan_register_site withdraws what the old incarnation held, plan_set_site_state
\* downgrades, and a heartbeat never makes a site lost.
LEMMA SiteSafety ==
    ASSUME IInv, AnySite PROVE SafetyInv'
<1> PICK s \in Sites :
        \/ \E inc \in Incarnations, e \in Nat, now_ms \in Nat :
                register_site(s, inc, e, now_ms)
        \/ \E inc \in Incarnations, e \in Nat, gen \in Nat, now_ms \in Nat :
                heartbeat(s, inc, e, gen, now_ms)
        \/ \E state \in SiteState : set_site_state(s, state)
    BY DEF AnySite
<1> USE DEF IInv
<1>1. ASSUME NEW inc \in Incarnations, NEW e \in Nat, NEW now_ms \in Nat,
             register_new_site(s, inc, e, now_ms)
      PROVE  SafetyInv'
    <2>1. sites'[s] # Nil
        BY <1>1, NilAssumption, InputAssumption DEF register_new_site, SiteRecord, SiteState, TypeOK
    <2>2. \A t \in Sites : t # s => sites'[t] = sites[t]
        BY <1>1 DEF register_new_site, TypeOK
    <2>3. ASSUME NEW g \in Entries(grants) PROVE grants[g].holder \in Sites \ {s}
        BY <1>1, GrantLookup, NilAssumption DEF register_new_site
    <2> QED
        BY <1>1, <2>1, <2>2, <2>3, SiteStepSafety
           DEF register_new_site, LostSiteIdle
<1>2. ASSUME NEW inc \in Incarnations, NEW e \in Nat, NEW now_ms \in Nat,
             register_same_incarnation(s, inc, e, now_ms)
      PROVE  SafetyInv'
    <2>1. sites[s] \in SiteRecord
        BY <1>2 DEF register_same_incarnation, TypeOK
    <2>2. /\ sites'[s] # Nil
          /\ sites'[s].incarnation = sites[s].incarnation
          /\ sites'[s].state \in {sites[s].state, "Up"}
        <3>2. sites'[s] = [sites[s] EXCEPT
                    !.last_heartbeat_ms = now_ms,
                    !.state = IF @ = "Unknown" THEN "Up" ELSE @]
            BY <1>2 DEF register_same_incarnation, TypeOK
        <3>3. sites'[s].incarnation = sites[s].incarnation
            BY <2>1, <3>2 DEF SiteRecord
        <3>4. sites'[s].state \in {sites[s].state, "Up"}
            BY <2>1, <3>2 DEF SiteRecord
        <3>5. sites'[s] \in SiteRecord
            BY <2>1, <3>2, <3>4, InputAssumption DEF SiteRecord, SiteState
        <3> QED
            BY <3>3, <3>4, <3>5, NilAssumption
    <2>3. \A t \in Sites : t # s => sites'[t] = sites[t]
        BY <1>2 DEF register_same_incarnation, TypeOK
    <2>4. \A g \in Entries(grants) : grants[g].holder \in Sites
        BY GrantLookup
    <2> QED
        BY <1>2, <2>2, <2>3, <2>4, SiteStepSafety
           DEF register_same_incarnation, LostSiteIdle, site_requires_degradation
<1>3. ASSUME NEW inc \in Incarnations, NEW e \in Nat, NEW now_ms \in Nat,
             register_new_incarnation(s, inc, e, now_ms)
      PROVE  SafetyInv'
    <2>1. sites[s] \in SiteRecord
        BY <1>3 DEF register_new_incarnation, TypeOK
    <2>2. sites'[s] # Nil /\ sites'[s].state = "Up"
        BY <1>3, <2>1, NilAssumption, InputAssumption
           DEF register_new_incarnation, TypeOK, SiteRecord, SiteState
    <2>3. \A t \in Sites : t # s => sites'[t] = sites[t]
        BY <1>3 DEF register_new_incarnation, TypeOK
    <2>4. ASSUME NEW g \in Entries(grants)
          PROVE  /\ grants'[g] # Nil
                 /\ grants'[g].holder = grants[g].holder
                 /\ grants'[g].path = grants[g].path
                 /\ grants[g].holder = s => ~authorised(grants'[g].state)
                 /\ grants[g].holder # s => grants'[g] = grants[g]
        <3>1. grants'[g] = IF grants[g].holder = s /\ authorised(grants[g].state)
                           THEN [grants[g] EXCEPT !.state = "Withdrawing",
                                                  !.verification = "Unverified"]
                           ELSE grants[g]
            BY <1>3, GrantLookup DEF register_new_incarnation, Updated, GrantsOf
        <3>2. [grants[g] EXCEPT !.state = "Withdrawing", !.verification = "Unverified"]
                \in GrantRecord
            BY GrantLookup, GrantStateType DEF GrantState, VerificationState
        <3>3. grants[g] \in GrantRecord
            BY GrantLookup
        <3>4. CASE grants[g].holder = s /\ authorised(grants[g].state)
            <4>1. /\ grants'[g] \in GrantRecord
                  /\ grants'[g].state = "Withdrawing"
                  /\ grants'[g].holder = grants[g].holder
                  /\ grants'[g].path = grants[g].path
                BY <3>1, <3>2, <3>3, <3>4 DEF GrantRecord
            <4>2. ~authorised(grants'[g].state)
                BY <4>1 DEF authorised
            <4> QED
                BY <3>4, <4>1, <4>2, NilAssumption
        <3>5. CASE ~(grants[g].holder = s /\ authorised(grants[g].state))
            BY <3>1, <3>3, <3>5, NilAssumption
        <3> QED
            BY <3>4, <3>5
    <2>5. Entries(grants)' = Entries(grants)
        BY <1>3, <2>4 DEF register_new_incarnation, Updated, Entries, GrantsOf, TypeOK
    <2>6. \A g \in Entries(grants) : grants[g].holder \in Sites
        BY GrantLookup
    <2> QED
        BY <1>3, <2>2, <2>3, <2>4, <2>5, <2>6, SiteStepSafety
           DEF register_new_incarnation, LostSiteIdle, site_requires_degradation
<1>4. ASSUME NEW inc \in Incarnations, NEW e \in Nat, NEW gen \in Nat,
             NEW now_ms \in Nat, heartbeat(s, inc, e, gen, now_ms)
      PROVE  SafetyInv'
    <2>1. sites[s] \in SiteRecord
        BY <1>4 DEF heartbeat, TypeOK
    <2>2. /\ sites'[s] # Nil
          /\ sites'[s].incarnation = sites[s].incarnation
          /\ sites'[s].state \in {sites[s].state, "Up"}
        <3>2. sites'[s] = [sites[s] EXCEPT
                    !.last_heartbeat_ms = now_ms,
                    !.state = IF @ \in {"Up", "Degraded", "Unknown"} THEN "Up" ELSE @]
            BY <1>4 DEF heartbeat, TypeOK
        <3>3. sites'[s].incarnation = sites[s].incarnation
            BY <2>1, <3>2 DEF SiteRecord
        <3>4. sites'[s].state \in {sites[s].state, "Up"}
            BY <2>1, <3>2 DEF SiteRecord
        <3>5. sites'[s] \in SiteRecord
            BY <2>1, <3>2, <3>4, InputAssumption DEF SiteRecord, SiteState
        <3> QED
            BY <3>3, <3>4, <3>5, NilAssumption
    <2>3. \A t \in Sites : t # s => sites'[t] = sites[t]
        BY <1>4 DEF heartbeat, TypeOK
    <2>4. \A g \in Entries(grants) : grants[g].holder \in Sites
        BY GrantLookup
    <2> QED
        BY <1>4, <2>2, <2>3, <2>4, SiteStepSafety
           DEF heartbeat, LostSiteIdle, site_requires_degradation
<1>5. ASSUME NEW state \in SiteState, set_site_state(s, state)
      PROVE  SafetyInv'
    <2>1. sites[s] \in SiteRecord
        BY <1>5 DEF set_site_state, TypeOK
    <2>2. /\ sites'[s] # Nil
          /\ sites'[s].incarnation = sites[s].incarnation
          /\ sites'[s].state = state
        <3>1. [sites[s] EXCEPT !.state = state] \in SiteRecord
            BY <2>1, InputAssumption DEF SiteRecord
        <3> QED
            BY <1>5, <2>1, <3>1, NilAssumption DEF set_site_state, TypeOK, SiteRecord
    <2>3. \A t \in Sites : t # s => sites'[t] = sites[t]
        BY <1>5 DEF set_site_state, TypeOK
    <2>4. ASSUME NEW g \in Entries(grants)
          PROVE  /\ grants'[g] # Nil
                 /\ grants'[g] = grants[g] \/ grants'[g] = Downgraded(grants[g])
                 /\ grants[g].holder = s /\ site_requires_degradation(state)
                        => grants'[g] = Downgraded(grants[g])
        <3>1. grants'[g] = IF site_requires_degradation(state) /\ grants[g].holder = s
                           THEN Downgraded(grants[g]) ELSE grants[g]
            BY <1>5, GrantLookup DEF set_site_state, Updated, GrantsOf
        <3> QED
            BY <3>1, GrantLookup, DowngradedType, NilAssumption
    <2>5. Entries(grants)' = Entries(grants)
        BY <1>5, <2>4 DEF set_site_state, Updated, Entries, GrantsOf, TypeOK
    <2>6. ASSUME NEW g \in Entries(grants)
          PROVE  /\ grants[g].holder \in Sites
                 /\ grants'[g].holder = grants[g].holder
                 /\ grants'[g].path = grants[g].path
                 /\ authorised(grants'[g].state) =>
                      /\ authorised(grants[g].state)
                      /\ grants'[g].holder_incarnation = grants[g].holder_incarnation
                      /\ grants'[g].path_generation = grants[g].path_generation
                      /\ grants'[g].capacity_generation = grants[g].capacity_generation
                      /\ grants'[g].policy_generation = grants[g].policy_generation
                      /\ grants'[g].epoch = grants[g].epoch
        BY <2>4, GrantLookup, DowngradedFields
    <2>7. ASSUME NEW g \in Entries(grants),
                 site_requires_degradation(sites'[grants[g].holder].state)
          PROVE  grants'[g].state \notin {"Reserved", "Active"}
        <3>1. CASE grants[g].holder = s
            BY <2>2, <2>4, <2>7, <3>1, GrantLookup, DowngradedFields
        <3>2. CASE grants[g].holder # s
            <4>1. grants[g].state \notin {"Reserved", "Active"}
                BY <2>3, <2>6, <2>7, <3>2 DEF LostSiteIdle
            <4> QED
                BY <2>4, <4>1, GrantLookup, DowngradedFields
        <3> QED
            BY <3>1, <3>2
    <2>8. \A t \in Sites : sites[t] # Nil =>
              sites'[t] # Nil /\ sites'[t].incarnation = sites[t].incarnation
        BY <2>2, <2>3
    <2>9. \A g \in Entries(grants) : sites[grants[g].holder] # Nil
        BY DEF ReferencesExist
    <2> QED
        BY <1>5, <2>5, <2>6, <2>7, <2>8, <2>9, SiteStepSafety DEF set_site_state
<1> QED
    BY <1>1, <1>2, <1>3, <1>4, <1>5 DEF register_site

\* What a step that makes rec the record of path p does to the grants: grants of
\* other paths stay as they are, and what stays authorised on p was so before
\* and is bound to rec.
PathGrantsKept(p, rec) ==
    /\ Entries(grants)' = Entries(grants)
    /\ \A g \in Entries(grants) :
              /\ grants'[g].holder = grants[g].holder
              /\ grants'[g].path = grants[g].path
              /\ grants'[g].state \in {"Reserved", "Active"} => grants'[g].state = grants[g].state
              /\ grants[g].path # p => grants'[g] = grants[g]
              /\ grants[g].path = p /\ authorised(grants'[g].state) =>
                    /\ authorised(grants[g].state)
                    /\ grants'[g].holder_incarnation = grants[g].holder_incarnation
                    /\ grants'[g].path_generation = rec.generation
                    /\ grants'[g].capacity_generation = rec.capacity_generation
                    /\ grants'[g].policy_generation = grants[g].policy_generation
                    /\ grants'[g].epoch = grants[g].epoch

\* A step that replaces the record of path p, and touches grants of p alone,
\* keeps the invariant when the new record is sound.
LEMMA PathStepSafety ==
    ASSUME IInv, NEW p \in Paths, NEW rec \in PathRecord,
           paths' = [paths EXCEPT ![p] = rec],
           UNCHANGED <<epoch, policy, sites>>,
           sites[rec.endpoint_a] # Nil, sites[rec.endpoint_b] # Nil,
           rec.shared_risk_domain \in domains', domains \subseteq domains',
           rec.unavailable <= rec.authoritative_usable,
           PathGrantsKept(p, rec)
    PROVE  SafetyInv'
<1> USE DEF IInv, PathGrantsKept
<1>1. /\ paths'[p] = rec
      /\ \A q \in Paths : q # p => paths'[q] = paths[q]
      /\ rec # Nil
      /\ Entries(paths)' \subseteq Entries(paths) \cup {p}
      /\ Entries(paths) \subseteq Paths
    BY NilAssumption DEF TypeOK, Entries
<1>2. ReferencesExist'
    <2>1. ASSUME NEW q \in Entries(paths)'
          PROVE  /\ sites[paths'[q].endpoint_a] # Nil
                 /\ sites[paths'[q].endpoint_b] # Nil
                 /\ paths'[q].shared_risk_domain \in domains'
        <3>1. CASE q = p
            BY <1>1, <3>1
        <3>2. CASE q # p
            <4>1. q \in Entries(paths) /\ paths'[q] = paths[q]
                BY <1>1, <3>2
            <4> QED
                BY <4>1 DEF ReferencesExist
        <3> QED
            BY <3>1, <3>2
    <2>2. ASSUME NEW g \in Entries(grants)
          PROVE  sites[grants'[g].holder] # Nil /\ paths'[grants'[g].path] # Nil
        BY <1>1, GrantLookup, NilAssumption
    <2> QED
        BY <2>1, <2>2 DEF ReferencesExist
<1>3. AuthorisedBindingCurrent'
    <2> SUFFICES ASSUME NEW g \in Entries(grants), authorised(grants'[g].state)
                 PROVE  BindingCurrent(grants[g])'
        BY DEF AuthorisedBindingCurrent
    <2>1. authorised(grants[g].state) /\ BindingCurrent(grants[g])
        BY DEF AuthorisedBindingCurrent
    <2>2. grants[g].path \in Paths
        BY GrantLookup
    <2>3. CASE grants[g].path = p
        BY <1>1, <2>1, <2>3 DEF BindingCurrent
    <2>4. CASE grants[g].path # p
        BY <1>1, <2>1, <2>2, <2>4 DEF BindingCurrent
    <2> QED
        BY <2>3, <2>4
<1>4. UnavailableWithinUsable'
    BY <1>1 DEF UnavailableWithinUsable
<1>5. LostSiteIdle'
    BY DEF LostSiteIdle
<1> QED
    BY <1>2, <1>3, <1>4, <1>5 DEF SafetyInv

\* The effect of rebalance_path on the grants when the record of p becomes rec.
LEMMA RebalancedGrants ==
    ASSUME TypeOK, ReferencesExist, NEW p \in Paths, NEW rec \in PathRecord, NEW now_ms,
           grants' = [g \in Requests |->
                        IF g \in GrantsAt(p)
                        THEN Rebalanced(g, p, rec, policy, now_ms, PathBound(grants[g], rec))
                        ELSE grants[g]]
    PROVE  PathGrantsKept(p, rec)
<1>1. ASSUME NEW g \in Entries(grants)
      PROVE  /\ grants'[g] # Nil
             /\ grants'[g].holder = grants[g].holder
             /\ grants'[g].path = grants[g].path
             /\ grants'[g].state \in {"Reserved", "Active"} => grants'[g].state = grants[g].state
             /\ grants[g].path # p => grants'[g] = grants[g]
             /\ grants[g].path = p /\ authorised(grants'[g].state) =>
                    /\ authorised(grants[g].state)
                    /\ grants'[g].holder_incarnation = grants[g].holder_incarnation
                    /\ grants'[g].path_generation = rec.generation
                    /\ grants'[g].capacity_generation = rec.capacity_generation
                    /\ grants'[g].policy_generation = grants[g].policy_generation
                    /\ grants'[g].epoch = grants[g].epoch
    <2> DEFINE kept == PathBound(grants[g], rec)
    <2>1. g \in Requests /\ grants[g] \in GrantRecord
        BY GrantLookup
    <2>2. CASE grants[g].path # p
        BY <2>1, <2>2, NilAssumption DEF GrantsAt
    <2>3. CASE grants[g].path = p
        <3>1. grants'[g] = Rebalanced(g, p, rec, policy, now_ms, kept)
            BY <2>1, <2>3 DEF GrantsAt
        <3>2. \/ authorised(grants[g].state) /\ grants'[g] = [grants[g] EXCEPT !.state = "Withdrawing"]
              \/ authorised(grants[g].state) /\ grants'[g] = kept
              \/ ~authorised(grants[g].state) /\ grants'[g] = grants[g]
            BY <3>1, RebalancedCases
        <3>3. kept \in GrantRecord
            BY <2>1, PathBoundType
        <3>4. [grants[g] EXCEPT !.state = "Withdrawing"] \in GrantRecord
            BY <2>1, GrantStateType DEF GrantState, VerificationState
        <3>5. grants'[g] # Nil
            BY <2>1, <3>2, <3>3, <3>4, NilAssumption
        <3>6. CASE grants'[g] = [grants[g] EXCEPT !.state = "Withdrawing"]
            <4>1. /\ grants'[g].state = "Withdrawing"
                  /\ grants'[g].holder = grants[g].holder
                  /\ grants'[g].path = grants[g].path
                BY <2>1, <3>6 DEF GrantRecord
            <4>2. ~authorised(grants'[g].state)
                BY <4>1 DEF authorised
            <4> QED
                BY <2>3, <3>5, <4>1, <4>2
        <3>7. CASE authorised(grants[g].state) /\ grants'[g] = kept
            BY <2>1, <2>3, <3>5, <3>7 DEF PathBound, GrantRecord
        <3>8. CASE ~authorised(grants[g].state) /\ grants'[g] = grants[g]
            BY <2>3, <3>5, <3>8
        <3> QED
            BY <3>2, <3>6, <3>7, <3>8
    <2> QED
        BY <2>2, <2>3
<1>2. Entries(grants)' = Entries(grants)
    BY <1>1 DEF Entries, GrantsAt, TypeOK
<1> QED
    BY <1>1, <1>2 DEF PathGrantsKept

\* Registration, state changes and attestation of paths keep the invariant:
\* rebalance_path rebinds what stays authorised, and no record has more
\* unavailable than usable.
LEMMA PathSafety ==
    ASSUME IInv, AnyPath PROVE SafetyInv'
<1> PICK p \in Paths :
        \/ \E a, b \in Sites, d \in Domains, state \in PathState :
                register_new_path(p, a, b, d, state)
        \/ \E a, b \in Sites, d \in Domains, gen \in Nat,
              state \in PathState, now_ms \in Nat :
                reregister_path(p, a, b, d, gen, state, now_ms)
        \/ \E state \in PathState, now_ms \in Nat :
                set_path_state(p, state, now_ms)
        \/ \E id \in AttestationIds, e \in Nat, pathGen \in Nat,
              capGen \in Nat, usable \in Amount, now_ms \in Nat :
                attest_capacity(id, p, e, pathGen, capGen, usable, now_ms)
    BY DEF AnyPath
<1> USE DEF IInv
<1>1. ASSUME NEW a \in Sites, NEW b \in Sites, NEW d \in Domains, NEW state \in PathState,
             register_new_path(p, a, b, d, state)
      PROVE  SafetyInv'
    <2> DEFINE rec == [shared_risk_domain |-> d, endpoint_a |-> a, endpoint_b |-> b,
                       generation |-> 1, capacity_generation |-> 0, state |-> state,
                       authoritative_usable |-> 0, unavailable |-> 0]
    <2>1. /\ rec \in PathRecord
          /\ rec.endpoint_a = a /\ rec.endpoint_b = b /\ rec.shared_risk_domain = d
          /\ rec.unavailable <= rec.authoritative_usable
        BY InputAssumption DEF PathRecord
    <2>2. /\ paths' = [paths EXCEPT ![p] = rec]
          /\ domains' = domains \cup {d}
          /\ sites[a] # Nil /\ sites[b] # Nil
          /\ UNCHANGED <<epoch, policy, sites, grants>>
        BY <1>1 DEF register_new_path, PathEndpointsOk
    <2>3. \A g \in Entries(grants) : grants[g].path # p
        BY <1>1, GrantLookup, NilAssumption DEF register_new_path
    <2>4. PathGrantsKept(p, rec)
        BY <2>2, <2>3 DEF PathGrantsKept
    <2> HIDE DEF rec
    <2> QED
        BY <2>1, <2>2, <2>4, PathStepSafety
<1>2. ASSUME NEW a \in Sites, NEW b \in Sites, NEW d \in Domains, NEW gen \in Nat,
             NEW state \in PathState, NEW now_ms \in Nat,
             reregister_path(p, a, b, d, gen, state, now_ms)
      PROVE  SafetyInv'
    <2> DEFINE rec == [paths[p] EXCEPT !.shared_risk_domain = d, !.endpoint_a = a,
                                       !.endpoint_b = b, !.generation = gen,
                                       !.state = state]
    <2>1. paths[p] \in PathRecord /\ p \in Entries(paths)
        BY <1>2 DEF reregister_path, TypeOK, Entries
    <2>2. /\ rec \in PathRecord
          /\ rec.endpoint_a = a /\ rec.endpoint_b = b /\ rec.shared_risk_domain = d
          /\ rec.unavailable = paths[p].unavailable
          /\ rec.authoritative_usable = paths[p].authoritative_usable
        BY <2>1, InputAssumption DEF PathRecord
    <2>3. /\ paths' = [paths EXCEPT ![p] = rec]
          /\ domains' = domains \cup {d}
          /\ sites[a] # Nil /\ sites[b] # Nil
          /\ UNCHANGED <<epoch, policy, sites>>
          /\ grants' = [g \in Requests |->
                        IF g \in GrantsAt(p)
                        THEN Rebalanced(g, p, rec, policy, now_ms, PathBound(grants[g], rec))
                        ELSE grants[g]]
        BY <1>2 DEF reregister_path, PathEndpointsOk, Updated
    <2>4. paths[p].unavailable <= paths[p].authoritative_usable
        BY <2>1 DEF UnavailableWithinUsable
    <2> HIDE DEF rec
    <2>5. PathGrantsKept(p, rec)
        BY <2>2, <2>3, RebalancedGrants
    <2> QED
        BY <2>2, <2>3, <2>4, <2>5, PathStepSafety
<1>3. ASSUME NEW state \in PathState, NEW now_ms \in Nat,
             set_path_state(p, state, now_ms)
      PROVE  SafetyInv'
    <2> DEFINE rec == [paths[p] EXCEPT
                        !.state = state,
                        !.unavailable = IF path_requires_degradation(state)
                                        THEN paths[p].authoritative_usable ELSE 0]
    <2>1. paths[p] \in PathRecord /\ p \in Entries(paths)
        BY <1>3 DEF set_path_state, TypeOK, Entries
    <2>2. /\ rec \in PathRecord
          /\ rec.endpoint_a = paths[p].endpoint_a /\ rec.endpoint_b = paths[p].endpoint_b
          /\ rec.shared_risk_domain = paths[p].shared_risk_domain
          /\ rec.generation = paths[p].generation
          /\ rec.capacity_generation = paths[p].capacity_generation
          /\ rec.unavailable <= rec.authoritative_usable
        <3> DEFINE out == IF path_requires_degradation(state)
                          THEN paths[p].authoritative_usable ELSE 0
        <3>1. out \in Nat /\ out <= paths[p].authoritative_usable
            BY <2>1 DEF PathRecord
        <3>2. state \in PathState
            BY InputAssumption
        <3> HIDE DEF out
        <3>3. rec = [paths[p] EXCEPT !.state = state, !.unavailable = out]
            BY DEF out
        <3> HIDE DEF rec
        <3> QED
            BY <2>1, <3>1, <3>2, <3>3 DEF PathRecord
    <2>3. /\ paths' = [paths EXCEPT ![p] = rec]
          /\ UNCHANGED <<epoch, policy, sites, domains>>
        BY <1>3 DEF set_path_state
    <2>4. ASSUME NEW g \in Entries(grants)
          PROVE  /\ grants[g].path # p => grants'[g] = grants[g]
                 /\ \/ grants'[g] = grants[g]
                    \/ grants'[g] = Downgraded(grants[g])
                    \/ grants'[g] = [grants[g] EXCEPT !.state = "Withdrawing"]
        BY <1>3, GrantLookup DEF set_path_state, Updated, GrantsAt
    <2>5. ASSUME NEW g \in Entries(grants)
          PROVE  /\ grants'[g] # Nil
                 /\ grants'[g].holder = grants[g].holder
                 /\ grants'[g].path = grants[g].path
                 /\ grants'[g].state \in {"Reserved", "Active"} => grants'[g].state = grants[g].state
                 /\ authorised(grants'[g].state) =>
                      /\ authorised(grants[g].state)
                      /\ grants'[g].holder_incarnation = grants[g].holder_incarnation
                      /\ grants'[g].path_generation = grants[g].path_generation
                      /\ grants'[g].capacity_generation = grants[g].capacity_generation
                      /\ grants'[g].policy_generation = grants[g].policy_generation
                      /\ grants'[g].epoch = grants[g].epoch
        <3>1. grants[g] \in GrantRecord
            BY GrantLookup
        <3>2. CASE grants'[g] = grants[g]
            BY <3>1, <3>2, NilAssumption
        <3>3. CASE grants'[g] = Downgraded(grants[g])
            BY <3>1, <3>3, DowngradedType, DowngradedFields, NilAssumption
        <3>4. CASE grants'[g] = [grants[g] EXCEPT !.state = "Withdrawing"]
            <4>1. [grants[g] EXCEPT !.state = "Withdrawing"] \in GrantRecord
                BY <3>1, GrantStateType DEF GrantState, VerificationState
            <4> QED
                BY <3>1, <3>4, <4>1, NilAssumption DEF GrantRecord, authorised
        <3> QED
            BY <2>4, <3>2, <3>3, <3>4
    <2>6. Entries(grants)' = Entries(grants)
        BY <1>3, <2>5 DEF set_path_state, Updated, Entries, GrantsAt, TypeOK
    <2>7. \A g \in Entries(grants) :
            authorised(grants[g].state) /\ grants[g].path = p
                => /\ grants[g].path_generation = rec.generation
                   /\ grants[g].capacity_generation = rec.capacity_generation
        BY <2>2 DEF AuthorisedBindingCurrent, BindingCurrent
    <2>8. /\ sites[rec.endpoint_a] # Nil /\ sites[rec.endpoint_b] # Nil
          /\ rec.shared_risk_domain \in domains
        BY <2>1, <2>2 DEF ReferencesExist
    <2> HIDE DEF rec
    <2>9. PathGrantsKept(p, rec)
        BY <2>4, <2>5, <2>6, <2>7 DEF PathGrantsKept
    <2> QED
        BY <2>2, <2>3, <2>8, <2>9, PathStepSafety
<1>4. ASSUME NEW id \in AttestationIds, NEW e \in Nat, NEW pathGen \in Nat,
             NEW capGen \in Nat, NEW usable \in Amount, NEW now_ms \in Nat,
             attest_capacity(id, p, e, pathGen, capGen, usable, now_ms)
      PROVE  SafetyInv'
    <2> DEFINE rec == Attested(paths[p], capGen, usable)
    <2>1. paths[p] \in PathRecord /\ p \in Entries(paths) /\ usable \in Nat
        BY <1>4, InputAssumption DEF attest_capacity, TypeOK, Entries, Amount
    <2>2. /\ rec \in PathRecord
          /\ rec.endpoint_a = paths[p].endpoint_a /\ rec.endpoint_b = paths[p].endpoint_b
          /\ rec.shared_risk_domain = paths[p].shared_risk_domain
          /\ rec.unavailable <= rec.authoritative_usable
        <3>1. /\ min_amount(paths[p].unavailable, usable) \in Nat
              /\ min_amount(paths[p].unavailable, usable) <= usable
            BY <2>1 DEF min_amount, PathRecord
        <3>2. capGen \in Nat
            BY InputAssumption
        <3> QED
            BY <2>1, <3>1, <3>2 DEF Attested, PathRecord
    <2>3. /\ paths' = [paths EXCEPT ![p] = rec]
          /\ UNCHANGED <<epoch, policy, sites, domains>>
          /\ grants' = [g \in Requests |->
                        IF g \in GrantsAt(p)
                        THEN Rebalanced(g, p, rec, policy, now_ms, PathBound(grants[g], rec))
                        ELSE grants[g]]
        BY <1>4 DEF attest_capacity, Updated
    <2>4. /\ sites[rec.endpoint_a] # Nil /\ sites[rec.endpoint_b] # Nil
          /\ rec.shared_risk_domain \in domains
        BY <2>1, <2>2 DEF ReferencesExist
    <2> HIDE DEF rec
    <2>5. PathGrantsKept(p, rec)
        BY <2>2, <2>3, RebalancedGrants
    <2> QED
        BY <2>2, <2>3, <2>4, <2>5, PathStepSafety
<1> QED
    BY <1>1, <1>2, <1>3, <1>4

\* plan_issue_oversubscription changes nothing the invariant speaks of.
LEMMA OversubscriptionSafety ==
    ASSUME IInv, AnyOversubscription PROVE SafetyInv'
<1>1. UNCHANGED <<epoch, policy, sites, paths, domains, grants>>
    BY DEF AnyOversubscription, issue_oversubscription
<1> QED
    BY <1>1 DEF IInv, SafetyInv, ReferencesExist, AuthorisedBindingCurrent, BindingCurrent,
                UnavailableWithinUsable, LostSiteIdle, Entries

\* Replacing one grant by a record of the same holder and path keeps the
\* invariant when the record is bound to what is current if it is authorised,
\* and idle if its holder is lost.
LEMMA SetGrantSafety ==
    ASSUME IInv, NEW g \in Entries(grants), NEW r \in GrantRecord,
           grants' = [grants EXCEPT ![g] = r],
           UNCHANGED <<epoch, policy, sites, paths, domains>>,
           r.holder = grants[g].holder, r.path = grants[g].path,
           authorised(r.state) => BindingCurrent(r),
           site_requires_degradation(sites[r.holder].state) => r.state \notin {"Reserved", "Active"}
    PROVE  SafetyInv'
<1> USE DEF IInv
<1>1. /\ grants'[g] = r
      /\ \A h \in Requests : h # g => grants'[h] = grants[h]
      /\ Entries(grants)' = Entries(grants)
      /\ Entries(grants) \subseteq Requests
    BY NilAssumption DEF TypeOK, Entries
<1>2. ReferencesExist'
    BY <1>1 DEF ReferencesExist
<1>3. AuthorisedBindingCurrent'
    BY <1>1 DEF AuthorisedBindingCurrent, BindingCurrent
<1>4. UnavailableWithinUsable'
    BY DEF UnavailableWithinUsable
<1>5. LostSiteIdle'
    BY <1>1 DEF LostSiteIdle
<1> QED
    BY <1>2, <1>3, <1>4, <1>5 DEF SafetyInv

\* Changing a grant's state, verification or acknowledgement without authorising
\* it afresh keeps the invariant.
LEMMA GrantStepSafety ==
    ASSUME IInv, NEW g \in Entries(grants), NEW r \in GrantRecord, SetGrant(g, r),
           r.holder = grants[g].holder, r.holder_incarnation = grants[g].holder_incarnation,
           r.path = grants[g].path, r.path_generation = grants[g].path_generation,
           r.capacity_generation = grants[g].capacity_generation,
           r.policy_generation = grants[g].policy_generation, r.epoch = grants[g].epoch,
           authorised(r.state) => authorised(grants[g].state),
           r.state \in {"Reserved", "Active"} =>
                \/ r.state = grants[g].state
                \/ ~site_requires_degradation(sites[r.holder].state)
    PROVE  SafetyInv'
<1> USE DEF IInv
<1>1. authorised(r.state) => BindingCurrent(r)
    BY DEF AuthorisedBindingCurrent, BindingCurrent
<1>2. site_requires_degradation(sites[r.holder].state) => r.state \notin {"Reserved", "Active"}
    BY DEF LostSiteIdle
<1> QED
    BY <1>1, <1>2, SetGrantSafety DEF SetGrant

\* A grant that only loses its authorisation, or keeps it, keeps the invariant.
LEMMA GrantStateSafety ==
    ASSUME IInv, NEW g \in Entries(grants), NEW st \in GrantState, NEW v \in VerificationState,
           NEW q, SetGrant(g, q),
           \/ q = [grants[g] EXCEPT !.state = st]
           \/ q = [grants[g] EXCEPT !.state = st, !.verification = v]
           \/ q = [grants[g] EXCEPT !.state = st, !.verification = v, !.ambiguous = FALSE],
           authorised(st) => authorised(grants[g].state),
           st \in {"Reserved", "Active"} =>
                ~site_requires_degradation(sites[grants[g].holder].state)
    PROVE  SafetyInv'
<1>1. grants[g] \in GrantRecord
    BY GrantLookup DEF IInv
<1>2. /\ q \in GrantRecord
      /\ q.holder = grants[g].holder /\ q.holder_incarnation = grants[g].holder_incarnation
      /\ q.path = grants[g].path /\ q.path_generation = grants[g].path_generation
      /\ q.capacity_generation = grants[g].capacity_generation
      /\ q.policy_generation = grants[g].policy_generation /\ q.epoch = grants[g].epoch
      /\ q.state = st
    <2>1. CASE q = [grants[g] EXCEPT !.state = st]
        BY <1>1, <2>1 DEF GrantRecord
    <2>2. CASE q = [grants[g] EXCEPT !.state = st, !.verification = v]
        BY <1>1, <2>2 DEF GrantRecord
    <2>3. CASE q = [grants[g] EXCEPT !.state = st, !.verification = v, !.ambiguous = FALSE]
        BY <1>1, <2>3 DEF GrantRecord
    <2> QED
        BY <2>1, <2>2, <2>3
<1> QED
    BY <1>2, GrantStepSafety

\* A proposal adds a grant that is not authorised; its holder and path are
\* registered.
LEMMA ProposeSafety ==
    ASSUME IInv, NEW g \in Requests, NEW s \in Sites, NEW inc \in Incarnations,
           NEW gen \in Nat, NEW p \in Paths, NEW class \in GrantClass,
           NEW amount \in Amount, NEW duration \in Nat,
           NEW lease \in Leases \cup {Nil}, NEW now_ms \in Nat,
           propose_grant(g, s, inc, gen, p, class, amount, duration, lease, now_ms)
    PROVE  SafetyInv'
<1> USE DEF IInv
<1>1. /\ grants'[g].holder = s /\ grants'[g].path = p /\ grants'[g].state = "Proposed"
      /\ \A h \in Requests : h # g => grants'[h] = grants[h]
      /\ Entries(grants)' \subseteq Entries(grants) \cup {g}
      /\ Entries(grants) \subseteq Requests
    BY DEF propose_grant, TypeOK, Entries
<1>2. /\ sites[s] # Nil /\ paths[p] # Nil
      /\ UNCHANGED <<epoch, policy, sites, paths, domains>>
    BY DEF propose_grant
<1>3. \A h \in Entries(grants)' : h = g \/ (h \in Entries(grants) /\ grants'[h] = grants[h])
    BY <1>1
<1>4. ReferencesExist'
    BY <1>1, <1>2, <1>3 DEF ReferencesExist
<1>5. AuthorisedBindingCurrent'
    BY <1>1, <1>2, <1>3 DEF AuthorisedBindingCurrent, BindingCurrent, authorised
<1>6. UnavailableWithinUsable'
    BY <1>2 DEF UnavailableWithinUsable
<1>7. LostSiteIdle'
    BY <1>1, <1>2, <1>3 DEF LostSiteIdle
<1> QED
    BY <1>4, <1>5, <1>6, <1>7 DEF SafetyInv

\* Every operation on one grant keeps the invariant: reserve and reconcile bind
\* it to what is current, the others keep its binding and authorise nothing.
LEMMA GrantSafety ==
    ASSUME IInv, AnyGrant PROVE SafetyInv'
<1> PICK g \in Requests :
        \/ \E s \in Sites, inc \in Incarnations, gen \in Nat, p \in Paths,
              class \in GrantClass, amount \in Amount, duration \in Nat,
              lease \in Leases \cup {Nil}, now_ms \in Nat :
                propose_grant(g, s, inc, gen, p, class, amount, duration, lease, now_ms)
        \/ \E op \in GrantOperation :
            \/ evaluate_grant(g, op)
            \/ reserve_grant(g, op)
            \/ activate_grant(g, op)
            \/ degrade_grant(g, op)
            \/ withdraw_grant(g, op)
            \/ retire_grant(g, op)
            \/ cancel_grant(g, op)
        \/ \E ack \in GrantOperation : acknowledge_grant(g, ack)
        \/ \E id \in VerificationIds, result \in VerificationState : verify_grant(g, id, result)
        \/ \E target \in GrantState : reconcile_grant(g, target)
    BY DEF AnyGrant
<1>1. ASSUME grants[g] # Nil
      PROVE  /\ g \in Entries(grants) /\ grants[g] \in GrantRecord
             /\ Rebound(grants[g]) \in GrantRecord
    <2>1. g \in Entries(grants)
        BY <1>1 DEF IInv, TypeOK, Entries
    <2>2. sites[grants[g].holder] # Nil /\ paths[grants[g].path] # Nil
        BY <2>1 DEF IInv, ReferencesExist
    <2> QED
        BY <2>1, <2>2, GrantLookup, ReboundType DEF IInv
<1>2. CASE \E s \in Sites, inc \in Incarnations, gen \in Nat, p \in Paths,
              class \in GrantClass, amount \in Amount, duration \in Nat,
              lease \in Leases \cup {Nil}, now_ms \in Nat :
                propose_grant(g, s, inc, gen, p, class, amount, duration, lease, now_ms)
    BY <1>2, ProposeSafety
<1>3. ASSUME NEW op \in GrantOperation, evaluate_grant(g, op) PROVE SafetyInv'
    <2>1. PICK st \in {"Eligible", "Refused"} : SetGrant(g, [grants[g] EXCEPT !.state = st])
        BY <1>3 DEF evaluate_grant
    <2>2. g \in Entries(grants)
        BY <1>1, <1>3 DEF evaluate_grant
    <2> QED
        BY <2>1, <2>2, GrantStateSafety DEF GrantState, VerificationState, authorised
<1>4. ASSUME NEW op \in GrantOperation, reserve_grant(g, op) PROVE SafetyInv'
    <2> DEFINE q == [Rebound(grants[g]) EXCEPT !.state = "Reserved"]
    <2>1. grants[g] # Nil /\ SetGrant(g, q) /\ Accepting(grants[g])
        BY <1>4 DEF reserve_grant
    <2>2. q \in GrantRecord
        BY <1>1, <2>1, GrantStateType DEF GrantState, VerificationState
    <2>3. q.holder = grants[g].holder /\ q.path = grants[g].path /\ BindingCurrent(q)
        BY <1>1, <2>1 DEF Rebound, BindingCurrent, GrantRecord
    <2>4. ~site_requires_degradation(sites[q.holder].state)
        BY <2>1, <2>3 DEF Accepting, site_accepts_new_reservations, site_requires_degradation
    <2> HIDE DEF q
    <2> QED
        BY <1>1, <2>1, <2>2, <2>3, <2>4, SetGrantSafety DEF SetGrant
<1>5. ASSUME NEW op \in GrantOperation, activate_grant(g, op) PROVE SafetyInv'
    <2>1. /\ grants[g] # Nil /\ grants[g].state = "Reserved" /\ Accepting(grants[g])
          /\ SetGrant(g, [grants[g] EXCEPT !.state = "Active"])
        BY <1>5 DEF activate_grant
    <2>2. ~site_requires_degradation(sites[grants[g].holder].state)
        BY <2>1 DEF Accepting, site_accepts_new_reservations, site_requires_degradation
    <2> QED
        BY <1>1, <2>1, <2>2, GrantStateSafety DEF GrantState, VerificationState, authorised
<1>6. ASSUME NEW op \in GrantOperation, degrade_grant(g, op) PROVE SafetyInv'
    <2>1. /\ grants[g] # Nil /\ grants[g].state = "Active"
          /\ SetGrant(g, [grants[g] EXCEPT !.state = "Degraded", !.verification = "Unverified"])
        BY <1>6 DEF degrade_grant
    <2> QED
        BY <1>1, <2>1, GrantStateSafety DEF GrantState, VerificationState, authorised
<1>7. ASSUME NEW op \in GrantOperation, withdraw_grant(g, op) PROVE SafetyInv'
    <2>1. grants[g] # Nil /\ SetGrant(g, [grants[g] EXCEPT !.state = "Withdrawing"])
        BY <1>7 DEF withdraw_grant
    <2> QED
        BY <1>1, <2>1, GrantStateSafety DEF GrantState, VerificationState, authorised
<1>8. ASSUME NEW op \in GrantOperation, retire_grant(g, op) PROVE SafetyInv'
    <2>1. /\ grants[g] # Nil
          /\ SetGrant(g, [grants[g] EXCEPT !.state = "Retired", !.verification = "Unverified"])
        BY <1>8 DEF retire_grant
    <2> QED
        BY <1>1, <2>1, GrantStateSafety DEF GrantState, VerificationState, authorised
<1>9. ASSUME NEW op \in GrantOperation, cancel_grant(g, op) PROVE SafetyInv'
    <2>1. grants[g] # Nil /\ SetGrant(g, [grants[g] EXCEPT !.state = "Cancelled"])
        BY <1>9 DEF cancel_grant
    <2> QED
        BY <1>1, <2>1, GrantStateSafety DEF GrantState, VerificationState, authorised
<1>10. ASSUME NEW ack \in GrantOperation, acknowledge_grant(g, ack) PROVE SafetyInv'
    <2> DEFINE q == [grants[g] EXCEPT !.acknowledged = TRUE]
    <2>1. grants[g] # Nil /\ SetGrant(g, q)
        BY <1>10 DEF acknowledge_grant
    <2> QED
        BY <1>1, <2>1, GrantStepSafety DEF GrantRecord
<1>11. ASSUME NEW id \in VerificationIds, NEW result \in VerificationState,
              verify_grant(g, id, result)
       PROVE  SafetyInv'
    <2> DEFINE q == [grants[g] EXCEPT !.verification = result]
    <2>1. /\ grants[g] # Nil /\ grants' = [grants EXCEPT ![g] = q]
          /\ UNCHANGED <<epoch, policy, sites, paths, domains>>
        BY <1>11 DEF verify_grant
    <2>2. q \in GrantRecord
        BY <1>1, <2>1, InputAssumption DEF GrantRecord
    <2>3. /\ q.holder = grants[g].holder /\ q.path = grants[g].path
          /\ q.state = grants[g].state
          /\ BindingCurrent(grants[g]) => BindingCurrent(q)
        BY <1>1, <2>1 DEF GrantRecord, BindingCurrent
    <2>4. /\ authorised(q.state) => BindingCurrent(q)
          /\ site_requires_degradation(sites[q.holder].state) => q.state \notin {"Reserved", "Active"}
        BY <1>1, <2>1, <2>3 DEF IInv, AuthorisedBindingCurrent, LostSiteIdle
    <2> HIDE DEF q
    <2> QED
        BY <1>1, <2>1, <2>2, <2>3, <2>4, SetGrantSafety
<1>12. ASSUME reconcile_active(g) PROVE SafetyInv'
    <2> DEFINE q == [Rebound(grants[g]) EXCEPT !.state = "Active", !.verification = "Unverified",
                                               !.ambiguous = FALSE]
    <2>1. grants[g] # Nil /\ SetGrant(g, q) /\ Accepting(grants[g])
        BY <1>12 DEF reconcile_active
    <2>2. q \in GrantRecord
        BY <1>1, <2>1, GrantStateType DEF GrantState, VerificationState
    <2>3. q.holder = grants[g].holder /\ q.path = grants[g].path /\ BindingCurrent(q)
        BY <1>1, <2>1 DEF Rebound, BindingCurrent, GrantRecord
    <2>4. ~site_requires_degradation(sites[q.holder].state)
        BY <2>1, <2>3 DEF Accepting, site_accepts_new_reservations, site_requires_degradation
    <2> HIDE DEF q
    <2> QED
        BY <1>1, <2>1, <2>2, <2>3, <2>4, SetGrantSafety DEF SetGrant
<1>13. ASSUME reconcile_retired(g) PROVE SafetyInv'
    <2>1. /\ grants[g] # Nil
          /\ SetGrant(g, [grants[g] EXCEPT !.state = "Retired", !.verification = "Unverified",
                                           !.ambiguous = FALSE])
        BY <1>13 DEF reconcile_retired
    <2> QED
        BY <1>1, <2>1, GrantStateSafety DEF GrantState, VerificationState, authorised
<1> QED
    BY <1>2, <1>3, <1>4, <1>5, <1>6, <1>7, <1>8, <1>9, <1>10, <1>11, <1>12, <1>13
       DEF reconcile_grant

\* Expired grants are not authorised, and the grants of late sites go down.
LEMMA TickSafety ==
    ASSUME IInv, NEW now_ms \in Nat, tick(now_ms) PROVE SafetyInv'
<1> USE DEF IInv
<1> DEFINE late    == {s \in Entries(sites) : Overdue(s, now_ms) /\
                            (LongOverdue(s, now_ms) \/ sites[s].state = "Up")}
           expired == {g \in Entries(grants) : /\ holds_capacity(grants[g].state)
                                               /\ grants[g].expires_at_ms # 0
                                               /\ now_ms >= grants[g].expires_at_ms}
<1>1. /\ sites' = [s \in Sites |->
                     IF s \notin late THEN sites[s]
                     ELSE [sites[s] EXCEPT !.state = IF LongOverdue(s, now_ms)
                                                     THEN "Down" ELSE "Degraded"]]
      /\ grants' = [g \in Requests |->
                     IF g \in (UNION {GrantsOf(s) : s \in late}) \cup expired
                     THEN IF g \in expired THEN [grants[g] EXCEPT !.state = "Expired"]
                          ELSE Downgraded(grants[g])
                     ELSE grants[g]]
      /\ expired \subseteq Entries(grants)
    BY DEF tick, Updated
<1> HIDE DEF late, expired
<1>2. UNCHANGED <<epoch, policy, paths, domains>>
    BY DEF tick
<1>3. ASSUME NEW s \in Sites, sites[s] # Nil
      PROVE  /\ sites'[s] # Nil
             /\ sites'[s].incarnation = sites[s].incarnation
             /\ s \notin late => sites'[s] = sites[s]
    <2>1. sites[s] \in SiteRecord
        BY <1>3 DEF TypeOK
    <2>2. \A st \in SiteState : /\ [sites[s] EXCEPT !.state = st] \in SiteRecord
                                /\ [sites[s] EXCEPT !.state = st].incarnation = sites[s].incarnation
        BY <2>1 DEF SiteRecord
    <2> QED
        BY <1>1, <2>1, <2>2, NilAssumption DEF SiteState
<1>4. ASSUME NEW g \in Entries(grants)
      PROVE  /\ grants'[g] # Nil
             /\ \/ grants'[g] = grants[g] /\ grants[g].holder \notin late
                \/ grants'[g] = Downgraded(grants[g])
                \/ grants'[g] = [grants[g] EXCEPT !.state = "Expired"]
    <2>1. g \in Requests /\ grants[g] \in GrantRecord /\ Downgraded(grants[g]) \in GrantRecord
        BY GrantLookup, DowngradedType
    <2>2. [grants[g] EXCEPT !.state = "Expired"] \in GrantRecord
        BY <2>1, GrantStateType DEF GrantState, VerificationState
    <2>3. grants[g].holder \in late => g \in UNION {GrantsOf(s) : s \in late}
        BY DEF GrantsOf
    <2>4. \/ grants'[g] = grants[g] /\ grants[g].holder \notin late
          \/ grants'[g] = Downgraded(grants[g])
          \/ grants'[g] = [grants[g] EXCEPT !.state = "Expired"]
        BY <1>1, <2>1, <2>3
    <2> QED
        BY <2>1, <2>2, <2>4, NilAssumption
<1>5. Entries(grants)' = Entries(grants)
    <2>1. ASSUME NEW g \in Requests \ Entries(grants) PROVE grants'[g] = Nil
        BY <1>1 DEF Entries, GrantsOf, TypeOK
    <2>2. DOMAIN grants = Requests /\ DOMAIN grants' = Requests
        BY <1>1 DEF TypeOK
    <2> QED
        BY <1>4, <2>1, <2>2 DEF Entries
<1>6. ASSUME NEW g \in Entries(grants)
      PROVE  /\ grants'[g].holder = grants[g].holder
             /\ grants'[g].path = grants[g].path
             /\ authorised(grants'[g].state) =>
                    /\ authorised(grants[g].state)
                    /\ sites'[grants[g].holder].incarnation = sites[grants[g].holder].incarnation
                    /\ grants'[g].holder_incarnation = grants[g].holder_incarnation
                    /\ grants'[g].path_generation = grants[g].path_generation
                    /\ grants'[g].capacity_generation = grants[g].capacity_generation
                    /\ grants'[g].policy_generation = grants[g].policy_generation
                    /\ grants'[g].epoch = grants[g].epoch
             /\ site_requires_degradation(sites'[grants[g].holder].state)
                    => grants'[g].state \notin {"Reserved", "Active"}
    <2>1. /\ grants[g] \in GrantRecord /\ grants[g].holder \in Sites
          /\ sites[grants[g].holder] # Nil
        BY GrantLookup, NilAssumption
    <2>2. /\ sites'[grants[g].holder].incarnation = sites[grants[g].holder].incarnation
          /\ grants[g].holder \notin late => sites'[grants[g].holder] = sites[grants[g].holder]
        BY <1>3, <2>1
    <2>3. CASE grants'[g] = grants[g] /\ grants[g].holder \notin late
        BY <2>2, <2>3 DEF LostSiteIdle
    <2>4. CASE grants'[g] = Downgraded(grants[g])
        BY <2>1, <2>2, <2>4, DowngradedFields
    <2>5. CASE grants'[g] = [grants[g] EXCEPT !.state = "Expired"]
        BY <2>1, <2>5 DEF GrantRecord, authorised
    <2> QED
        BY <1>4, <2>3, <2>4, <2>5
<1> QED
    BY <1>2, <1>3, <1>5, <1>6, SiteStepSafety

------------------------------------------------------------------------------
(* The theorems *)

\* The inductive invariant holds initially.
LEMMA IInvInit == Init => IInv
BY InitType, InitSafety DEF IInv, SafetyInv

\* Every request with arguments of the right types preserves the inductive
\* invariant, whoever sends it.
LEMMA AnyRequestSafe ==
    ASSUME IInv, AnyRequest PROVE IInv'
<1>1. CASE AnyConfig
    BY <1>1, ConfigType, ConfigSafety DEF IInv, SafetyInv
<1>2. CASE AnySite
    BY <1>2, SiteType, SiteSafety DEF IInv, SafetyInv
<1>3. CASE AnyPath
    BY <1>3, PathType, PathSafety DEF IInv, SafetyInv
<1>4. CASE AnyOversubscription
    BY <1>4, OversubscriptionType, OversubscriptionSafety DEF IInv, SafetyInv
<1>5. CASE AnyGrant
    BY <1>5, GrantType, GrantSafety DEF IInv, SafetyInv
<1>6. CASE \E now_ms \in Nat : tick(now_ms)
    BY <1>6, TickType, TickSafety DEF IInv, SafetyInv
<1> QED
    BY <1>1, <1>2, <1>3, <1>4, <1>5, <1>6 DEF AnyRequest

\* So does every request of the model, whether or not the daemon checked the
\* tables before it.
LEMMA RequestSafe ==
    ASSUME IInv, Request PROVE IInv'
BY RequestIsAny, AnyRequestSafe

\* A step that changes no table preserves it as well.
LEMMA IInvStutter ==
    ASSUME IInv, UNCHANGED vars PROVE IInv'
BY DEF vars, IInv, TypeOK, ReferencesExist, AuthorisedBindingCurrent, BindingCurrent,
       UnavailableWithinUsable, LostSiteIdle, Entries

\* Every step of the authority preserves the inductive invariant.
LEMMA IInvNext == IInv /\ [Next]_vars => IInv'
BY RequestSafe, IInvStutter DEF Next

\* The inductive invariant holds in every reachable state.
LEMMA IInvAlways == Spec => []IInv
BY IInvInit, IInvNext, PTL DEF Spec

\* Every table keeps its type whatever requests arrive (apply installs the
\* images the planners return, without a further check).
THEOREM TypeCorrect == Spec => []TypeOK
<1>1. IInv => TypeOK
    BY DEF IInv
<1> QED
    BY <1>1, IInvAlways, PTL

\* Every reserved, active or degraded grant is bound to what is current
\* (dependency tracking of plan_install_policy, plan_bump_epoch,
\* plan_register_site, plan_register_path and plan_attest_capacity).
THEOREM BindingsCurrent == Spec => []AuthorisedBindingCurrent
<1>1. IInv => AuthorisedBindingCurrent
    BY DEF IInv
<1> QED
    BY <1>1, IInvAlways, PTL

\* No path loses more capacity than it was attested to have (plan_set_path_state
\* and plan_attest_capacity).
THEOREM OutageBounded == Spec => []UnavailableWithinUsable
<1>1. IInv => UnavailableWithinUsable
    BY DEF IInv
<1> QED
    BY <1>1, IInvAlways, PTL

\* A lost site's grants are neither reserved nor active (append_downgrades, and
\* the acceptance checks of reserve, activate and reconcile).
THEOREM LostSitesIdle == Spec => []LostSiteIdle
<1>1. IInv => LostSiteIdle
    BY DEF IInv
<1> QED
    BY <1>1, IInvAlways, PTL

------------------------------------------------------------------------------
(* Action properties *)

\* Requests about a site touch no table but those of sites and grants.
LEMMA SiteFrame ==
    ASSUME SiteNext
    PROVE  UNCHANGED <<epoch, policy, paths, domains, attestations, oversubscriptions,
                       verifications>>
<1> DEFINE Frame == UNCHANGED <<epoch, policy, paths, domains, attestations,
                                oversubscriptions, verifications>>
<1>1. ASSUME NEW s, NEW inc, NEW e, NEW now_ms, register_site(s, inc, e, now_ms) PROVE Frame
    <2>1. register_new_site(s, inc, e, now_ms) => Frame
        BY DEF register_new_site
    <2>2. register_same_incarnation(s, inc, e, now_ms) => Frame
        BY DEF register_same_incarnation
    <2>3. register_new_incarnation(s, inc, e, now_ms) => Frame
        BY DEF register_new_incarnation
    <2> QED
        BY <1>1, <2>1, <2>2, <2>3 DEF register_site
<1>2. ASSUME NEW s, NEW inc, NEW e, NEW gen, NEW now_ms, heartbeat(s, inc, e, gen, now_ms)
      PROVE  Frame
    BY <1>2 DEF heartbeat
<1>3. ASSUME NEW s, NEW state, set_site_state(s, state) PROVE Frame
    BY <1>3 DEF set_site_state
<1> HIDE DEF Frame
<1>4. Frame
    BY <1>1, <1>2, <1>3 DEF SiteNext
<1> QED
    BY <1>4 DEF Frame

\* What a request about a grant does: it proposes a new one, or it changes the
\* state of one along a legal transition, or an operator reconciles it.  Nothing
\* but reserve_grant reserves, no grant advances unless check_binding accepts the
\* operation, and path, class and amount never change.
Advanced == {"Eligible", "Reserved", "Active"}

GrantMove(g, r) ==
    /\ grants' = [grants EXCEPT ![g] = r]
    /\ UNCHANGED <<epoch, policy, sites, paths, oversubscriptions>>
    /\ \/ grants[g] = Nil /\ r.state = "Proposed"
       \/ /\ grants[g] # Nil
          /\ r.path = grants[g].path /\ r.grant_class = grants[g].grant_class
          /\ r.amount = grants[g].amount
          /\ \/ r.state = grants[g].state
             \/ /\ can_transition(grants[g].state, r.state)
                /\ r.state = "Reserved" => \E op \in Ops : reserve_grant(g, op)
                /\ r.state \in Advanced => \E op \in Ops : check_binding(grants[g], op)
             \/ \E target \in ReconcileTargets : reconcile_grant(g, target)

\* Every request about a grant is such a move.
LEMMA GrantMoves ==
    ASSUME IInv, GrantNext
    PROVE  \E g \in Requests : \E r \in GrantRecord : GrantMove(g, r)
<1> PICK g \in Requests :
        \/ \E s \in Sites, inc \in Incarnations, gen \in SiteGenerations, p \in Paths,
              class \in Classes, amount \in Amounts, duration \in Durations,
              lease \in Leases \cup {Nil}, now_ms \in Times :
                propose_grant(g, s, inc, gen, p, class, amount, duration, lease, now_ms)
        \/ \E op \in Ops :
            \/ evaluate_grant(g, op)
            \/ reserve_grant(g, op)
            \/ activate_grant(g, op)
            \/ degrade_grant(g, op)
            \/ withdraw_grant(g, op)
            \/ retire_grant(g, op)
            \/ cancel_grant(g, op)
        \/ \E ack \in AckOps : acknowledge_grant(g, ack)
        \/ \E id \in VerificationIds, result \in VerifyResults : verify_grant(g, id, result)
        \/ \E target \in ReconcileTargets : reconcile_grant(g, target)
    BY DEF GrantNext
<1> SUFFICES \E r \in GrantRecord : GrantMove(g, r)
    OBVIOUS
<1>1. grants[g] # Nil =>
            /\ grants[g] \in GrantRecord /\ Rebound(grants[g]) \in GrantRecord
    <2>1. grants[g] # Nil => g \in Entries(grants)
        BY DEF IInv, TypeOK, Entries
    <2>2. grants[g] # Nil => sites[grants[g].holder] # Nil /\ paths[grants[g].path] # Nil
        BY <2>1 DEF IInv, ReferencesExist
    <2> QED
        BY <2>1, <2>2, GrantLookup, ReboundType DEF IInv
<1>2. CASE \E s \in Sites, inc \in Incarnations, gen \in SiteGenerations, p \in Paths,
              class \in Classes, amount \in Amounts, duration \in Durations,
              lease \in Leases \cup {Nil}, now_ms \in Times :
                propose_grant(g, s, inc, gen, p, class, amount, duration, lease, now_ms)
    <2>1. grants[g] = Nil /\ UNCHANGED <<epoch, policy, sites, paths, oversubscriptions>>
        BY <1>2 DEF propose_grant
    <2>2. PICK r \in GrantRecord : r.state = "Proposed" /\ grants' = [grants EXCEPT ![g] = r]
        BY <1>2, ProposeType, InputAssumption DEF IInv
    <2> QED
        BY <2>1, <2>2 DEF GrantMove
<1>3. ASSUME NEW r \in GrantRecord, grants[g] # Nil,
             grants' = [grants EXCEPT ![g] = r],
             UNCHANGED <<epoch, policy, sites, paths, oversubscriptions>>,
             r.path = grants[g].path, r.grant_class = grants[g].grant_class,
             r.amount = grants[g].amount,
             \/ r.state = grants[g].state
             \/ /\ can_transition(grants[g].state, r.state)
                /\ r.state = "Reserved" => \E op \in Ops : reserve_grant(g, op)
                /\ r.state \in Advanced => \E op \in Ops : check_binding(grants[g], op)
             \/ \E target \in ReconcileTargets : reconcile_grant(g, target)
      PROVE  \E r2 \in GrantRecord : GrantMove(g, r2)
    BY <1>3 DEF GrantMove
<1>4. ASSUME NEW st \in GrantState, grants[g] # Nil,
             \/ SetGrant(g, [grants[g] EXCEPT !.state = st])
             \/ SetGrant(g, [grants[g] EXCEPT !.state = st, !.verification = "Unverified"]),
             st # "Reserved", can_transition(grants[g].state, st),
             st \in Advanced => \E op \in Ops : check_binding(grants[g], op)
      PROVE  \E r \in GrantRecord : GrantMove(g, r)
    <2>1. grants[g] \in GrantRecord
        BY <1>1, <1>4
    <2>2. PICK r \in GrantRecord :
                /\ SetGrant(g, r) /\ r.state = st /\ r.path = grants[g].path
                /\ r.grant_class = grants[g].grant_class /\ r.amount = grants[g].amount
        <3>1. CASE SetGrant(g, [grants[g] EXCEPT !.state = st])
            <4> DEFINE r == [grants[g] EXCEPT !.state = st]
            <4>1. /\ r \in GrantRecord /\ r.state = st /\ r.path = grants[g].path
                  /\ r.grant_class = grants[g].grant_class /\ r.amount = grants[g].amount
                BY <2>1 DEF GrantRecord
            <4> HIDE DEF r
            <4> QED
                BY <3>1, <4>1 DEF r
        <3>2. CASE SetGrant(g, [grants[g] EXCEPT !.state = st, !.verification = "Unverified"])
            <4> DEFINE r == [grants[g] EXCEPT !.state = st, !.verification = "Unverified"]
            <4>1. /\ r \in GrantRecord /\ r.state = st /\ r.path = grants[g].path
                  /\ r.grant_class = grants[g].grant_class /\ r.amount = grants[g].amount
                BY <2>1 DEF GrantRecord, VerificationState
            <4> HIDE DEF r
            <4> QED
                BY <3>2, <4>1 DEF r
        <3> QED
            BY <1>4, <3>1, <3>2
    <2> QED
        BY <1>3, <1>4, <2>2 DEF SetGrant
<1>5. ASSUME NEW op \in Ops, evaluate_grant(g, op) PROVE \E r \in GrantRecord : GrantMove(g, r)
    <2>1. PICK st \in {"Eligible", "Refused"} : SetGrant(g, [grants[g] EXCEPT !.state = st])
        BY <1>5 DEF evaluate_grant
    <2>2. /\ grants[g] # Nil /\ can_transition(grants[g].state, st)
          /\ check_binding(grants[g], op)
        BY <1>5 DEF evaluate_grant, can_transition
    <2> QED
        BY <1>4, <2>1, <2>2 DEF GrantState
<1>6. ASSUME NEW op \in Ops, reserve_grant(g, op) PROVE \E r \in GrantRecord : GrantMove(g, r)
    <2> DEFINE r == [Rebound(grants[g]) EXCEPT !.state = "Reserved"]
    <2>1. /\ grants[g] # Nil /\ SetGrant(g, r) /\ can_transition(grants[g].state, "Reserved")
          /\ check_binding(grants[g], op)
        BY <1>6 DEF reserve_grant, can_transition
    <2>2. r \in GrantRecord
        BY <1>1, <2>1, GrantStateType DEF GrantState, VerificationState
    <2>3. /\ r.state = "Reserved" /\ r.path = grants[g].path
          /\ r.grant_class = grants[g].grant_class /\ r.amount = grants[g].amount
        BY <1>1, <2>1 DEF Rebound, GrantRecord
    <2> HIDE DEF r
    <2> QED
        BY <1>3, <1>6, <2>1, <2>2, <2>3 DEF SetGrant
<1>7. ASSUME NEW op \in Ops, activate_grant(g, op) PROVE \E r \in GrantRecord : GrantMove(g, r)
    <2>1. /\ grants[g] # Nil /\ SetGrant(g, [grants[g] EXCEPT !.state = "Active"])
          /\ can_transition(grants[g].state, "Active") /\ check_binding(grants[g], op)
        BY <1>7 DEF activate_grant, can_transition
    <2> QED
        BY <1>4, <2>1 DEF GrantState
<1>8. ASSUME NEW op \in Ops, degrade_grant(g, op) PROVE \E r \in GrantRecord : GrantMove(g, r)
    <2>1. /\ grants[g] # Nil
          /\ SetGrant(g, [grants[g] EXCEPT !.state = "Degraded", !.verification = "Unverified"])
          /\ can_transition(grants[g].state, "Degraded")
        BY <1>8 DEF degrade_grant, can_transition
    <2> QED
        BY <1>4, <2>1 DEF GrantState, Advanced
<1>9. ASSUME NEW op \in Ops, withdraw_grant(g, op) PROVE \E r \in GrantRecord : GrantMove(g, r)
    <2>1. /\ grants[g] # Nil /\ SetGrant(g, [grants[g] EXCEPT !.state = "Withdrawing"])
          /\ can_transition(grants[g].state, "Withdrawing")
        BY <1>9 DEF withdraw_grant, can_transition, authorised
    <2> QED
        BY <1>4, <2>1 DEF GrantState, Advanced
<1>10. ASSUME NEW op \in Ops, retire_grant(g, op) PROVE \E r \in GrantRecord : GrantMove(g, r)
    <2>1. /\ grants[g] # Nil
          /\ SetGrant(g, [grants[g] EXCEPT !.state = "Retired", !.verification = "Unverified"])
          /\ can_transition(grants[g].state, "Retired")
        BY <1>10 DEF retire_grant, can_transition
    <2> QED
        BY <1>4, <2>1 DEF GrantState, Advanced
<1>11. ASSUME NEW op \in Ops, cancel_grant(g, op) PROVE \E r \in GrantRecord : GrantMove(g, r)
    <2>1. /\ grants[g] # Nil /\ SetGrant(g, [grants[g] EXCEPT !.state = "Cancelled"])
          /\ can_transition(grants[g].state, "Cancelled")
        BY <1>11 DEF cancel_grant
    <2> QED
        BY <1>4, <2>1 DEF GrantState, Advanced
<1>12. ASSUME NEW ack \in AckOps, acknowledge_grant(g, ack)
       PROVE  \E r \in GrantRecord : GrantMove(g, r)
    <2> DEFINE r == [grants[g] EXCEPT !.acknowledged = TRUE]
    <2>1. grants[g] # Nil /\ SetGrant(g, r)
        BY <1>12 DEF acknowledge_grant
    <2>2. /\ r \in GrantRecord /\ r.state = grants[g].state /\ r.path = grants[g].path
          /\ r.grant_class = grants[g].grant_class /\ r.amount = grants[g].amount
        BY <1>1, <2>1 DEF GrantRecord
    <2> HIDE DEF r
    <2> QED
        BY <1>3, <2>1, <2>2 DEF SetGrant
<1>13. ASSUME NEW id \in VerificationIds, NEW result \in VerifyResults,
              verify_grant(g, id, result)
       PROVE  \E r \in GrantRecord : GrantMove(g, r)
    <2> DEFINE r == [grants[g] EXCEPT !.verification = result]
    <2>1. /\ grants[g] # Nil /\ grants' = [grants EXCEPT ![g] = r]
          /\ UNCHANGED <<epoch, policy, sites, paths, oversubscriptions>>
        BY <1>13 DEF verify_grant
    <2>2. /\ r \in GrantRecord /\ r.state = grants[g].state /\ r.path = grants[g].path
          /\ r.grant_class = grants[g].grant_class /\ r.amount = grants[g].amount
        BY <1>1, <2>1, InputAssumption DEF GrantRecord
    <2> HIDE DEF r
    <2> QED
        BY <1>3, <2>1, <2>2
<1>14. ASSUME NEW target \in ReconcileTargets, reconcile_grant(g, target)
       PROVE  \E r \in GrantRecord : GrantMove(g, r)
    <2>1. PICK r \in GrantRecord :
                /\ grants[g] # Nil /\ SetGrant(g, r) /\ r.path = grants[g].path
                /\ r.grant_class = grants[g].grant_class /\ r.amount = grants[g].amount
        <3>1. CASE reconcile_active(g)
            <4> DEFINE r == [Rebound(grants[g]) EXCEPT !.state = "Active",
                                        !.verification = "Unverified", !.ambiguous = FALSE]
            <4>1. grants[g] # Nil /\ SetGrant(g, r)
                BY <3>1 DEF reconcile_active
            <4>2. r \in GrantRecord
                BY <1>1, <4>1, GrantStateType DEF GrantState, VerificationState
            <4>3. /\ r.path = grants[g].path
                  /\ r.grant_class = grants[g].grant_class /\ r.amount = grants[g].amount
                BY <1>1, <4>1 DEF Rebound, GrantRecord
            <4> HIDE DEF r
            <4> QED
                BY <4>1, <4>2, <4>3
        <3>2. CASE reconcile_retired(g)
            <4> DEFINE r == [grants[g] EXCEPT !.state = "Retired",
                                        !.verification = "Unverified", !.ambiguous = FALSE]
            <4>1. grants[g] # Nil /\ SetGrant(g, r)
                BY <3>2 DEF reconcile_retired
            <4>2. r \in GrantRecord
                BY <1>1, <4>1, GrantStateType DEF GrantState, VerificationState
            <4>3. /\ r.path = grants[g].path
                  /\ r.grant_class = grants[g].grant_class /\ r.amount = grants[g].amount
                BY <1>1, <4>1 DEF GrantRecord
            <4> HIDE DEF r
            <4> QED
                BY <4>1, <4>2, <4>3
        <3> QED
            BY <1>14, <3>1, <3>2 DEF reconcile_grant
    <2> QED
        BY <1>3, <1>14, <2>1 DEF SetGrant
<1> QED
    BY <1>2, <1>5, <1>6, <1>7, <1>8, <1>9, <1>10, <1>11, <1>12, <1>13, <1>14

\* What the loss of something a grant depends on does to its state: it stays, or
\* its authorisation is taken away, or an active grant is degraded.
Invalidated(from, to) ==
    \/ to = from
    \/ authorised(from) /\ to = "Withdrawing"
    \/ from = "Active" /\ to = "Degraded"

\* append_downgrades is such a change.
LEMMA DowngradedInvalidates ==
    ASSUME NEW r \in GrantRecord PROVE Invalidated(r.state, Downgraded(r).state)
BY DEF Downgraded, Invalidated, GrantRecord, authorised

\* So is rebalance_path, for a grant that is bound to something else only.
LEMMA RebalancedInvalidates ==
    ASSUME NEW g, grants[g] \in GrantRecord, NEW p, NEW rec, NEW pol, NEW now_ms,
           NEW rebound, rebound.state = grants[g].state
    PROVE  Invalidated(grants[g].state, Rebalanced(g, p, rec, pol, now_ms, rebound).state)
<1> DEFINE w == [grants[g] EXCEPT !.state = "Withdrawing"]
<1>1. w.state = "Withdrawing"
    BY DEF GrantRecord
<1> HIDE DEF w
<1>2. \/ authorised(grants[g].state) /\ Rebalanced(g, p, rec, pol, now_ms, rebound) = w
      \/ Rebalanced(g, p, rec, pol, now_ms, rebound) \in {rebound, grants[g]}
    BY RebalancedCases DEF w
<1> QED
    BY <1>1, <1>2 DEF Invalidated

\* Requests about the configuration, a site or a path do nothing else to grants.
LEMMA AnyInvalidates ==
    ASSUME IInv, AnyConfig \/ AnySite \/ AnyPath, NEW g \in Entries(grants)
    PROVE  Invalidated(grants[g].state, grants'[g].state)
<1>1. g \in Requests /\ grants[g] \in GrantRecord
    BY DEF IInv, TypeOK, Entries
<1>2. ASSUME grants'[g] = grants[g] PROVE Invalidated(grants[g].state, grants'[g].state)
    BY <1>2 DEF Invalidated
<1>3. ASSUME grants'[g] = Downgraded(grants[g])
      PROVE  Invalidated(grants[g].state, grants'[g].state)
    BY <1>1, <1>3, DowngradedInvalidates
<1>4. ASSUME authorised(grants[g].state),
             \/ grants'[g] = [grants[g] EXCEPT !.state = "Withdrawing"]
             \/ grants'[g] = [grants[g] EXCEPT !.state = "Withdrawing",
                                               !.verification = "Unverified"]
      PROVE  Invalidated(grants[g].state, grants'[g].state)
    BY <1>1, <1>4 DEF Invalidated, GrantRecord
<1>5. ASSUME NEW pol \in Policy, install_policy(pol)
      PROVE  Invalidated(grants[g].state, grants'[g].state)
    <2> DEFINE b == [grants[g] EXCEPT !.policy_generation = pol.generation]
               p == grants[g].path
    <2>1. grants'[g] = Rebalanced(g, p, paths[p], pol, 0, b)
        BY <1>1, <1>5 DEF install_policy, Updated
    <2>2. b.state = grants[g].state
        BY <1>1 DEF GrantRecord
    <2> HIDE DEF b
    <2> QED
        BY <1>1, <2>1, <2>2, RebalancedInvalidates
<1>6. ASSUME NEW e \in Nat, bump_epoch(e)
      PROVE  Invalidated(grants[g].state, grants'[g].state)
    BY <1>1, <1>2, <1>4, <1>6 DEF bump_epoch, Updated
<1>7. ASSUME NEW s \in Sites, NEW inc \in Incarnations, NEW e \in Nat, NEW now_ms \in Nat,
             register_site(s, inc, e, now_ms)
      PROVE  Invalidated(grants[g].state, grants'[g].state)
    BY <1>1, <1>2, <1>4, <1>7 DEF register_site, register_new_site, register_same_incarnation,
                                  register_new_incarnation, Updated
<1>8. ASSUME NEW s \in Sites, NEW inc \in Incarnations, NEW e \in Nat,
             NEW gen \in Nat, NEW now_ms \in Nat, heartbeat(s, inc, e, gen, now_ms)
      PROVE  Invalidated(grants[g].state, grants'[g].state)
    BY <1>2, <1>8 DEF heartbeat
<1>9. ASSUME NEW s \in Sites, NEW state \in SiteState, set_site_state(s, state)
      PROVE  Invalidated(grants[g].state, grants'[g].state)
    BY <1>1, <1>2, <1>3, <1>9 DEF set_site_state, Updated
<1>10. ASSUME NEW p \in Paths, NEW a \in Sites, NEW b \in Sites, NEW d \in Domains,
              NEW state \in PathState, register_new_path(p, a, b, d, state)
       PROVE  Invalidated(grants[g].state, grants'[g].state)
    BY <1>2, <1>10 DEF register_new_path
<1>11. ASSUME NEW p, NEW rec, NEW now_ms,
              grants' = [h \in Requests |->
                            IF h \in GrantsAt(p)
                            THEN Rebalanced(h, p, rec, policy, now_ms, PathBound(grants[h], rec))
                            ELSE grants[h]]
       PROVE  Invalidated(grants[g].state, grants'[g].state)
    <2> DEFINE b == PathBound(grants[g], rec)
    <2>1. b.state = grants[g].state
        BY <1>1 DEF PathBound, GrantRecord
    <2> HIDE DEF b
    <2>2. CASE g \in GrantsAt(p)
        <3>1. grants'[g] = Rebalanced(g, p, rec, policy, now_ms, b)
            BY <1>1, <1>11, <2>2 DEF b
        <3> QED
            BY <1>1, <2>1, <3>1, RebalancedInvalidates
    <2>3. CASE g \notin GrantsAt(p)
        BY <1>1, <1>2, <1>11, <2>3
    <2> QED
        BY <2>2, <2>3
<1>12. ASSUME NEW p \in Paths, NEW a \in Sites, NEW b \in Sites, NEW d \in Domains,
              NEW gen \in Nat, NEW state \in PathState, NEW now_ms \in Nat,
              reregister_path(p, a, b, d, gen, state, now_ms)
       PROVE  Invalidated(grants[g].state, grants'[g].state)
    <2> DEFINE rec == [paths[p] EXCEPT !.shared_risk_domain = d, !.endpoint_a = a,
                                       !.endpoint_b = b, !.generation = gen, !.state = state]
    <2>1. grants' = [h \in Requests |->
                        IF h \in GrantsAt(p)
                        THEN Rebalanced(h, p, rec, policy, now_ms, PathBound(grants[h], rec))
                        ELSE grants[h]]
        BY <1>12 DEF reregister_path, Updated
    <2> HIDE DEF rec
    <2> QED
        BY <1>11, <2>1
<1>13. ASSUME NEW p \in Paths, NEW id \in AttestationIds, NEW e \in Nat,
              NEW pathGen \in Nat, NEW capGen \in Nat,
              NEW usable \in Amount, NEW now_ms \in Nat,
              attest_capacity(id, p, e, pathGen, capGen, usable, now_ms)
       PROVE  Invalidated(grants[g].state, grants'[g].state)
    <2> DEFINE rec == Attested(paths[p], capGen, usable)
    <2>1. grants' = [h \in Requests |->
                        IF h \in GrantsAt(p)
                        THEN Rebalanced(h, p, rec, policy, now_ms, PathBound(grants[h], rec))
                        ELSE grants[h]]
        BY <1>13 DEF attest_capacity, Updated
    <2> HIDE DEF rec
    <2> QED
        BY <1>11, <2>1
<1>14. ASSUME NEW p \in Paths, NEW state \in PathState, NEW now_ms \in Nat,
              set_path_state(p, state, now_ms)
       PROVE  Invalidated(grants[g].state, grants'[g].state)
    <2>1. \A rec : g \in Shed(p, rec, policy, now_ms) => authorised(grants[g].state)
        BY ShedAuthorised
    <2>2. \/ grants'[g] = grants[g]
          \/ grants'[g] = Downgraded(grants[g])
          \/ /\ authorised(grants[g].state)
             /\ grants'[g] = [grants[g] EXCEPT !.state = "Withdrawing"]
        BY <1>1, <1>14, <2>1 DEF set_path_state, Updated
    <2> QED
        BY <1>2, <1>3, <1>4, <2>2
<1>15. CASE AnyConfig
    BY <1>5, <1>6, <1>15 DEF AnyConfig
<1>16. CASE AnySite
    BY <1>7, <1>8, <1>9, <1>16 DEF AnySite
<1>17. CASE AnyPath
    BY <1>10, <1>12, <1>13, <1>14, <1>17 DEF AnyPath
<1> QED
    BY <1>15, <1>16, <1>17

\* The same for the requests with the inputs of the model.
LEMMA RequestsInvalidate ==
    ASSUME IInv, ConfigNext \/ SiteNext \/ PathNext, NEW g \in Entries(grants)
    PROVE  Invalidated(grants[g].state, grants'[g].state)
BY AnyInvalidates, InputsAny

\* The passage of time may end a grant that holds capacity as well, and it
\* changes no incarnation.
LEMMA AnyTickInvalidates ==
    ASSUME IInv, NEW now_ms \in Nat, tick(now_ms)
    PROVE  /\ UNCHANGED <<epoch, policy, paths>>
           /\ \A s \in Entries(sites) : sites'[s].incarnation = sites[s].incarnation
           /\ \A g \in Entries(grants) :
                \/ Invalidated(grants[g].state, grants'[g].state)
                \/ holds_capacity(grants[g].state) /\ grants'[g].state = "Expired"
<1>1. UNCHANGED <<epoch, policy, paths>>
    BY DEF tick
<1>2. ASSUME NEW s \in Entries(sites) PROVE sites'[s].incarnation = sites[s].incarnation
    <2>1. s \in Sites /\ sites[s] \in SiteRecord
        BY DEF IInv, TypeOK, Entries
    <2>2. \/ sites'[s] = sites[s]
          \/ \E st : sites'[s] = [sites[s] EXCEPT !.state = st]
        BY <2>1 DEF tick
    <2> QED
        BY <2>1, <2>2 DEF SiteRecord
<1>3. ASSUME NEW g \in Entries(grants)
      PROVE  \/ Invalidated(grants[g].state, grants'[g].state)
             \/ holds_capacity(grants[g].state) /\ grants'[g].state = "Expired"
    <2>1. g \in Requests /\ grants[g] \in GrantRecord
        BY DEF IInv, TypeOK, Entries
    <2>2. \/ grants'[g] = grants[g]
          \/ grants'[g] = Downgraded(grants[g])
          \/ /\ holds_capacity(grants[g].state)
             /\ grants'[g] = [grants[g] EXCEPT !.state = "Expired"]
        BY <2>1 DEF tick, Updated
    <2>3. [grants[g] EXCEPT !.state = "Expired"].state = "Expired"
        BY <2>1 DEF GrantRecord
    <2>4. grants'[g] = grants[g] => Invalidated(grants[g].state, grants'[g].state)
        BY DEF Invalidated
    <2> QED
        BY <2>1, <2>2, <2>3, <2>4, DowngradedInvalidates
<1> QED
    BY <1>1, <1>2, <1>3

\* The same for the times of the model.
LEMMA TickInvalidates ==
    ASSUME IInv, NEW now_ms \in Times, tick(now_ms)
    PROVE  /\ UNCHANGED <<epoch, policy, paths>>
           /\ \A s \in Entries(sites) : sites'[s].incarnation = sites[s].incarnation
           /\ \A g \in Entries(grants) :
                \/ Invalidated(grants[g].state, grants'[g].state)
                \/ holds_capacity(grants[g].state) /\ grants'[g].state = "Expired"
<1>1. now_ms \in Nat
    BY InputAssumption
<1> QED
    BY <1>1, AnyTickInvalidates

\* The state of a grant moves only along kGrantTransitions, whichever request
\* moves it, unless an operator reconciles that grant (of the planners in
\* authority_plan.cpp only plan_cancel_grant asks can_transition).
THEOREM OnlyLegalTransitions == Spec => TransitionsLegal
<1> DEFINE Legal == \A g \in Entries(grants) :
                        \/ grants'[g].state = grants[g].state
                        \/ can_transition(grants[g].state, grants'[g].state)
                        \/ \E target \in ReconcileTargets : reconcile_grant(g, target)
<1>1. IInv /\ [Next]_vars => [Legal]_vars
    <2> SUFFICES ASSUME IInv, Next PROVE Legal
        OBVIOUS
    <2> SUFFICES ASSUME NEW g \in Entries(grants)
                 PROVE  \/ grants'[g].state = grants[g].state
                        \/ can_transition(grants[g].state, grants'[g].state)
                        \/ \E target \in ReconcileTargets : reconcile_grant(g, target)
        OBVIOUS
    <2>1. ASSUME Invalidated(grants[g].state, grants'[g].state)
          PROVE  \/ grants'[g].state = grants[g].state
                 \/ can_transition(grants[g].state, grants'[g].state)
        BY <2>1 DEF Invalidated, can_transition, authorised
    <2>2. CASE ConfigNext \/ SiteNext \/ PathNext
        BY <2>1, <2>2, RequestsInvalidate
    <2>3. CASE OversubscriptionNext
        BY <2>3 DEF OversubscriptionNext, issue_oversubscription
    <2>4. CASE GrantNext
        <3>1. PICK h \in Requests : \E r \in GrantRecord : GrantMove(h, r)
            BY <2>4, GrantMoves
        <3>2. PICK r \in GrantRecord : GrantMove(h, r)
            BY <3>1
        <3>3. g \in Requests /\ grants[g] # Nil /\ DOMAIN grants = Requests
            BY DEF IInv, TypeOK, Entries
        <3>4. CASE g = h
            BY <3>2, <3>3, <3>4 DEF GrantMove
        <3>5. CASE g # h
            BY <3>2, <3>3, <3>5 DEF GrantMove
        <3> QED
            BY <3>4, <3>5
    <2>5. CASE \E now_ms \in Times : tick(now_ms)
        <3>1. \/ Invalidated(grants[g].state, grants'[g].state)
              \/ holds_capacity(grants[g].state) /\ grants'[g].state = "Expired"
            BY <2>5, TickInvalidates
        <3>2. holds_capacity(grants[g].state) /\ grants'[g].state = "Expired"
                => can_transition(grants[g].state, grants'[g].state)
            BY DEF holds_capacity, can_transition
        <3> QED
            BY <2>1, <3>1, <3>2
    <2> QED
        BY <2>2, <2>3, <2>4, <2>5 DEF Next, Request
<1> HIDE DEF Legal
<1>2. Spec => [][Legal]_vars
    BY <1>1, IInvAlways, PTL DEF Spec
<1> QED
    BY <1>2 DEF Legal, TransitionsLegal

\* A change of the epoch, the policy, a path or an incarnation frees no capacity
\* and takes none: what the process on the other side may still be using stays
\* accounted for until it is retired, cancelled or expires.
THEOREM InvalidationKeepsCapacity == Spec => InvalidationNeverReleases
<1> DEFINE Change == \/ epoch' # epoch \/ policy' # policy \/ paths' # paths
                     \/ \E s \in Entries(sites) : sites'[s].incarnation # sites[s].incarnation
           Kept == \A g \in Entries(grants) :
                        holds_capacity(grants'[g].state) <=> holds_capacity(grants[g].state)
<1>1. IInv /\ [Next]_vars => [Change => Kept]_vars
    <2> SUFFICES ASSUME IInv, Next, Change PROVE Kept
        OBVIOUS
    <2>1. CASE ConfigNext \/ SiteNext \/ PathNext
        <3> SUFFICES ASSUME NEW g \in Entries(grants)
                     PROVE  holds_capacity(grants'[g].state) <=> holds_capacity(grants[g].state)
            OBVIOUS
        <3>1. Invalidated(grants[g].state, grants'[g].state)
            BY <2>1, RequestsInvalidate
        <3> QED
            BY <3>1 DEF Invalidated, holds_capacity, authorised
    <2>2. CASE OversubscriptionNext
        BY <2>2 DEF OversubscriptionNext, issue_oversubscription
    <2>3. CASE GrantNext
        BY <2>3, GrantMoves DEF GrantMove
    <2>4. CASE \E now_ms \in Times : tick(now_ms)
        BY <2>4, TickInvalidates
    <2> QED
        BY <2>1, <2>2, <2>3, <2>4 DEF Next, Request
<1> HIDE DEF Change, Kept
<1>2. Spec => [][Change => Kept]_vars
    BY <1>1, IInvAlways, PTL DEF Spec
<1> QED
    BY <1>2 DEF Change, Kept, InvalidationNeverReleases

==============================================================================
