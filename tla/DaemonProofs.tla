----------------------------- MODULE DaemonProofs -----------------------------
(***************************************************************************)
(* Proofs about the daemon's commit pipeline and its recovery, for every   *)
(* number of sites, paths and grants, every set of inputs and every point  *)
(* at which the process may die.                                           *)
(***************************************************************************)
EXTENDS Daemon, AllocationProofs

------------------------------------------------------------------------------
(* The inductive invariant *)

\* The invariant of the authority, of tables on disk.
SoundReferences(d) ==
    /\ \A p \in Entries(d.paths) :
            /\ d.sites[d.paths[p].endpoint_a] # Nil
            /\ d.sites[d.paths[p].endpoint_b] # Nil
            /\ d.paths[p].shared_risk_domain \in d.domains
    /\ \A g \in Entries(d.grants) :
            /\ d.sites[d.grants[g].holder] # Nil
            /\ d.paths[d.grants[g].path] # Nil

SoundBindings(d) ==
    \A g \in Entries(d.grants) :
        LET r == d.grants[g] IN
        authorised(r.state) =>
            /\ r.epoch = d.epoch
            /\ r.holder_incarnation = d.sites[r.holder].incarnation
            /\ r.policy_generation = d.policy.generation
            /\ r.path_generation = d.paths[r.path].generation
            /\ r.capacity_generation = d.paths[r.path].capacity_generation

SoundOutages(d) ==
    \A p \in Entries(d.paths) : d.paths[p].unavailable <= d.paths[p].authoritative_usable

SoundSites(d) ==
    \A g \in Entries(d.grants) :
        site_requires_degradation(d.sites[d.grants[g].holder].state)
            => d.grants[g].state \notin {"Reserved", "Active"}

Sound(d) ==
    /\ d \in Images
    /\ SoundReferences(d)
    /\ SoundBindings(d)
    /\ SoundOutages(d)
    /\ SoundSites(d)

\* Two records of a grant differ in nothing a restart keeps.
SameGrant(r, s) == Lasting(r) = Lasting(s)

\* The tables on disk are those planned, but for verification and ambiguity.
Matches(d) ==
    /\ d.epoch = epoch /\ d.policy = policy
    /\ d.sites = sites /\ d.paths = paths
    /\ d.domains = domains /\ d.attestations = attestations
    /\ d.oversubscriptions = oversubscriptions
    /\ d.verifications = verifications
    /\ \A g \in Requests : SameGrant(d.grants[g], grants[g])

\* Every grant that holds capacity in d holds it in e.
Keeps(d, e) ==
    \A g \in Entries(d.grants) :
        holds_capacity(d.grants[g].state)
            => e.grants[g] # Nil /\ holds_capacity(e.grants[g].state)

DInv ==
    /\ IInv
    /\ Sound(durable)
    /\ daemon = "Serving" /\ ~durability_failed => Matches(durable)
    /\ daemon \in {"Logged", "Applied"} => Sound(pending.committed) /\ Matches(pending.committed)
    /\ pending # Nil => Sound(pending.ambiguous) /\ Keeps(durable, pending.ambiguous)

------------------------------------------------------------------------------
(* What a request does to the tables *)

\* No request removes a grant: plan_* never returns a deletion.
LEMMA EntriesStay ==
    ASSUME IInv, Request, NEW g \in Entries(grants)
    PROVE  grants'[g] \in GrantRecord
<1>1. g \in Requests /\ grants[g] \in GrantRecord
    BY DEF IInv, TypeOK, Entries
<1>2. \A st \in GrantState : \A v \in VerificationState :
            /\ [grants[g] EXCEPT !.state = st] \in GrantRecord
            /\ [grants[g] EXCEPT !.state = st, !.verification = v] \in GrantRecord
    BY <1>1, GrantStateType
<1>3. /\ [grants[g] EXCEPT !.state = "Withdrawing"] \in GrantRecord
      /\ [grants[g] EXCEPT !.state = "Withdrawing", !.verification = "Unverified"] \in GrantRecord
      /\ [grants[g] EXCEPT !.state = "Expired"] \in GrantRecord
      /\ Downgraded(grants[g]) \in GrantRecord
    BY <1>1, <1>2, DowngradedType DEF GrantState, VerificationState
<1>4. ASSUME NEW pol \in Policies, install_policy(pol) PROVE grants'[g] \in GrantRecord
    <2> DEFINE b == [grants[g] EXCEPT !.policy_generation = pol.generation]
               p == grants[g].path
    <2>1. grants'[g] = Rebalanced(g, p, paths[p], pol, 0, b)
        BY <1>1, <1>4 DEF install_policy, Updated
    <2>2. b \in GrantRecord
        BY <1>1, InputAssumption, PolicyBoundType
    <2> HIDE DEF b
    <2> QED
        BY <1>1, <1>3, <2>1, <2>2, RebalancedCases
<1>5. ASSUME NEW e \in Epochs, bump_epoch(e) PROVE grants'[g] \in GrantRecord
    BY <1>1, <1>3, <1>5 DEF bump_epoch, Updated
<1>6. ASSUME NEW s \in Sites, NEW inc \in Incarnations, NEW e \in Epochs, NEW now_ms \in Times,
             register_site(s, inc, e, now_ms)
      PROVE  grants'[g] \in GrantRecord
    BY <1>1, <1>3, <1>6 DEF register_site, register_new_site, register_same_incarnation,
                            register_new_incarnation, Updated
<1>7. ASSUME NEW s \in Sites, NEW inc \in Incarnations, NEW e \in Epochs,
             NEW gen \in SiteGenerations, NEW now_ms \in Times, heartbeat(s, inc, e, gen, now_ms)
      PROVE  grants'[g] \in GrantRecord
    BY <1>1, <1>7 DEF heartbeat
<1>8. ASSUME NEW s \in Sites, NEW state \in SiteStateInputs, set_site_state(s, state)
      PROVE  grants'[g] \in GrantRecord
    BY <1>1, <1>3, <1>8 DEF set_site_state, Updated
<1>9. ASSUME NEW p \in Paths, NEW a \in Sites, NEW b \in Sites, NEW d \in Domains,
             NEW state \in PathStateInputs, register_new_path(p, a, b, d, state)
      PROVE  grants'[g] \in GrantRecord
    BY <1>1, <1>9 DEF register_new_path
<1>10. ASSUME NEW p, NEW rec \in PathRecord, NEW now_ms,
              grants' = [h \in Requests |->
                            IF h \in GrantsAt(p)
                            THEN Rebalanced(h, p, rec, policy, now_ms, PathBound(grants[h], rec))
                            ELSE grants[h]]
       PROVE  grants'[g] \in GrantRecord
    <2> DEFINE b == PathBound(grants[g], rec)
    <2>1. b \in GrantRecord
        BY <1>1, PathBoundType
    <2>2. grants'[g] \in {grants[g], Rebalanced(g, p, rec, policy, now_ms, b)}
        BY <1>1, <1>10
    <2> HIDE DEF b
    <2> QED
        BY <1>1, <1>3, <2>1, <2>2, RebalancedCases
<1>11. ASSUME NEW p \in Paths, NEW a \in Sites, NEW b \in Sites, NEW d \in Domains,
              NEW gen \in PathGenerations, NEW state \in PathStateInputs, NEW now_ms \in Times,
              reregister_path(p, a, b, d, gen, state, now_ms)
       PROVE  grants'[g] \in GrantRecord
    <2> DEFINE rec == [paths[p] EXCEPT !.shared_risk_domain = d, !.endpoint_a = a,
                                       !.endpoint_b = b, !.generation = gen, !.state = state]
    <2>1. grants' = [h \in Requests |->
                        IF h \in GrantsAt(p)
                        THEN Rebalanced(h, p, rec, policy, now_ms, PathBound(grants[h], rec))
                        ELSE grants[h]]
        BY <1>11 DEF reregister_path, Updated
    <2>2. paths[p] \in PathRecord
        BY <1>11 DEF reregister_path, IInv, TypeOK
    <2>3. rec \in PathRecord
        BY <2>2, InputAssumption DEF PathRecord
    <2> HIDE DEF rec
    <2> QED
        BY <1>10, <2>1, <2>3
<1>12. ASSUME NEW p \in Paths, NEW id \in AttestationIds, NEW e \in Epochs,
              NEW pathGen \in PathGenerations, NEW capGen \in CapacityGenerations,
              NEW usable \in Usables, NEW now_ms \in Times,
              attest_capacity(id, p, e, pathGen, capGen, usable, now_ms)
       PROVE  grants'[g] \in GrantRecord
    <2> DEFINE rec == Attested(paths[p], capGen, usable)
    <2>1. grants' = [h \in Requests |->
                        IF h \in GrantsAt(p)
                        THEN Rebalanced(h, p, rec, policy, now_ms, PathBound(grants[h], rec))
                        ELSE grants[h]]
        BY <1>12 DEF attest_capacity, Updated
    <2>2. paths[p] \in PathRecord
        BY <1>12 DEF attest_capacity, IInv, TypeOK
    <2>3. usable \in Nat /\ capGen \in Nat
        BY InputAssumption, CapacityAssumption DEF Amount
    <2>4. rec \in PathRecord
        BY <2>2, <2>3 DEF PathRecord, Attested, min_amount
    <2> HIDE DEF rec
    <2> QED
        BY <1>10, <2>1, <2>4
<1>13. ASSUME NEW p \in Paths, NEW state \in PathStateInputs, NEW now_ms \in Times,
              set_path_state(p, state, now_ms)
       PROVE  grants'[g] \in GrantRecord
    BY <1>1, <1>3, <1>13 DEF set_path_state, Updated
<1>14. CASE ConfigNext
    BY <1>4, <1>5, <1>14 DEF ConfigNext
<1>15. CASE SiteNext
    BY <1>6, <1>7, <1>8, <1>15 DEF SiteNext
<1>16. CASE PathNext
    BY <1>9, <1>11, <1>12, <1>13, <1>16 DEF PathNext
<1>17. CASE OversubscriptionNext
    BY <1>1, <1>17 DEF OversubscriptionNext, issue_oversubscription
<1>18. CASE GrantNext
    <2>1. PICK h \in Requests : \E r \in GrantRecord : GrantMove(h, r)
        BY <1>18, GrantMoves
    <2> QED
        BY <1>1, <2>1 DEF GrantMove, IInv, TypeOK
<1>19. CASE \E now_ms \in Times : tick(now_ms)
    BY <1>1, <1>3, <1>19 DEF tick, Updated
<1> QED
    BY <1>14, <1>15, <1>16, <1>17, <1>18, <1>19 DEF Request

\* Domains, attestations and verifications are only ever added.
LEMMA TablesGrow ==
    ASSUME IInv, Request
    PROVE  /\ domains \subseteq domains' /\ attestations \subseteq attestations'
           /\ verifications \subseteq verifications'
<1> DEFINE Grow == /\ domains \subseteq domains' /\ attestations \subseteq attestations'
                   /\ verifications \subseteq verifications'
<1> SUFFICES Grow
    OBVIOUS
<1>1. ASSUME UNCHANGED <<domains, attestations, verifications>> PROVE Grow
    BY <1>1
<1>2. CASE ConfigNext
    BY <1>1, <1>2 DEF ConfigNext, install_policy, bump_epoch
<1>3. CASE SiteNext
    BY <1>1, <1>3, SiteFrame
<1>4. CASE PathNext
    <2>1. ASSUME NEW p, NEW a, NEW b, NEW d, NEW state, register_new_path(p, a, b, d, state)
          PROVE  Grow
        BY <2>1 DEF register_new_path
    <2>2. ASSUME NEW p, NEW a, NEW b, NEW d, NEW gen, NEW state, NEW now_ms,
                 reregister_path(p, a, b, d, gen, state, now_ms)
          PROVE  Grow
        BY <2>2 DEF reregister_path
    <2>3. ASSUME NEW p, NEW state, NEW now_ms, set_path_state(p, state, now_ms) PROVE Grow
        BY <2>3 DEF set_path_state
    <2>4. ASSUME NEW p, NEW id, NEW e, NEW pathGen, NEW capGen, NEW usable, NEW now_ms,
                 attest_capacity(id, p, e, pathGen, capGen, usable, now_ms)
          PROVE  Grow
        BY <2>4 DEF attest_capacity
    <2> HIDE DEF Grow
    <2> QED
        BY <1>4, <2>1, <2>2, <2>3, <2>4 DEF PathNext
<1>5. CASE OversubscriptionNext
    BY <1>1, <1>5 DEF OversubscriptionNext, issue_oversubscription
<1>6. CASE GrantNext
    <2>1. ASSUME NEW g, NEW r, SetGrant(g, r) PROVE Grow
        BY <2>1 DEF SetGrant
    <2>2. ASSUME NEW g, NEW s, NEW inc, NEW gen, NEW p, NEW class, NEW amount, NEW duration,
                 NEW lease, NEW now_ms,
                 propose_grant(g, s, inc, gen, p, class, amount, duration, lease, now_ms)
          PROVE  Grow
        BY <2>2 DEF propose_grant
    <2>3. ASSUME NEW g, NEW op,
                 \/ evaluate_grant(g, op) \/ reserve_grant(g, op) \/ activate_grant(g, op)
                 \/ degrade_grant(g, op) \/ withdraw_grant(g, op) \/ retire_grant(g, op)
                 \/ cancel_grant(g, op) \/ acknowledge_grant(g, op)
          PROVE  \E r : SetGrant(g, r)
        BY <2>3 DEF evaluate_grant, reserve_grant, activate_grant, degrade_grant,
                    withdraw_grant, retire_grant, cancel_grant, acknowledge_grant
    <2>4. ASSUME NEW g, NEW id, NEW result, verify_grant(g, id, result) PROVE Grow
        BY <2>4 DEF verify_grant
    <2>5. ASSUME NEW g, NEW target, reconcile_grant(g, target) PROVE \E r : SetGrant(g, r)
        BY <2>5 DEF reconcile_grant, reconcile_active, reconcile_retired
    <2> HIDE DEF Grow
    <2> QED
        BY <1>6, <2>1, <2>2, <2>3, <2>4, <2>5 DEF GrantNext
<1>7. CASE \E now_ms \in Times : tick(now_ms)
    BY <1>1, <1>7 DEF tick
<1> QED
    BY <1>2, <1>3, <1>4, <1>5, <1>6, <1>7 DEF Request

\* What a request that gives capacity back leaves alone: everything the other
\* grants are bound to.  Only retirement, cancellation, reconciliation and the
\* passage of time give capacity back.
LEMMA ReleaseFrame ==
    ASSUME IInv, Request, NEW g \in Entries(grants), releases_capacity(grants[g], grants'[g])
    PROVE  /\ UNCHANGED <<epoch, policy, paths>>
           /\ \A s \in Entries(sites) : /\ sites'[s] \in SiteRecord
                                        /\ sites'[s].incarnation = sites[s].incarnation
<1>1. ASSUME Invalidated(grants[g].state, grants'[g].state) PROVE FALSE
    BY <1>1 DEF Invalidated, releases_capacity
<1>2. ASSUME NEW s \in Entries(sites) PROVE sites[s] \in SiteRecord
    BY DEF Entries, IInv, TypeOK
<1>3. CASE ConfigNext \/ SiteNext \/ PathNext
    BY <1>1, <1>3, RequestsInvalidate
<1>4. CASE OversubscriptionNext
    BY <1>4 DEF OversubscriptionNext, issue_oversubscription, releases_capacity
<1>5. CASE GrantNext
    BY <1>2, <1>5, GrantMoves DEF GrantMove
<1>6. CASE \E now_ms \in Times : tick(now_ms)
    <2>1. ASSUME NEW s \in Entries(sites) PROVE sites'[s] \in SiteRecord
        <3>1. s \in Sites /\ sites[s] \in SiteRecord
            BY DEF Entries, IInv, TypeOK
        <3>2. \/ sites'[s] = sites[s]
              \/ \E st \in {"Down", "Degraded"} : sites'[s] = [sites[s] EXCEPT !.state = st]
            BY <1>6, <3>1 DEF tick
        <3> QED
            BY <3>1, <3>2 DEF SiteRecord, SiteState
    <2> QED
        BY <1>6, <2>1, TickInvalidates
<1> QED
    BY <1>3, <1>4, <1>5, <1>6 DEF Request

\* A grant that holds capacity and changes without giving it back holds it still.
LEMMA HeldUnlessReleased ==
    ASSUME IInv, Request, NEW g \in Entries(grants), holds_capacity(grants[g].state),
           ~releases_capacity(grants[g], grants'[g])
    PROVE  holds_capacity(grants'[g].state)
<1>1. ASSUME Invalidated(grants[g].state, grants'[g].state)
      PROVE  holds_capacity(grants'[g].state)
    BY <1>1 DEF Invalidated, holds_capacity, authorised
<1>2. grants[g] # Nil /\ g \in Requests
    BY DEF Entries, IInv, TypeOK
<1>3. CASE ConfigNext \/ SiteNext \/ PathNext
    BY <1>1, <1>3, RequestsInvalidate
<1>4. CASE OversubscriptionNext
    BY <1>4 DEF OversubscriptionNext, issue_oversubscription
<1>5. CASE GrantNext
    <2>1. PICK h \in Requests : \E r \in GrantRecord : GrantMove(h, r)
        BY <1>5, GrantMoves
    <2>2. PICK r \in GrantRecord : GrantMove(h, r)
        BY <2>1
    <2>3. CASE g # h
        BY <1>2, <2>2, <2>3 DEF GrantMove, IInv, TypeOK
    <2>4. CASE g = h
        <3>1. grants'[g] = r
            BY <1>2, <2>2, <2>4 DEF GrantMove, IInv, TypeOK
        <3>2. CASE can_transition(grants[g].state, r.state)
            BY <1>2, <3>1, <3>2 DEF can_transition, releases_capacity, holds_capacity
        <3>3. CASE \E target \in ReconcileTargets : reconcile_grant(g, target)
            <4>1. grants[g] \in GrantRecord /\ Rebound(grants[g]) \in GrantRecord
                <5>1. sites[grants[g].holder] # Nil /\ paths[grants[g].path] # Nil
                    BY DEF IInv, ReferencesExist
                <5> QED
                    BY <5>1, GrantLookup, ReboundType DEF IInv
            <4>2. CASE reconcile_active(g)
                <5> DEFINE q == [Rebound(grants[g]) EXCEPT !.state = "Active",
                                        !.verification = "Unverified", !.ambiguous = FALSE]
                <5>1. q.state = "Active"
                    BY <4>1 DEF GrantRecord
                <5>2. grants'[g] = q
                    BY <1>2, <4>2 DEF reconcile_active, SetGrant, IInv, TypeOK
                <5> HIDE DEF q
                <5> QED
                    BY <5>1, <5>2 DEF holds_capacity
            <4>3. CASE reconcile_retired(g)
                <5> DEFINE q == [grants[g] EXCEPT !.state = "Retired",
                                        !.verification = "Unverified", !.ambiguous = FALSE]
                <5>1. q.state = "Retired"
                    BY <4>1 DEF GrantRecord
                <5>2. grants'[g] = q
                    BY <1>2, <4>3 DEF reconcile_retired, SetGrant, IInv, TypeOK
                <5> HIDE DEF q
                <5> QED
                    BY <1>2, <5>1, <5>2 DEF holds_capacity, releases_capacity
            <4> QED
                BY <3>3, <4>2, <4>3 DEF reconcile_grant
        <3> QED
            BY <1>2, <2>2, <2>4, <3>1, <3>2, <3>3 DEF GrantMove
    <2> QED
        BY <2>3, <2>4
<1>6. CASE \E now_ms \in Times : tick(now_ms)
    <2>1. \/ Invalidated(grants[g].state, grants'[g].state)
          \/ grants'[g].state = "Expired"
        BY <1>6, TickInvalidates
    <2> QED
        BY <1>1, <1>2, <2>1 DEF releases_capacity, holds_capacity
<1> QED
    BY <1>3, <1>4, <1>5, <1>6 DEF Request

------------------------------------------------------------------------------
(* Tables on disk *)

\* Recovering a grant twice is recovering it once.
LEMMA RecoveredTwice ==
    ASSUME NEW r \in GrantRecord, NEW b \in BOOLEAN
    PROVE  /\ mark_recovered(r, b) \in GrantRecord
           /\ mark_recovered(mark_recovered(r, b), FALSE) = mark_recovered(r, FALSE)
BY DEF mark_recovered, GrantRecord, VerificationState

\* The fields of a grant that the check is about, but for its verification.
SameFields(r, s) ==
    /\ r.holder = s.holder /\ r.holder_incarnation = s.holder_incarnation
    /\ r.path = s.path /\ r.path_generation = s.path_generation
    /\ r.capacity_generation = s.capacity_generation
    /\ r.policy_generation = s.policy_generation /\ r.epoch = s.epoch
    /\ r.grant_class = s.grant_class /\ r.amount = s.amount /\ r.lease = s.lease
    /\ r.state = s.state

\* Recovering a grant leaves those fields as they were.
LEMMA RecoveredSame ==
    ASSUME NEW r \in GrantRecord, NEW b \in BOOLEAN
    PROVE  /\ mark_recovered(r, b) \in GrantRecord
           /\ SameFields(mark_recovered(r, b), r)
           /\ SameGrant(mark_recovered(r, b), r)
<1>1. mark_recovered(r, b) \in GrantRecord
    BY RecoveredTwice
<1>2. SameFields(mark_recovered(r, b), r)
    BY DEF mark_recovered, GrantRecord, SameFields
<1>3. r # Nil /\ mark_recovered(r, b) # Nil
    BY <1>1, NilAssumption
<1>4. Lasting(mark_recovered(r, b)) = Lasting(r)
    BY <1>3, RecoveredTwice DEF Lasting
<1> QED
    BY <1>1, <1>2, <1>4 DEF SameGrant

\* Two records that a restart does not tell apart have those fields in common.
LEMMA SameGrantFields ==
    ASSUME NEW r \in GrantRecord \cup {Nil}, NEW s \in GrantRecord \cup {Nil}, SameGrant(r, s)
    PROVE  /\ r = Nil <=> s = Nil
           /\ r # Nil => SameFields(r, s)
<1>1. ASSUME NEW q \in GrantRecord
      PROVE  /\ q # Nil /\ Lasting(q) \in GrantRecord /\ Lasting(q) # Nil
             /\ SameFields(Lasting(q), q)
    BY NilAssumption, RecoveredSame DEF Lasting
<1>2. Lasting(Nil) = Nil
    BY DEF Lasting
<1>3. Lasting(r) = Lasting(s)
    BY DEF SameGrant
<1>4. r = Nil <=> s = Nil
    BY <1>1, <1>2, <1>3
<1>5. ASSUME r # Nil PROVE SameFields(r, s)
    <2>1. SameFields(Lasting(r), r) /\ SameFields(Lasting(s), s)
        BY <1>1, <1>4, <1>5
    <2> QED
        BY <1>3, <2>1 DEF SameFields
<1> QED
    BY <1>4, <1>5

\* Tables on disk that match those planned are as sound as these are.
LEMMA MatchesSound ==
    IInv => \A d \in Images : Matches(d) => Sound(d)
<1> SUFFICES ASSUME IInv, NEW d \in Images, Matches(d) PROVE Sound(d)
    OBVIOUS
<1>1. /\ d.epoch = epoch /\ d.policy = policy /\ d.sites = sites /\ d.paths = paths
      /\ d.domains = domains
    BY DEF Matches
<1>2. d.grants \in [Requests -> GrantRecord \cup {Nil}]
    BY DEF Images
<1>3. ASSUME NEW g \in Entries(d.grants)
      PROVE  g \in Entries(grants) /\ SameFields(d.grants[g], grants[g])
    <2>1. g \in Requests /\ d.grants[g] \in GrantRecord /\ d.grants[g] # Nil
        BY <1>2 DEF Entries
    <2>2. SameGrant(d.grants[g], grants[g])
        BY <2>1 DEF Matches
    <2>3. grants \in [Requests -> GrantRecord \cup {Nil}]
        BY DEF IInv, TypeOK
    <2> QED
        BY <2>1, <2>2, <2>3, SameGrantFields DEF Entries
<1>4. SoundReferences(d)
    <2>1. ReferencesExist
        BY DEF IInv
    <2> QED
        BY <1>1, <1>3, <2>1 DEF SoundReferences, ReferencesExist, SameFields
<1>5. SoundBindings(d)
    <2>1. AuthorisedBindingCurrent
        BY DEF IInv
    <2> QED
        BY <1>1, <1>3, <2>1 DEF SoundBindings, AuthorisedBindingCurrent, BindingCurrent, SameFields
<1>6. SoundOutages(d)
    BY <1>1 DEF SoundOutages, IInv, UnavailableWithinUsable
<1>7. SoundSites(d)
    <2>1. LostSiteIdle
        BY DEF IInv
    <2> QED
        BY <1>1, <1>3, <2>1 DEF SoundSites, LostSiteIdle, SameFields
<1> QED
    BY <1>4, <1>5, <1>6, <1>7 DEF Sound

\* The same after a step.
LEMMA MatchesSoundNext ==
    (IInv => \A d \in Images : Matches(d) => Sound(d))'
BY MatchesSound, PTL

\* Replaying an intent onto tables that matched memory gives every table but the
\* grants as the request left it.
LEMMA ReplayedTables ==
    ASSUME IInv, IInv', Request, durable \in Images, Matches(durable), NEW a \in BOOLEAN
    PROVE  /\ apply_replay(a).epoch = epoch' /\ apply_replay(a).policy = policy'
           /\ apply_replay(a).sites = sites' /\ apply_replay(a).paths = paths'
           /\ apply_replay(a).domains = domains'
           /\ apply_replay(a).attestations = attestations'
           /\ apply_replay(a).oversubscriptions = oversubscriptions'
           /\ apply_replay(a).verifications = verifications'
           /\ apply_replay(a).grants = [g \in Requests |-> ReplayedGrant(g, a)]
           /\ [g \in Requests |-> ReplayedGrant(g, a)] \in [Requests -> GrantRecord \cup {Nil}]
                => apply_replay(a) \in Images
<1>1. /\ durable.epoch = epoch /\ durable.policy = policy
      /\ durable.sites = sites /\ durable.paths = paths
      /\ durable.domains = domains /\ durable.attestations = attestations
      /\ durable.oversubscriptions = oversubscriptions
      /\ durable.verifications = verifications
    BY DEF Matches
<1>2. TypeOK /\ TypeOK'
    BY DEF IInv
<1>3. ASSUME NEW K, NEW old, NEW new, DOMAIN old = K, DOMAIN new = K,
             new = [k \in K |-> new[k]]
      PROVE  Replayed(old, old, new) = new
    BY <1>3 DEF Replayed
<1>4. Replayed(durable.sites, sites, sites') = sites'
    BY <1>1, <1>2, <1>3 DEF TypeOK
<1>5. Replayed(durable.paths, paths, paths') = paths'
    BY <1>1, <1>2, <1>3 DEF TypeOK
<1>6. Replayed(durable.oversubscriptions, oversubscriptions, oversubscriptions')
            = oversubscriptions'
    BY <1>1, <1>2, <1>3 DEF TypeOK
<1>7. /\ durable.domains \cup domains' = domains'
      /\ durable.attestations \cup attestations' = attestations'
      /\ durable.verifications \cup verifications' = verifications'
    BY <1>1, TablesGrow
<1>8. apply_replay(a) =
        [epoch |-> epoch', policy |-> policy', sites |-> sites', paths |-> paths',
         domains |-> domains', attestations |-> attestations',
         oversubscriptions |-> oversubscriptions',
         grants |-> [g \in Requests |-> ReplayedGrant(g, a)],
         verifications |-> verifications']
    BY <1>1, <1>4, <1>5, <1>6, <1>7 DEF apply_replay
<1> QED
    BY <1>2, <1>8 DEF Images, TypeOK

\* Of a completed intent, every change to a grant is replayed.
LEMMA ReplayedCommitted ==
    ASSUME IInv, IInv', Request, durable \in Images, Matches(durable), NEW g \in Requests
    PROVE  /\ ReplayedGrant(g, FALSE) \in GrantRecord \cup {Nil}
           /\ SameGrant(ReplayedGrant(g, FALSE), grants'[g])
<1>1. /\ durable.grants[g] \in GrantRecord \cup {Nil}
      /\ grants[g] \in GrantRecord \cup {Nil} /\ grants'[g] \in GrantRecord \cup {Nil}
      /\ SameGrant(durable.grants[g], grants[g])
    BY DEF Images, IInv, TypeOK, Matches
<1>2. CASE grants'[g] = grants[g]
    BY <1>1, <1>2 DEF ReplayedGrant
<1>3. CASE grants'[g] # grants[g]
    <2>1. grants[g] # Nil => g \in Entries(grants)
        BY DEF Entries, IInv, TypeOK
    <2>2. grants'[g] \in GrantRecord
        BY <1>1, <1>3, <2>1, EntriesStay
    <2>3. ReplayedGrant(g, FALSE) = mark_recovered(grants'[g], FALSE)
        BY <1>3 DEF ReplayedGrant
    <2> QED
        BY <2>2, <2>3, RecoveredSame
<1> QED
    BY <1>2, <1>3

\* Of an intent that was never completed, a change to a grant is replayed unless
\* it gives capacity back; then the grant stays as it was, or is downgraded when
\* its holder was lost by the same request.
LEMMA ReplayedAmbiguous ==
    ASSUME IInv, IInv', Request, durable \in Images, Matches(durable), NEW g \in Requests
    PROVE  /\ ReplayedGrant(g, TRUE) \in GrantRecord \cup {Nil}
           /\ \/ ReplayedGrant(g, TRUE) = Nil /\ grants[g] = Nil
              \/ /\ grants'[g] # Nil /\ SameFields(ReplayedGrant(g, TRUE), grants'[g])
                 /\ grants[g] = Nil \/ ~releases_capacity(grants[g], grants'[g])
              \/ /\ grants[g] # Nil /\ releases_capacity(grants[g], grants'[g])
                 /\ \/ /\ sites'[grants[g].holder] = sites[grants[g].holder]
                       /\ SameFields(ReplayedGrant(g, TRUE), grants[g])
                    \/ SameFields(ReplayedGrant(g, TRUE), Downgraded(grants[g]))
<1>1. /\ durable.grants[g] \in GrantRecord \cup {Nil}
      /\ grants[g] \in GrantRecord \cup {Nil} /\ grants'[g] \in GrantRecord \cup {Nil}
      /\ SameGrant(durable.grants[g], grants[g])
    BY DEF Images, IInv, TypeOK, Matches
<1>2. /\ durable.grants[g] = Nil <=> grants[g] = Nil
      /\ grants[g] # Nil => SameFields(durable.grants[g], grants[g])
    BY <1>1, SameGrantFields
<1>3. grants[g] # Nil => g \in Entries(grants)
    BY DEF Entries, IInv, TypeOK
<1>4. CASE grants'[g] = grants[g]
    BY <1>1, <1>2, <1>4 DEF ReplayedGrant, releases_capacity
<1>5. CASE grants'[g] # grants[g] /\ ~releases_capacity(grants[g], grants'[g])
    <2>1. grants'[g] \in GrantRecord /\ grants'[g] # Nil
        BY <1>1, <1>3, <1>5, EntriesStay, NilAssumption
    <2>2. ReplayedGrant(g, TRUE) = mark_recovered(grants'[g], TRUE)
        BY <1>5 DEF ReplayedGrant
    <2> QED
        BY <1>5, <2>1, <2>2, RecoveredSame
<1>6. CASE grants'[g] # grants[g] /\ releases_capacity(grants[g], grants'[g])
    <2>1. grants[g] # Nil /\ grants[g] \in GrantRecord /\ durable.grants[g] \in GrantRecord
        BY <1>1, <1>2, <1>6 DEF releases_capacity
    <2>2. CASE sites'[grants[g].holder] # sites[grants[g].holder]
        <3>1. ReplayedGrant(g, TRUE) = mark_recovered(Downgraded(grants[g]), TRUE)
            BY <1>6, <2>2 DEF ReplayedGrant
        <3>2. Downgraded(grants[g]) \in GrantRecord
            BY <2>1, DowngradedType
        <3> QED
            BY <1>6, <2>1, <3>1, <3>2, RecoveredSame
    <2>3. CASE sites'[grants[g].holder] = sites[grants[g].holder]
        <3>1. ReplayedGrant(g, TRUE) = mark_recovered(durable.grants[g], TRUE)
            BY <1>6, <2>3 DEF ReplayedGrant
        <3>2. SameFields(ReplayedGrant(g, TRUE), durable.grants[g])
            BY <2>1, <3>1, RecoveredSame
        <3>3. SameFields(ReplayedGrant(g, TRUE), grants[g])
            BY <1>2, <2>1, <3>2 DEF SameFields
        <3> QED
            BY <1>6, <2>1, <2>3, <3>1, <3>3, RecoveredSame
    <2> QED
        BY <2>2, <2>3
<1> QED
    BY <1>4, <1>5, <1>6

\* Resolving an uncompleted intent conservatively builds sound tables: what is
\* left out depends on nothing the request changed, but for the loss of its
\* holder, and then it is downgraded.
LEMMA AmbiguousSound ==
    ASSUME IInv, IInv', Request, durable \in Images, Matches(durable)
    PROVE  Sound(apply_replay(TRUE)) /\ Keeps(durable, apply_replay(TRUE))
<1> DEFINE d == apply_replay(TRUE)
           R(g) == ReplayedGrant(g, TRUE)
<1>1. /\ d.epoch = epoch' /\ d.policy = policy' /\ d.sites = sites' /\ d.paths = paths'
      /\ d.domains = domains' /\ d.grants = [g \in Requests |-> R(g)]
    BY ReplayedTables
<1>2. d \in Images
    <2>1. \A g \in Requests : R(g) \in GrantRecord \cup {Nil}
        BY ReplayedAmbiguous
    <2>2. [g \in Requests |-> R(g)] \in [Requests -> GrantRecord \cup {Nil}]
        BY <2>1
    <2> QED
        BY <2>2, ReplayedTables
<1> HIDE DEF d, R
<1>3. ASSUME NEW g \in Requests, grants'[g] # Nil
      PROVE  /\ grants'[g] \in GrantRecord
             /\ sites'[grants'[g].holder] # Nil /\ paths'[grants'[g].path] # Nil
             /\ authorised(grants'[g].state) =>
                  /\ grants'[g].epoch = epoch'
                  /\ grants'[g].holder_incarnation = sites'[grants'[g].holder].incarnation
                  /\ grants'[g].policy_generation = policy'.generation
                  /\ grants'[g].path_generation = paths'[grants'[g].path].generation
                  /\ grants'[g].capacity_generation = paths'[grants'[g].path].capacity_generation
             /\ site_requires_degradation(sites'[grants'[g].holder].state)
                    => grants'[g].state \notin {"Reserved", "Active"}
    <2>1. g \in Entries(grants)' /\ grants'[g] \in GrantRecord
        BY <1>3 DEF Entries, IInv, TypeOK
    <2>2. ReferencesExist' /\ AuthorisedBindingCurrent' /\ LostSiteIdle'
        BY DEF IInv
    <2>3. sites'[grants'[g].holder] # Nil /\ paths'[grants'[g].path] # Nil
        BY <2>1, <2>2 DEF ReferencesExist
    <2>4. authorised(grants'[g].state) => BindingCurrent(grants[g])'
        BY <2>1, <2>2 DEF AuthorisedBindingCurrent
    <2>5. site_requires_degradation(sites'[grants'[g].holder].state)
                    => grants'[g].state \notin {"Reserved", "Active"}
        BY <2>1, <2>2 DEF LostSiteIdle
    <2> QED
        BY <2>1, <2>3, <2>4, <2>5 DEF BindingCurrent
<1>4. ASSUME NEW g \in Requests, grants[g] # Nil, releases_capacity(grants[g], grants'[g])
      PROVE  /\ grants[g] \in GrantRecord
             /\ UNCHANGED <<epoch, policy, paths>>
             /\ sites'[grants[g].holder] # Nil /\ paths'[grants[g].path] # Nil
             /\ sites'[grants[g].holder].incarnation = sites[grants[g].holder].incarnation
             /\ authorised(grants[g].state) => BindingCurrent(grants[g])
             /\ site_requires_degradation(sites[grants[g].holder].state)
                    => grants[g].state \notin {"Reserved", "Active"}
    <2>1. g \in Entries(grants)
        BY <1>4 DEF Entries, IInv, TypeOK
    <2>2. /\ grants[g] \in GrantRecord
          /\ grants[g].holder \in Sites /\ sites[grants[g].holder] \in SiteRecord
          /\ grants[g].path \in Paths /\ paths[grants[g].path] \in PathRecord
        BY <2>1, GrantLookup DEF IInv
    <2>3. grants[g].holder \in Entries(sites) /\ paths[grants[g].path] # Nil
        BY <2>2, NilAssumption DEF Entries, IInv, TypeOK
    <2>4. /\ UNCHANGED <<epoch, policy, paths>>
          /\ sites'[grants[g].holder] # Nil
          /\ sites'[grants[g].holder].incarnation = sites[grants[g].holder].incarnation
        BY <1>4, <2>1, <2>3, ReleaseFrame, NilAssumption
    <2> QED
        BY <2>1, <2>2, <2>3, <2>4 DEF IInv, AuthorisedBindingCurrent, LostSiteIdle
<1>5. ASSUME NEW g \in Entries(d.grants)
      PROVE  /\ d.sites[d.grants[g].holder] # Nil /\ d.paths[d.grants[g].path] # Nil
             /\ authorised(d.grants[g].state) =>
                  /\ d.grants[g].epoch = d.epoch
                  /\ d.grants[g].holder_incarnation = d.sites[d.grants[g].holder].incarnation
                  /\ d.grants[g].policy_generation = d.policy.generation
                  /\ d.grants[g].path_generation = d.paths[d.grants[g].path].generation
                  /\ d.grants[g].capacity_generation
                        = d.paths[d.grants[g].path].capacity_generation
             /\ site_requires_degradation(d.sites[d.grants[g].holder].state)
                    => d.grants[g].state \notin {"Reserved", "Active"}
    <2>1. g \in Requests /\ d.grants[g] = R(g) /\ R(g) # Nil
        BY <1>1 DEF Entries
    <2>2. CASE grants'[g] # Nil /\ SameFields(R(g), grants'[g])
        BY <1>1, <1>3, <2>1, <2>2 DEF SameFields
    <2>3. CASE /\ grants[g] # Nil /\ releases_capacity(grants[g], grants'[g])
               /\ sites'[grants[g].holder] = sites[grants[g].holder]
               /\ SameFields(R(g), grants[g])
        BY <1>1, <1>4, <2>1, <2>3 DEF SameFields, BindingCurrent
    <2>4. CASE /\ grants[g] # Nil /\ releases_capacity(grants[g], grants'[g])
               /\ SameFields(R(g), Downgraded(grants[g]))
        <3> DEFINE w == Downgraded(grants[g])
        <3>1. /\ w.holder = grants[g].holder
              /\ w.holder_incarnation = grants[g].holder_incarnation
              /\ w.path = grants[g].path
              /\ w.path_generation = grants[g].path_generation
              /\ w.capacity_generation = grants[g].capacity_generation
              /\ w.policy_generation = grants[g].policy_generation
              /\ w.epoch = grants[g].epoch
              /\ authorised(w.state) => authorised(grants[g].state)
              /\ w.state \notin {"Reserved", "Active"}
            BY <1>4, <2>1, <2>4, DowngradedFields
        <3> HIDE DEF w
        <3> QED
            BY <1>1, <1>4, <2>1, <2>4, <3>1 DEF SameFields, BindingCurrent, w
    <2> QED
        BY <2>1, <2>2, <2>3, <2>4, ReplayedAmbiguous DEF R
<1>6. SoundReferences(d)
    <2>1. ReferencesExist'
        BY DEF IInv
    <2> QED
        BY <1>1, <1>5, <2>1 DEF SoundReferences, ReferencesExist, Entries
<1>7. SoundBindings(d)
    BY <1>5 DEF SoundBindings
<1>8. SoundOutages(d)
    BY <1>1 DEF SoundOutages, IInv, UnavailableWithinUsable, Entries
<1>9. SoundSites(d)
    BY <1>5 DEF SoundSites
<1>10. ASSUME NEW g \in Entries(durable.grants), holds_capacity(durable.grants[g].state)
       PROVE  d.grants[g] # Nil /\ holds_capacity(d.grants[g].state)
    <2>1. /\ g \in Requests /\ durable.grants[g] # Nil
          /\ durable.grants[g] \in GrantRecord \cup {Nil}
          /\ grants[g] \in GrantRecord \cup {Nil}
          /\ SameGrant(durable.grants[g], grants[g])
        BY DEF Entries, Images, IInv, TypeOK, Matches
    <2>2. grants[g] \in GrantRecord /\ grants[g] # Nil /\ holds_capacity(grants[g].state)
        BY <1>10, <2>1, SameGrantFields DEF SameFields
    <2>3. g \in Entries(grants)
        BY <2>1, <2>2 DEF Entries, IInv, TypeOK
    <2>4. d.grants[g] = R(g)
        BY <1>1, <2>1
    <2>5. R(g) \in GrantRecord \cup {Nil} /\ R(g) # Nil
        <3>1. grants'[g] \in GrantRecord /\ durable.grants[g] \in GrantRecord
            BY <2>1, <2>3, EntriesStay
        <3>2. Downgraded(grants[g]) \in GrantRecord
            BY <2>2, DowngradedType
        <3>3. \A b \in BOOLEAN : /\ mark_recovered(grants'[g], b) \in GrantRecord
                                 /\ mark_recovered(durable.grants[g], b) \in GrantRecord
                                 /\ mark_recovered(Downgraded(grants[g]), b) \in GrantRecord
            BY <3>1, <3>2, RecoveredSame
        <3> QED
            BY <3>1, <3>3, NilAssumption DEF R, ReplayedGrant
    <2>6. CASE /\ SameFields(R(g), grants'[g])
               /\ grants[g] = Nil \/ ~releases_capacity(grants[g], grants'[g])
        <3>1. holds_capacity(grants'[g].state)
            BY <2>2, <2>3, <2>6, HeldUnlessReleased
        <3> QED
            BY <2>4, <2>5, <2>6, <3>1 DEF SameFields
    <2>7. CASE SameFields(R(g), grants[g])
        BY <2>2, <2>4, <2>5, <2>7 DEF SameFields
    <2>8. CASE SameFields(R(g), Downgraded(grants[g]))
        BY <2>2, <2>4, <2>5, <2>8, DowngradedFields DEF SameFields
    <2> QED
        BY <2>1, <2>2, <2>5, <2>6, <2>7, <2>8, ReplayedAmbiguous DEF R
<1> QED
    BY <1>2, <1>6, <1>7, <1>8, <1>9, <1>10 DEF Sound, Keeps, d

------------------------------------------------------------------------------
(* The steps of the daemon *)

\* A snapshot of the tables matches them.
LEMMA SnapshotMatches ==
    ASSUME IInv PROVE from_snapshot \in Images /\ Matches(from_snapshot)
<1> DEFINE S(g) == IF grants[g] = Nil \/ is_terminal(grants[g].state) THEN grants[g]
                   ELSE [grants[g] EXCEPT !.verification = "Unverified"]
<1>1. ASSUME NEW g \in Requests
      PROVE  S(g) \in GrantRecord \cup {Nil} /\ SameGrant(S(g), grants[g])
    <2>1. grants[g] \in GrantRecord \cup {Nil}
        BY DEF IInv, TypeOK
    <2>2. CASE S(g) = grants[g]
        BY <2>1, <2>2 DEF SameGrant
    <2>3. CASE grants[g] # Nil /\ S(g) = [grants[g] EXCEPT !.verification = "Unverified"]
        <3>1. S(g) \in GrantRecord /\ S(g) # Nil /\ grants[g] \in GrantRecord
            BY <2>1, <2>3, NilAssumption DEF GrantRecord, VerificationState
        <3>2. mark_recovered(S(g), FALSE) = mark_recovered(grants[g], FALSE)
            BY <2>3, <3>1 DEF mark_recovered, GrantRecord
        <3> QED
            BY <2>3, <3>1, <3>2 DEF SameGrant, Lasting
    <2> QED
        BY <2>2, <2>3
<1>2. from_snapshot =
        [epoch |-> epoch, policy |-> policy, sites |-> sites, paths |-> paths,
         domains |-> domains, attestations |-> attestations,
         oversubscriptions |-> oversubscriptions,
         grants |-> [g \in Requests |-> S(g)], verifications |-> verifications]
    BY DEF from_snapshot, Image
<1> HIDE DEF S
<1> QED
    BY <1>1, <1>2 DEF Images, Matches, IInv, TypeOK

\* The tables in memory and on disk are the same and sound when the daemon first
\* starts.
LEMMA DInvInit == DaemonInit => DInv
<1> SUFFICES ASSUME DaemonInit PROVE DInv
    OBVIOUS
<1>1. IInv
    BY IInvInit DEF DaemonInit
<1>2. durable \in Images
    BY <1>1 DEF DaemonInit, Image, Images, IInv, TypeOK
<1>3. Matches(durable)
    BY DEF DaemonInit, Image, Matches, SameGrant
<1> QED
    BY <1>1, <1>2, <1>3, MatchesSound DEF DInv, DaemonInit

\* The intent that is recorded resolves to sound tables either way, and to the
\* ones planned if it is completed.
LEMMA IntentInv ==
    ASSUME DInv, RecordIntent PROVE DInv'
<1>1. IInv /\ Request /\ durable \in Images /\ Matches(durable)
    BY DEF DInv, RecordIntent, Sound
<1>2. IInv'
    BY <1>1, RequestSafe
<1>3. /\ daemon' = "Logged" /\ durable' = durable
      /\ pending' = [committed |-> apply_replay(FALSE), ambiguous |-> apply_replay(TRUE)]
    BY DEF RecordIntent
<1>4. pending'.committed = apply_replay(FALSE) /\ pending'.ambiguous = apply_replay(TRUE)
    BY <1>3
<1>5. Sound(apply_replay(TRUE)) /\ Keeps(durable, apply_replay(TRUE))
    BY <1>1, <1>2, AmbiguousSound
<1>6. \A g \in Requests : /\ ReplayedGrant(g, FALSE) \in GrantRecord \cup {Nil}
                          /\ SameGrant(ReplayedGrant(g, FALSE), grants'[g])
    BY <1>1, <1>2, ReplayedCommitted
<1> DEFINE d == apply_replay(FALSE)
<1>7. /\ d.epoch = epoch' /\ d.policy = policy' /\ d.sites = sites' /\ d.paths = paths'
      /\ d.domains = domains' /\ d.attestations = attestations'
      /\ d.oversubscriptions = oversubscriptions' /\ d.verifications = verifications'
      /\ d.grants = [g \in Requests |-> ReplayedGrant(g, FALSE)] /\ d \in Images
    <2>1. [g \in Requests |-> ReplayedGrant(g, FALSE)] \in [Requests -> GrantRecord \cup {Nil}]
        BY <1>6
    <2> QED
        BY <1>1, <1>2, <2>1, ReplayedTables
<1> HIDE DEF d
<1>8. pending'.committed \in Images /\ Matches(pending.committed)'
    <2>1. pending'.committed = d
        BY <1>4 DEF d
    <2>2. \A g \in Requests : SameGrant(d.grants[g], grants'[g])
        BY <1>6, <1>7
    <2> QED
        BY <1>7, <2>1, <2>2 DEF Matches, SameGrant, Lasting, mark_recovered
<1>9. Sound(pending.committed)'
    BY <1>2, <1>8, MatchesSoundNext
<1>10. Sound(durable)' /\ Sound(pending.ambiguous)' /\ Keeps(durable, pending.ambiguous)'
    BY <1>3, <1>4, <1>5 DEF DInv, Sound, SoundReferences, SoundBindings, SoundOutages,
                            SoundSites, Keeps
<1> QED
    BY <1>2, <1>3, <1>8, <1>9, <1>10 DEF DInv

\* Soundness and agreement of tables are about their values alone.
LEMMA UnchangedTables ==
    ASSUME UNCHANGED <<vars, durable, pending>>
    PROVE  /\ Sound(durable)' <=> Sound(durable)
           /\ Sound(pending.committed)' <=> Sound(pending.committed)
           /\ Sound(pending.ambiguous)' <=> Sound(pending.ambiguous)
           /\ Keeps(durable, pending.ambiguous)' <=> Keeps(durable, pending.ambiguous)
           /\ Matches(durable)' <=> Matches(durable)
           /\ Matches(pending.committed)' <=> Matches(pending.committed)
BY DEF vars, Sound, SoundReferences, SoundBindings, SoundOutages, SoundSites, Keeps, Matches

\* The tables become durable as they are: by the commit record, or by a snapshot.
LEMMA CompleteInv ==
    ASSUME DInv, CompleteCommit PROVE DInv'
<1>1. UNCHANGED vars /\ pending' = Nil /\ daemon' = "Serving"
    BY DEF CompleteCommit
<1>2. IInv'
    BY <1>1, IInvStutter DEF DInv
<1>3. durable' \in Images /\ Matches(durable')
    BY SnapshotMatches DEF DInv, CompleteCommit, Sound
<1>4. Matches(durable)'
    BY <1>1, <1>3 DEF vars, Matches
<1>5. Sound(durable)'
    BY <1>2, <1>3, <1>4, MatchesSoundNext
<1> QED
    BY <1>1, <1>2, <1>4, <1>5 DEF DInv

\* Applying the intent, a failed check, a record that fails and a halt leave the tables
\* as planned alone.
LEMMA FailureInv ==
    ASSUME DInv, IntentRecordFails \/ Apply \/ VerifyFails \/ CommitRecordFails \/ Halt
    PROVE  DInv'
<1>1. UNCHANGED vars
    BY DEF IntentRecordFails, Apply, VerifyFails, CommitRecordFails, Halt
<1>2. IInv'
    BY <1>1, IInvStutter DEF DInv
<1>3. CASE UNCHANGED <<durable, pending>>
    <2>1. /\ daemon' \in {"Logged", "Applied"} => daemon = "Logged"
          /\ daemon' = "Serving" => durability_failed'
        BY DEF IntentRecordFails, Apply, VerifyFails, CommitRecordFails, Halt
    <2> QED
        BY <1>1, <1>2, <1>3, <2>1, UnchangedTables DEF DInv
<1>4. CASE CommitRecordFails /\ durable' = pending.committed /\ pending' = Nil
    <2>1. durable' \in Images /\ Matches(durable') /\ daemon' = "Serving" /\ durability_failed'
        BY <1>4 DEF DInv, CommitRecordFails, Sound
    <2>2. Matches(durable)'
        BY <1>1, <2>1 DEF vars, Matches
    <2>3. Sound(durable)'
        BY <1>2, <2>1, <2>2, MatchesSoundNext
    <2> QED
        BY <1>2, <1>4, <2>1, <2>2, <2>3 DEF DInv
<1> QED
    BY <1>3, <1>4 DEF IntentRecordFails, Apply, VerifyFails, CommitRecordFails, Halt

\* A restart loads sound tables.
LEMMA RestartInv ==
    ASSUME DInv, Restart PROVE DInv'
<1> DEFINE d == Recovered
<1>1. Sound(d)
    BY DEF Recovered, DInv
<1>2. /\ epoch' = d.epoch /\ policy' = d.policy /\ sites' = d.sites /\ paths' = d.paths
      /\ domains' = d.domains /\ attestations' = d.attestations
      /\ oversubscriptions' = d.oversubscriptions /\ grants' = d.grants
      /\ verifications' = d.verifications /\ durable' = d /\ pending' = Nil
      /\ daemon' \notin {"Logged", "Applied"}
    BY DEF Restart
<1> HIDE DEF d
<1>3. IInv'
    <2>1. TypeOK'
        BY <1>1, <1>2 DEF Sound, Images, TypeOK
    <2>2. ReferencesExist'
        BY <1>1, <1>2 DEF Sound, SoundReferences, ReferencesExist, Entries
    <2>3. AuthorisedBindingCurrent'
        BY <1>1, <1>2 DEF Sound, SoundBindings, AuthorisedBindingCurrent, BindingCurrent, Entries
    <2>4. UnavailableWithinUsable'
        BY <1>1, <1>2 DEF Sound, SoundOutages, UnavailableWithinUsable, Entries
    <2>5. LostSiteIdle'
        BY <1>1, <1>2 DEF Sound, SoundSites, LostSiteIdle, Entries
    <2> QED
        BY <2>1, <2>2, <2>3, <2>4, <2>5 DEF IInv
<1>4. Sound(durable)'
    BY <1>1, <1>2 DEF Sound, SoundReferences, SoundBindings, SoundOutages, SoundSites
<1>5. Matches(durable)'
    BY <1>2 DEF Matches, SameGrant
<1> QED
    BY <1>2, <1>3, <1>4, <1>5 DEF DInv

\* A recorded intent is told from none.
LEMMA IntentIsOne ==
    ASSUME DInv, RecordIntent PROVE pending' # Nil
<1>1. /\ daemon' = "Logged"
      /\ pending' = [committed |-> apply_replay(FALSE), ambiguous |-> apply_replay(TRUE)]
    BY DEF RecordIntent
<1>2. apply_replay(TRUE) \in Images
    <2>1. IInv /\ Request /\ durable \in Images /\ Matches(durable)
        BY DEF DInv, RecordIntent, Sound
    <2> QED
        BY <2>1, RequestSafe, AmbiguousSound DEF Sound
<1>3. pending.committed' \in Images
    BY <1>1, IntentInv DEF DInv, Sound
<1>4. apply_replay(FALSE) \in Images
    BY <1>1, <1>3
<1>5. \A c, a \in Images : [committed |-> c, ambiguous |-> a] # Nil
    BY PendingAssumption
<1> QED
    BY <1>1, <1>2, <1>4, <1>5

\* Every step of the daemon preserves the inductive invariant.
LEMMA DInvNext == DInv /\ [DaemonNext]_dvars => DInv'
<1> SUFFICES ASSUME DInv, [DaemonNext]_dvars PROVE DInv'
    OBVIOUS
<1>1. CASE UNCHANGED dvars
    <2>1. UNCHANGED <<vars, daemon, durability_failed, memory, durable, pending>>
        BY <1>1 DEF dvars
    <2>2. IInv'
        BY <2>1, IInvStutter DEF DInv
    <2> QED
        BY <2>1, <2>2, UnchangedTables DEF DInv
<1> QED
    BY <1>1, IntentInv, CompleteInv, FailureInv, RestartInv DEF DaemonNext

\* The inductive invariant holds in every reachable state of the daemon.
LEMMA DInvAlways == DaemonSpec => []DInv
BY DInvInit, DInvNext, PTL DEF DaemonSpec

------------------------------------------------------------------------------
(* Memory *)

\* What readers see is in the log.
Shown == Restores(durable) \/ (pending # Nil /\ Restores(pending.committed))

\* Memory is the tables as planned, but between an intent and its application or after
\* an intent that failed.
MInv ==
    /\ daemon = "Serving" /\ ~durability_failed => memory = Image
    /\ daemon = "Applied" => memory = Image
    /\ daemon \in {"Logged", "Applied"} => pending # Nil
    /\ daemon \in {"Serving", "Logged", "Applied"} => Shown

\* Tables that match those planned restore memory when it is the same.
LEMMA MatchesRestores ==
    ASSUME NEW d \in Images, Matches(d), memory = Image PROVE Restores(d)
<1>1. memory.grants = grants
    BY DEF Image
<1>2. [d EXCEPT !.grants = grants] = Image
    BY DEF Images, Matches, Image
<1> QED
    BY <1>1, <1>2 DEF Matches, SameGrant, Restores

LEMMA MatchesRestoresNext ==
    (\A d \in Images : Matches(d) /\ memory = Image => Restores(d))'
<1>1. \A d \in Images : Matches(d) /\ memory = Image => Restores(d)
    BY MatchesRestores
<1> QED
    BY <1>1, PTL

LEMMA MInvNext == DInv /\ MInv /\ [DaemonNext]_dvars => MInv'
<1> SUFFICES ASSUME DInv, MInv, [DaemonNext]_dvars PROVE MInv'
    OBVIOUS
<1>1. DInv'
    BY DInvNext
<1>2. CASE RecordIntent
    <2>1. Restores(durable)
        BY <1>2, MatchesRestores DEF RecordIntent, DInv, MInv, Sound
    <2>2. Restores(durable)' /\ daemon' = "Logged"
        BY <1>2, <2>1 DEF RecordIntent, Restores
    <2> QED
        BY <1>2, <2>2, IntentIsOne DEF MInv, Shown
<1>3. CASE Apply
    <2>1. /\ memory' = Image' /\ daemon' = "Applied" /\ UNCHANGED pending /\ daemon = "Logged"
        BY <1>3 DEF Apply, Image, vars
    <2>2. pending'.committed \in Images /\ Matches(pending.committed)'
        BY <1>1, <2>1 DEF DInv, Sound
    <2>3. Restores(pending.committed)'
        BY <2>1, <2>2, MatchesRestoresNext
    <2> QED
        BY <2>1, <2>3 DEF MInv, Shown
<1>4. CASE CompleteCommit
    <2>1. memory' = Image' /\ daemon' = "Serving"
        BY <1>4 DEF CompleteCommit, Image, vars, MInv
    <2>2. durable' \in Images /\ Matches(durable') /\ UNCHANGED vars
        BY <1>4, SnapshotMatches DEF CompleteCommit, DInv, Sound
    <2>3. Matches(durable)'
        BY <2>2 DEF Matches, vars
    <2>4. Restores(durable)'
        BY <2>1, <2>2, <2>3, MatchesRestoresNext
    <2> QED
        BY <2>1, <2>4 DEF MInv, Shown
<1>5. CASE CommitRecordFails /\ durable' = pending.committed /\ pending' = Nil
    <2>1. /\ memory' = Image' /\ daemon' = "Serving" /\ durability_failed'
          /\ Matches(durable') /\ UNCHANGED vars
        BY <1>5 DEF CommitRecordFails, Image, vars, MInv, DInv
    <2>2. durable' \in Images /\ Matches(durable)'
        BY <1>1, <2>1 DEF DInv, Sound, Matches, vars
    <2>3. Restores(durable)'
        BY <2>1, <2>2, MatchesRestoresNext
    <2> QED
        BY <2>1, <2>3 DEF MInv, Shown
<1>6. CASE /\ IntentRecordFails \/ VerifyFails \/ CommitRecordFails
           /\ UNCHANGED <<durable, pending>>
    <2>1. /\ daemon' = "Serving" /\ durability_failed' /\ UNCHANGED <<memory, durable, pending>>
          /\ daemon \in {"Serving", "Logged", "Applied"}
        BY <1>6 DEF IntentRecordFails, VerifyFails, CommitRecordFails
    <2>2. Shown'
        BY <2>1 DEF MInv, Shown, Restores
    <2> QED
        BY <2>1, <2>2 DEF MInv
<1>7. CASE Halt
    BY <1>7 DEF Halt, MInv
<1>8. CASE Restart
    <2>1. /\ memory' = Recovered /\ durable' = Recovered
          /\ daemon' \notin {"Logged", "Applied"} /\ Recovered \in Images
        BY <1>8 DEF Restart, Recovered, DInv, Sound
    <2>2. memory' = Image'
        BY <1>8, <2>1 DEF Restart, Image, Images
    <2>3. Restores(durable)'
        BY <2>1 DEF Restores, Images
    <2> QED
        BY <2>1, <2>2, <2>3 DEF MInv, Shown
<1>9. CASE UNCHANGED dvars
    <2>1. Image' = Image /\ UNCHANGED <<daemon, durability_failed, memory, durable, pending>>
        BY <1>9 DEF dvars, vars, Image
    <2> QED
        BY <2>1 DEF MInv, Shown, Restores
<1> QED
    BY <1>2, <1>3, <1>4, <1>5, <1>6, <1>7, <1>8, <1>9
       DEF DaemonNext, IntentRecordFails, VerifyFails, CommitRecordFails

\* What readers see is in the log in every reachable state.
LEMMA MInvAlways == DaemonSpec => [](DInv /\ MInv)
<1>1. DaemonInit => MInv
    <2> SUFFICES ASSUME DaemonInit PROVE MInv
        OBVIOUS
    <2>1. durable \in Images /\ Matches(durable)
        BY DInvInit DEF DInv, Sound, DaemonInit
    <2>2. memory = Image /\ daemon = "Serving"
        BY DEF DaemonInit
    <2> QED
        BY <2>1, <2>2, MatchesRestores DEF MInv, Shown
<1> QED
    BY <1>1, MInvNext, DInvInit, DInvNext, PTL DEF DaemonSpec

------------------------------------------------------------------------------
(* Tables that pass the check *)

\* The grants on a path that are in one of some states, and those that hold
\* capacity of the floor, and what they add up to.
StandingIn(tab, p, S) == {g \in Entries(tab) : tab[g].path = p /\ tab[g].state \in S}

StandingSum(tab, p, S) == SumFunctionOnSet(AmountsOf(tab), StandingIn(tab, p, S))

FloorIn(tab, p) ==
    {g \in Entries(tab) : /\ tab[g].path = p
                          /\ holds_capacity(tab[g].state)
                          /\ tab[g].grant_class = "Protected"}

FloorSum(tab, p) == SumFunctionOnSet(AmountsOf(tab), FloorIn(tab, p))

Headroom(tab, p, rec, pol) ==
    IF FloorSum(tab, p) >= protected_floor(rec, pol) THEN 0
    ELSE protected_floor(rec, pol) - FloorSum(tab, p)

Obligations(tab, p, rec, pol) ==
    StandingSum(tab, p, {"Active", "Degraded"}) + StandingSum(tab, p, {"Reserved"})
        + Headroom(tab, p, rec, pol) + rec.unavailable

\* What verify_invariants finds of one path in order: the totals, the ceiling and
\* the floor.
PathPasses(tab, p, rec, pol, os, ep) ==
    /\ rec.authoritative_usable
            + oversubscription_extension(rec.authoritative_usable,
                                         BestIn(os, ep, p, rec, pol, 0)) <= kAmountMax
    /\ Obligations(tab, p, rec, pol) + StandingSum(tab, p, {"Withdrawing"})
            + minimum_free(rec, pol) <= kAmountMax
    /\ Obligations(tab, p, rec, pol) <= CeilingIn(os, ep, p, rec, pol, 0)
    /\ FloorSum(tab, p) <= protected_floor(rec, pol)

\* The parts of verify_invariants that need not hold of the tables at all times.
Passes(d) ==
    /\ \A p \in Entries(d.paths) :
            PathPasses(d.grants, p, d.paths[p], d.policy, d.oversubscriptions, d.epoch)
    /\ \A g, h \in Entries(d.grants) : g # h => d.grants[g].lease # d.grants[h].lease
    /\ \A g \in Entries(d.grants) :
            LET r == d.grants[g] IN
            requires_current_binding(r.state) =>
                /\ r.epoch = d.epoch
                /\ r.holder_incarnation = d.sites[r.holder].incarnation
                /\ r.policy_generation = d.policy.generation
                /\ r.path_generation = d.paths[r.path].generation
                /\ r.capacity_generation = d.paths[r.path].capacity_generation

\* A daemon that serves has tables that pass.  Those an open intent resolves to pass
\* if the ones planned do; without one, these are the ones on disk.
RInv ==
    /\ SizesFit
    /\ pending = Nil => Matches(durable)
    /\ daemon \in {"Logged", "Applied"} => pending # Nil
    /\ daemon = "Serving" /\ ~durability_failed => pending = Nil /\ Passes(Image)
    /\ pending # Nil => /\ pending.ambiguous.policy = policy
                        /\ pending.ambiguous.paths = paths
                        /\ pending.ambiguous.oversubscriptions = oversubscriptions
                        /\ verify_invariants => Passes(pending.ambiguous)

\* The check, in these terms.
LEMMA CheckIs ==
    TypeOK => (verify_invariants <=> /\ UnavailableWithinUsable /\ ReferencesExist
                                     /\ ActiveVerified /\ validate(policy)
                                     /\ Passes(Image))
<1> SUFFICES ASSUME TypeOK
             PROVE  verify_invariants <=> /\ UnavailableWithinUsable /\ ReferencesExist
                                          /\ ActiveVerified /\ validate(policy)
                                          /\ Passes(Image)
    OBVIOUS
<1>1. \A S : S \subseteq Entries(grants) => S \in SUBSET Requests
    BY DEF TypeOK, Entries
<1>2. ASSUME NEW p
      PROVE  /\ committed(p) = StandingSum(grants, p, {"Active", "Degraded"})
             /\ reserved(p) = StandingSum(grants, p, {"Reserved"})
             /\ withdrawing(p) = StandingSum(grants, p, {"Withdrawing"})
             /\ protected_held(p) = FloorSum(grants, p)
    <2>1. /\ GrantsOn(p, LAMBDA r : r.state \in {"Active", "Degraded"})
                = StandingIn(grants, p, {"Active", "Degraded"})
          /\ GrantsOn(p, LAMBDA r : r.state = "Reserved") = StandingIn(grants, p, {"Reserved"})
          /\ GrantsOn(p, LAMBDA r : r.state = "Withdrawing")
                = StandingIn(grants, p, {"Withdrawing"})
          /\ GrantsOn(p, LAMBDA r : holds_capacity(r.state) /\ r.grant_class = "Protected")
                = FloorIn(grants, p)
        BY DEF GrantsOn, StandingIn, FloorIn
    <2>2. /\ \A S : StandingIn(grants, p, S) \in SUBSET Requests
          /\ FloorIn(grants, p) \in SUBSET Requests
        BY <1>1 DEF StandingIn, FloorIn
    <2>3. /\ committed(p) = Total(StandingIn(grants, p, {"Active", "Degraded"}))
          /\ reserved(p) = Total(StandingIn(grants, p, {"Reserved"}))
          /\ withdrawing(p) = Total(StandingIn(grants, p, {"Withdrawing"}))
          /\ protected_held(p) = Total(FloorIn(grants, p))
        BY <2>1 DEF committed, reserved, withdrawing, protected_held
    <2> QED
        BY <2>2, <2>3, TotalIsSum DEF StandingSum, FloorSum
<1>3. ASSUME NEW p
      PROVE  protected_headroom(p) = Headroom(grants, p, paths[p], policy)
    BY <1>2 DEF protected_headroom, Headroom
<1>4. ASSUME NEW p
      PROVE  /\ Ceiling(p, paths[p], policy, 0)
                    = CeilingIn(oversubscriptions, epoch, p, paths[p], policy, 0)
             /\ live_oversubscription_bps(p, paths[p], policy, 0)
                    = BestIn(oversubscriptions, epoch, p, paths[p], policy, 0)
    BY CeilingIs DEF live_oversubscription_bps, BestIn, RatiosIn, LiveIn, Entries
<1>5. (TotalsFit /\ NoOversubscription /\ ProtectedWithinFloor)
        <=> \A p \in Entries(paths) :
                PathPasses(grants, p, paths[p], policy, oversubscriptions, epoch)
    <2>1. ASSUME NEW p
          PROVE  committed(p) + reserved(p) + protected_headroom(p) + paths[p].unavailable
                    = Obligations(grants, p, paths[p], policy)
        BY <1>2, <1>3 DEF Obligations
    <2>2. TotalsFit <=> \A p \in Entries(paths) :
                /\ paths[p].authoritative_usable
                        + oversubscription_extension(paths[p].authoritative_usable,
                               BestIn(oversubscriptions, epoch, p, paths[p], policy, 0))
                            <= kAmountMax
                /\ Obligations(grants, p, paths[p], policy)
                        + StandingSum(grants, p, {"Withdrawing"})
                        + minimum_free(paths[p], policy) <= kAmountMax
        BY <1>2, <1>4, <2>1 DEF TotalsFit
    <2>3. NoOversubscription <=> \A p \in Entries(paths) :
                Obligations(grants, p, paths[p], policy)
                    <= CeilingIn(oversubscriptions, epoch, p, paths[p], policy, 0)
        BY <1>4, <2>1 DEF NoOversubscription
    <2>4. ProtectedWithinFloor <=> \A p \in Entries(paths) :
                FloorSum(grants, p) <= protected_floor(paths[p], policy)
        BY <1>2 DEF ProtectedWithinFloor
    <2> QED
        BY <2>2, <2>3, <2>4 DEF PathPasses
<1>6. /\ Image.grants = grants /\ Image.paths = paths /\ Image.policy = policy
      /\ Image.oversubscriptions = oversubscriptions /\ Image.epoch = epoch
      /\ Image.sites = sites
    BY DEF Image
<1>7. Passes(Image) <=> /\ \A p \in Entries(paths) :
                            PathPasses(grants, p, paths[p], policy, oversubscriptions, epoch)
                        /\ LeasesUnique /\ LiveBindingsCurrent
    BY <1>6 DEF Passes, LeasesUnique, LiveBindingsCurrent, BindingCurrent
<1> QED
    BY <1>5, <1>7 DEF verify_invariants

\* The same after a step.
LEMMA CheckIsNext ==
    (TypeOK => (verify_invariants <=> /\ UnavailableWithinUsable /\ ReferencesExist
                                      /\ ActiveVerified /\ validate(policy)
                                      /\ Passes(Image)))'
BY CheckIs, PTL

\* The grants of one table are those of another, or those downgraded.
Settles(tab, new) ==
    \A g \in Requests :
        /\ tab[g] = Nil <=> new[g] = Nil
        /\ tab[g] # Nil => SameFields(new[g], tab[g]) \/ SameFields(new[g], Downgraded(tab[g]))

\* What that means for a grant: capacity is neither given back nor taken, and what was
\* reserved may be on its way out.
LEMMA SettledGrant ==
    ASSUME NEW tab \in GrantTable, NEW new \in GrantTable, Settles(tab, new),
           NEW g \in Entries(tab)
    PROVE  /\ g \in Entries(new) /\ g \in Requests
           /\ new[g].path = tab[g].path /\ new[g].grant_class = tab[g].grant_class
           /\ new[g].amount = tab[g].amount /\ new[g].lease = tab[g].lease
           /\ new[g].holder = tab[g].holder /\ new[g].epoch = tab[g].epoch
           /\ new[g].holder_incarnation = tab[g].holder_incarnation
           /\ new[g].path_generation = tab[g].path_generation
           /\ new[g].capacity_generation = tab[g].capacity_generation
           /\ new[g].policy_generation = tab[g].policy_generation
           /\ \/ new[g].state = tab[g].state
              \/ tab[g].state = "Active" /\ new[g].state = "Degraded"
              \/ tab[g].state = "Reserved" /\ new[g].state = "Withdrawing"
<1>1. g \in Requests /\ tab[g] \in GrantRecord /\ tab[g] # Nil
    BY DEF Entries, GrantTable
<1>2. g \in Entries(new)
    BY <1>1 DEF Settles, Entries, GrantTable
<1>3. LET w == Downgraded(tab[g]) IN
      /\ w.path = tab[g].path /\ w.grant_class = tab[g].grant_class
      /\ w.amount = tab[g].amount /\ w.lease = tab[g].lease
      /\ \/ w.state = tab[g].state
         \/ tab[g].state = "Active" /\ w.state = "Degraded"
         \/ tab[g].state = "Reserved" /\ w.state = "Withdrawing"
    BY <1>1 DEF Downgraded, GrantRecord
<1>4. SameFields(new[g], tab[g]) \/ SameFields(new[g], Downgraded(tab[g]))
    BY <1>1 DEF Settles
<1> QED
    BY <1>1, <1>2, <1>3, <1>4, DowngradedFields DEF SameFields

\* Settling moves amounts from reserved to withdrawing and changes no other sum.
LEMMA SettledSums ==
    ASSUME NEW tab \in GrantTable, NEW new \in GrantTable, Settles(tab, new), NEW p
    PROVE  /\ \A S : StandingSum(tab, p, S) \in Nat /\ StandingSum(new, p, S) \in Nat
           /\ FloorSum(tab, p) \in Nat /\ FloorSum(new, p) = FloorSum(tab, p)
           /\ StandingSum(new, p, {"Active", "Degraded"})
                = StandingSum(tab, p, {"Active", "Degraded"})
           /\ StandingSum(new, p, {"Reserved"}) <= StandingSum(tab, p, {"Reserved"})
           /\ StandingSum(new, p, {"Reserved"}) + StandingSum(new, p, {"Withdrawing"})
                = StandingSum(tab, p, {"Reserved"}) + StandingSum(tab, p, {"Withdrawing"})
<1> DEFINE f == AmountsOf(tab)
           E == Entries(tab)
           R == StandingIn(tab, p, {"Reserved"})
           W == StandingIn(tab, p, {"Withdrawing"})
           Q == StandingIn(new, p, {"Reserved"})
           X == StandingIn(new, p, {"Withdrawing"})
           M == R \ Q
<1>1. Entries(new) = E
    <2>1. ASSUME NEW g \in Entries(new) PROVE g \in E
        BY DEF Entries, GrantTable, Settles
    <2> QED
        BY <2>1, SettledGrant
<1>2. \A S \in SUBSET E : SumFunctionOnSet(AmountsOf(new), S) = SumFunctionOnSet(f, S)
    <2>1. ASSUME NEW S \in SUBSET E, NEW g \in S PROVE AmountsOf(new)[g] = f[g]
        <3>1. AmountsOf(new)[g] = new[g].amount /\ f[g] = tab[g].amount
            BY <1>1, EntriesSum
        <3> QED
            BY <3>1, SettledGrant
    <2> HIDE DEF f, E
    <2> QED
        BY <2>1, SumSame
<1>3. \A S \in SUBSET E : /\ IsFiniteSet(S) /\ \A g \in S : f[g] \in Nat
                          /\ SumFunctionOnSet(f, S) \in Nat
    BY EntriesSum
<1>4. /\ \A S : StandingIn(tab, p, S) \in SUBSET E /\ StandingIn(new, p, S) \in SUBSET E
      /\ FloorIn(tab, p) \in SUBSET E /\ FloorIn(new, p) \in SUBSET E
    BY <1>1 DEF StandingIn, FloorIn
<1>5. FloorIn(new, p) = FloorIn(tab, p)
    BY <1>1, SettledGrant DEF FloorIn, holds_capacity
<1>6. StandingIn(new, p, {"Active", "Degraded"}) = StandingIn(tab, p, {"Active", "Degraded"})
    BY <1>1, SettledGrant DEF StandingIn
<1>7. Q \subseteq R /\ X = W \cup M /\ W \cap M = {} /\ R = Q \cup M /\ Q \cap M = {}
    BY <1>1, SettledGrant DEF StandingIn
<1>8. Q \in SUBSET E /\ W \in SUBSET E /\ M \in SUBSET E /\ R \in SUBSET E /\ X \in SUBSET E
    BY <1>4
<1> DEFINE V(S) == SumFunctionOnSet(f, S)
<1>9. V(R) = V(Q) + V(M) /\ V(X) = V(W) + V(M)
    <2> HIDE DEF f, E, Q, R, W, X, M
    <2>1. IsFiniteSet(Q) /\ IsFiniteSet(W) /\ IsFiniteSet(M)
        BY <1>3, <1>8
    <2>2. \A g \in E : f[g] \in Nat
        BY <1>3
    <2> QED
        BY <1>7, <1>8, <2>1, <2>2, SumUnion
<1>10. V(Q) \in Nat /\ V(R) \in Nat /\ V(W) \in Nat /\ V(X) \in Nat /\ V(M) \in Nat
    BY <1>3, <1>8
<1>11. /\ StandingSum(new, p, {"Reserved"}) = V(Q) /\ StandingSum(tab, p, {"Reserved"}) = V(R)
       /\ StandingSum(new, p, {"Withdrawing"}) = V(X)
       /\ StandingSum(tab, p, {"Withdrawing"}) = V(W)
    BY <1>2, <1>8 DEF StandingSum
<1>12. /\ \A S : StandingSum(tab, p, S) \in Nat /\ StandingSum(new, p, S) \in Nat
       /\ FloorSum(tab, p) \in Nat /\ FloorSum(new, p) = FloorSum(tab, p)
       /\ StandingSum(new, p, {"Active", "Degraded"})
            = StandingSum(tab, p, {"Active", "Degraded"})
    BY <1>2, <1>3, <1>4, <1>5, <1>6 DEF StandingSum, FloorSum
<1> HIDE DEF V, Q, R, W, X, M
<1> QED
    BY <1>9, <1>10, <1>11, <1>12

\* The floor, the minimum free capacity and the ceiling are numbers.
LEMMA FloorTypes ==
    ASSUME NEW rec \in PathRecord, NEW pol \in Policy
    PROVE  protected_floor(rec, pol) \in Nat /\ minimum_free(rec, pol) \in Nat
<1>1. /\ rec.authoritative_usable \in Nat /\ rec.unavailable \in Nat
      /\ pol.protected_floor_bps \in Nat /\ pol.min_free_bps \in Nat
      /\ pol.protected_floor_units \in Nat /\ pol.min_free_units \in Nat
    BY DEF PathRecord, Policy
<1>2. /\ fraction_bps(rec.authoritative_usable, pol.protected_floor_bps) \in Nat
      /\ fraction_bps(rec.authoritative_usable, pol.min_free_bps) \in Nat
    <2>1. \A b \in Nat : fraction_bps(rec.authoritative_usable, b) \in Amount
        BY <1>1, FractionMonotone
    <2> QED
        BY <1>1, <2>1, CapacityAssumption DEF Amount
<1>3. Basis(rec) \in Nat
    BY <1>1 DEF Basis
<1> QED
    BY <1>1, <1>2, <1>3 DEF protected_floor, minimum_free, min_amount, max_amount

LEMMA CeilingType ==
    ASSUME NEW os \in OversubscriptionTable, NEW ep, NEW p, NEW rec \in PathRecord,
           NEW pol \in Policy
    PROVE  CeilingIn(os, ep, p, rec, pol, 0) \in Nat
<1> DEFINE b == BestIn(os, ep, p, rec, pol, 0)
           u == rec.authoritative_usable
<1>1. u \in Nat
    BY DEF PathRecord
<1>2. b \in Nat
    BY BestExists
<1> HIDE DEF b, u
<1>3. oversubscription_extension(u, b) \in Nat
    <2>1. oversubscription_extension(u, b) \in Amount
        BY <1>1, <1>2, ExtensionMonotone
    <2> QED
        BY <2>1, CapacityAssumption DEF Amount
<1> QED
    BY <1>1, <1>3, CapacityAssumption DEF CeilingIn, saturating_add, b, u

\* So tables pass the check after settling if they did before.
LEMMA SettledPasses ==
    ASSUME NEW d \in Images, NEW e \in Images, Sound(d), Passes(d), Bounded(d.oversubscriptions),
           e.epoch = d.epoch, e.policy = d.policy, e.paths = d.paths,
           e.oversubscriptions = d.oversubscriptions,
           \A s \in Entries(d.sites) : e.sites[s].incarnation = d.sites[s].incarnation,
           Settles(d.grants, e.grants)
    PROVE  Passes(e)
<1> DEFINE tab == d.grants
           new == e.grants
<1>1. tab \in GrantTable /\ new \in GrantTable
    BY DEF Images, GrantTable
<1>2. ASSUME NEW g \in Entries(new) PROVE g \in Entries(tab)
    BY <1>1, <1>2 DEF Entries, GrantTable, Settles
<1>3. ASSUME NEW p \in Entries(d.paths)
      PROVE  PathPasses(new, p, d.paths[p], d.policy, d.oversubscriptions, d.epoch)
    <2> DEFINE rec == d.paths[p]
               pol == d.policy
               c == CeilingIn(d.oversubscriptions, d.epoch, p, rec, pol, 0)
               A == StandingSum(tab, p, {"Active", "Degraded"})
               R == StandingSum(tab, p, {"Reserved"})
               W == StandingSum(tab, p, {"Withdrawing"})
               Q == StandingSum(new, p, {"Reserved"})
               X == StandingSum(new, p, {"Withdrawing"})
               H == Headroom(tab, p, rec, pol)
    <2>1. PathPasses(tab, p, rec, pol, d.oversubscriptions, d.epoch)
        BY <1>3 DEF Passes
    <2>2. /\ A \in Nat /\ R \in Nat /\ W \in Nat /\ Q \in Nat /\ X \in Nat
          /\ FloorSum(tab, p) \in Nat /\ FloorSum(new, p) = FloorSum(tab, p)
          /\ StandingSum(new, p, {"Active", "Degraded"}) = A
          /\ Q <= R /\ Q + X = R + W
        <3> HIDE DEF tab, new
        <3> QED
            BY <1>1, SettledSums DEF tab, new
    <2>3. Headroom(new, p, rec, pol) = H
        BY <2>2 DEF Headroom
    <2>4. rec \in PathRecord /\ pol \in Policy
        BY <1>3 DEF Images, Entries
    <2>5. rec.unavailable \in Nat /\ H \in Nat /\ minimum_free(rec, pol) \in Nat
        <3>1. protected_floor(rec, pol) \in Nat /\ minimum_free(rec, pol) \in Nat
            BY <2>4, FloorTypes
        <3> QED
            BY <2>2, <2>4, <3>1 DEF Headroom, PathRecord
    <2>6. c \in Nat
        <3>1. d.oversubscriptions \in OversubscriptionTable
            BY DEF Images, OversubscriptionTable
        <3> QED
            BY <2>4, <3>1, CeilingType
    <2>7. /\ Obligations(tab, p, rec, pol) = A + R + H + rec.unavailable
          /\ Obligations(new, p, rec, pol) = A + Q + H + rec.unavailable
        BY <2>2, <2>3 DEF Obligations
    <2> HIDE DEF rec, pol, c, A, R, W, Q, X, H, tab, new
    <2>8. /\ A + R + H + rec.unavailable + W + minimum_free(rec, pol) <= kAmountMax
          /\ A + R + H + rec.unavailable <= c
        BY <2>1, <2>7 DEF PathPasses, W, c
    <2>9. /\ A + Q + H + rec.unavailable + X + minimum_free(rec, pol) <= kAmountMax
          /\ A + Q + H + rec.unavailable <= c
        BY <2>2, <2>5, <2>6, <2>8, CapacityAssumption
    <2> QED
        BY <2>1, <2>2, <2>7, <2>9 DEF PathPasses, X, c, rec, pol
<1>4. \A g, h \in Entries(new) : g # h => new[g].lease # new[h].lease
    <2> HIDE DEF tab, new
    <2>1. \A g, h \in Entries(tab) : g # h => tab[g].lease # tab[h].lease
        BY DEF Passes, tab
    <2> QED
        BY <1>1, <1>2, <2>1, SettledGrant DEF tab, new
<1>5. ASSUME NEW g \in Entries(new), requires_current_binding(new[g].state)
      PROVE  /\ new[g].epoch = e.epoch
             /\ new[g].holder_incarnation = e.sites[new[g].holder].incarnation
             /\ new[g].policy_generation = e.policy.generation
             /\ new[g].path_generation = e.paths[new[g].path].generation
             /\ new[g].capacity_generation = e.paths[new[g].path].capacity_generation
    <2>1. g \in Entries(tab)
        BY <1>2, <1>5
    <2>2. requires_current_binding(tab[g].state)
        BY <1>1, <1>5, <2>1, SettledGrant DEF requires_current_binding
    <2>3. /\ tab[g].epoch = d.epoch
          /\ tab[g].holder_incarnation = d.sites[tab[g].holder].incarnation
          /\ tab[g].policy_generation = d.policy.generation
          /\ tab[g].path_generation = d.paths[tab[g].path].generation
          /\ tab[g].capacity_generation = d.paths[tab[g].path].capacity_generation
        BY <2>1, <2>2 DEF Passes
    <2>4. tab[g].holder \in Entries(d.sites)
        <3>1. d.sites[tab[g].holder] # Nil
            BY <2>1 DEF Sound, SoundReferences
        <3>2. tab[g].holder \in Sites
            BY <1>1, <2>1 DEF GrantTable, GrantRecord, Entries
        <3>3. DOMAIN d.sites = Sites
            BY DEF Images
        <3> QED
            BY <3>1, <3>2, <3>3 DEF Entries
    <2>5. e.sites[tab[g].holder].incarnation = d.sites[tab[g].holder].incarnation
        BY <2>4
    <2> HIDE DEF tab, new
    <2>6. /\ new[g].path = tab[g].path /\ new[g].holder = tab[g].holder
          /\ new[g].epoch = tab[g].epoch
          /\ new[g].holder_incarnation = tab[g].holder_incarnation
          /\ new[g].path_generation = tab[g].path_generation
          /\ new[g].capacity_generation = tab[g].capacity_generation
          /\ new[g].policy_generation = tab[g].policy_generation
        BY <1>1, <2>1, SettledGrant DEF tab, new
    <2> QED
        BY <2>3, <2>5, <2>6
<1> QED
    BY <1>3, <1>4, <1>5 DEF Passes

\* A request that gives the capacity of a grant back leaves the other grants as they
\* are, or downgrades them, or gives theirs back too.
LEMMA ReleaseLeaves ==
    ASSUME IInv, Request, NEW g \in Entries(grants), releases_capacity(grants[g], grants'[g])
    PROVE  /\ UNCHANGED oversubscriptions
           /\ \A h \in Requests : \/ grants'[h] = grants[h]
                                  \/ grants[h] # Nil /\ grants'[h] = Downgraded(grants[h])
                                  \/ releases_capacity(grants[h], grants'[h])
<1>1. ASSUME Invalidated(grants[g].state, grants'[g].state) PROVE FALSE
    BY <1>1 DEF Invalidated, releases_capacity
<1>2. g \in Requests /\ grants[g] # Nil /\ DOMAIN grants = Requests
    BY DEF Entries, IInv, TypeOK
<1>3. CASE ConfigNext \/ SiteNext \/ PathNext
    BY <1>1, <1>3, RequestsInvalidate
<1>4. CASE OversubscriptionNext
    BY <1>4 DEF OversubscriptionNext, issue_oversubscription, releases_capacity
<1>5. CASE GrantNext
    <2>1. PICK k \in Requests, r \in GrantRecord : GrantMove(k, r)
        BY <1>5, GrantMoves
    <2>2. grants' = [grants EXCEPT ![k] = r] /\ UNCHANGED oversubscriptions
        BY <2>1 DEF GrantMove
    <2>3. k = g
        BY <1>2, <2>2 DEF releases_capacity
    <2> QED
        BY <1>2, <2>2, <2>3
<1>6. CASE \E now_ms \in Times : tick(now_ms)
    <2>1. PICK now_ms \in Times : tick(now_ms)
        BY <1>6
    <2>2. UNCHANGED oversubscriptions
        BY <2>1 DEF tick
    <2>3. ASSUME NEW h \in Requests
          PROVE  \/ grants'[h] = grants[h]
                 \/ grants[h] # Nil /\ grants'[h] = Downgraded(grants[h])
                 \/ releases_capacity(grants[h], grants'[h])
        <3>1. CASE grants[h] = Nil
            <4>1. h \notin Entries(grants)
                BY <3>1 DEF Entries
            <4> QED
                BY <2>1, <4>1 DEF tick, Updated, GrantsOf
        <3>2. CASE grants[h] # Nil
            <4>1. \/ grants'[h] \in {grants[h], Downgraded(grants[h])}
                  \/ grants'[h] = [grants[h] EXCEPT !.state = "Expired"]
                BY <2>1 DEF tick, Updated
            <4>2. grants[h] \in GrantRecord
                BY <3>2 DEF IInv, TypeOK
            <4>3. CASE grants'[h] = [grants[h] EXCEPT !.state = "Expired"]
                <5>1. grants'[h].state = "Expired"
                    BY <4>2, <4>3 DEF GrantRecord
                <5>2. grants[h].state = "Expired" => grants'[h] = grants[h]
                    BY <4>2, <4>3 DEF GrantRecord
                <5> QED
                    BY <3>2, <5>1, <5>2 DEF releases_capacity
            <4> QED
                BY <3>2, <4>1, <4>3
        <3> QED
            BY <3>1, <3>2
    <2> QED
        BY <2>2, <2>3
<1> QED
    BY <1>3, <1>4, <1>5, <1>6 DEF Request

\* An intent that was never completed resolves to the tables the request left, or,
\* where it gives capacity back, to the tables before it, settled.
LEMMA IntentSettles ==
    ASSUME IInv, IInv', Request, durable \in Images, Matches(durable)
    PROVE  \/ Settles(grants', apply_replay(TRUE).grants)
           \/ /\ UNCHANGED <<epoch, policy, paths, oversubscriptions>>
              /\ \A s \in Entries(sites) : sites'[s].incarnation = sites[s].incarnation
              /\ Settles(grants, apply_replay(TRUE).grants)
<1> DEFINE R(g) == ReplayedGrant(g, TRUE)
<1>1. /\ apply_replay(TRUE).grants = [g \in Requests |-> R(g)]
      /\ \A g \in Requests : R(g) \in GrantRecord \cup {Nil}
    BY ReplayedTables, ReplayedAmbiguous
<1>2. ASSUME NEW g \in Requests
      PROVE  /\ \/ R(g) = Nil /\ grants[g] = Nil
                \/ /\ grants'[g] # Nil /\ SameFields(R(g), grants'[g])
                   /\ grants[g] = Nil \/ ~releases_capacity(grants[g], grants'[g])
                \/ /\ grants[g] # Nil /\ releases_capacity(grants[g], grants'[g])
                   /\ SameFields(R(g), grants[g]) \/ SameFields(R(g), Downgraded(grants[g]))
    BY ReplayedAmbiguous
<1>3. ASSUME NEW g \in Requests PROVE R(g) = Nil <=> grants'[g] = Nil
    <2>1. /\ grants[g] \in GrantRecord \cup {Nil} /\ grants'[g] \in GrantRecord \cup {Nil}
          /\ durable.grants[g] \in GrantRecord \cup {Nil}
          /\ durable.grants[g] = Nil <=> grants[g] = Nil
        <3>1. /\ grants[g] \in GrantRecord \cup {Nil} /\ grants'[g] \in GrantRecord \cup {Nil}
              /\ durable.grants[g] \in GrantRecord \cup {Nil}
            BY DEF IInv, TypeOK, Images
        <3>2. SameGrant(durable.grants[g], grants[g])
            BY DEF Matches
        <3> QED
            BY <3>1, <3>2, SameGrantFields
    <2>2. grants[g] # Nil => g \in Entries(grants) /\ grants'[g] \in GrantRecord
        BY EntriesStay DEF Entries, IInv, TypeOK
    <2>3. CASE grants'[g] = grants[g]
        BY <2>1, <2>3 DEF ReplayedGrant
    <2>4. CASE grants'[g] # grants[g]
        <3>1. grants'[g] \in GrantRecord
            BY <2>1, <2>2, <2>4
        <3>2. releases_capacity(grants[g], grants'[g]) =>
                    /\ grants[g] \in GrantRecord /\ durable.grants[g] \in GrantRecord
                    /\ Downgraded(grants[g]) \in GrantRecord
            BY <2>1, DowngradedType DEF releases_capacity
        <3>3. R(g) \in GrantRecord
            BY <2>4, <3>1, <3>2, RecoveredSame DEF ReplayedGrant
        <3> QED
            BY <3>1, <3>3, NilAssumption
    <2> QED
        BY <2>3, <2>4
<1> HIDE DEF R
<1>4. CASE \E g \in Entries(grants) : releases_capacity(grants[g], grants'[g])
    <2>1. PICK g \in Entries(grants) : releases_capacity(grants[g], grants'[g])
        BY <1>4
    <2>2. /\ UNCHANGED <<epoch, policy, paths, oversubscriptions>>
          /\ \A s \in Entries(sites) : sites'[s].incarnation = sites[s].incarnation
        BY <2>1, ReleaseFrame, ReleaseLeaves
    <2>3. ASSUME NEW h \in Requests
          PROVE  /\ grants[h] = Nil <=> R(h) = Nil
                 /\ grants[h] # Nil => \/ SameFields(R(h), grants[h])
                                       \/ SameFields(R(h), Downgraded(grants[h]))
        <3>1. \/ grants'[h] = grants[h]
              \/ grants[h] # Nil /\ grants'[h] = Downgraded(grants[h])
              \/ releases_capacity(grants[h], grants'[h])
            BY <2>1, ReleaseLeaves
        <3>2. grants[h] # Nil => grants'[h] # Nil
            <4>1. grants[h] # Nil => h \in Entries(grants)
                BY DEF Entries, IInv, TypeOK
            <4> QED
                BY <4>1, EntriesStay, NilAssumption
        <3>3. grants[h] = Nil <=> grants'[h] = Nil
            BY <3>1, <3>2 DEF releases_capacity
        <3> QED
            BY <1>2, <1>3, <3>1, <3>3
    <2>4. Settles(grants, apply_replay(TRUE).grants)
        BY <1>1, <2>3 DEF Settles
    <2> QED
        BY <2>2, <2>4
<1>5. CASE \A g \in Entries(grants) : ~ releases_capacity(grants[g], grants'[g])
    <2>1. ASSUME NEW h \in Requests
          PROVE  /\ grants'[h] = Nil <=> R(h) = Nil
                 /\ grants'[h] # Nil => SameFields(R(h), grants'[h])
        <3>1. grants[h] # Nil => h \in Entries(grants)
            BY DEF Entries, IInv, TypeOK
        <3> QED
            BY <1>2, <1>3, <1>5, <3>1
    <2> QED
        BY <1>1, <2>1 DEF Settles
<1> QED
    BY <1>4, <1>5

\* The tables as planned are as sound as the authority keeps them.
LEMMA ImageSound == IInv => Image \in Images /\ Sound(Image)
<1> SUFFICES ASSUME IInv PROVE Image \in Images /\ Sound(Image)
    OBVIOUS
<1>1. Image \in Images
    BY DEF Image, Images, IInv, TypeOK
<1>2. Matches(Image)
    BY DEF Image, Matches, SameGrant
<1> QED
    BY <1>1, <1>2, MatchesSound

LEMMA ImageSoundNext == (IInv => Image \in Images /\ Sound(Image))'
BY ImageSound, PTL

\* Tables on disk that match those planned pass the check if these do.
LEMMA MatchesPass ==
    ASSUME IInv, Bounded(oversubscriptions), NEW d \in Images, Matches(d), Passes(Image)
    PROVE  Passes(d)
<1>1. Image \in Images /\ Sound(Image)
    BY ImageSound
<1>2. /\ Image.epoch = epoch /\ Image.policy = policy /\ Image.paths = paths
      /\ Image.oversubscriptions = oversubscriptions /\ Image.sites = sites
      /\ Image.grants = grants
    BY DEF Image
<1>3. Settles(grants, d.grants)
    <2>1. ASSUME NEW g \in Requests
          PROVE  /\ grants[g] = Nil <=> d.grants[g] = Nil
                 /\ grants[g] # Nil => SameFields(d.grants[g], grants[g])
        <3>1. d.grants[g] \in GrantRecord \cup {Nil} /\ grants[g] \in GrantRecord \cup {Nil}
            BY DEF Images, IInv, TypeOK
        <3>2. SameGrant(d.grants[g], grants[g])
            BY DEF Matches
        <3> QED
            BY <3>1, <3>2, SameGrantFields
    <2> QED
        BY <2>1 DEF Settles
<1>4. /\ d.epoch = epoch /\ d.policy = policy /\ d.paths = paths /\ d.sites = sites
      /\ d.oversubscriptions = oversubscriptions
    BY DEF Matches
<1> QED
    BY <1>1, <1>2, <1>3, <1>4, SettledPasses

\* The check is about the tables alone.
LEMMA CheckUnchanged ==
    ASSUME IInv, UNCHANGED vars
    PROVE  (verify_invariants' <=> verify_invariants) /\ Image' = Image
<1>1. TypeOK /\ TypeOK'
    BY IInvStutter DEF IInv
<1>2. Image' = Image
    BY DEF Image, vars
<1>3. /\ UnavailableWithinUsable' <=> UnavailableWithinUsable
      /\ ReferencesExist' <=> ReferencesExist
      /\ ActiveVerified' <=> ActiveVerified
      /\ validate(policy') <=> validate(policy)
    BY DEF vars, UnavailableWithinUsable, ReferencesExist, ActiveVerified
<1> QED
    BY <1>1, <1>2, <1>3, CheckIs, CheckIsNext

\* Empty tables pass.
LEMMA RInvInit == DaemonInit => RInv
<1> SUFFICES ASSUME DaemonInit PROVE RInv
    OBVIOUS
<1>1. Matches(durable) /\ pending = Nil /\ daemon = "Serving"
    BY DEF DaemonInit, Image, Matches, SameGrant
<1>2. SizesFit
    BY DEF DaemonInit, Init, SizesFit, UsablesFit, Bounded, Entries
<1>3. Passes(Image)
    BY DEF DaemonInit, Init, Image, Passes, Entries
<1> QED
    BY <1>1, <1>2, <1>3 DEF RInv

\* Tables an open intent resolves to pass if those planned do.
LEMMA IntentPasses ==
    ASSUME DInv, RInv, RecordIntent PROVE RInv'
<1>1. IInv /\ Request /\ durable \in Images /\ Matches(durable) /\ Passes(Image) /\ SizesFit
    BY DEF DInv, RInv, RecordIntent, Sound
<1>2. IInv' /\ SizesFit'
    BY <1>1, RequestSafe, SizesRequest
<1>3. /\ daemon' = "Logged" /\ durable' = durable
      /\ pending' = [committed |-> apply_replay(FALSE), ambiguous |-> apply_replay(TRUE)]
    BY DEF RecordIntent
<1> DEFINE e == apply_replay(TRUE)
<1>4. e \in Images
    BY <1>1, <1>2, AmbiguousSound DEF Sound
<1>5. pending' # Nil
    BY IntentIsOne
<1>6. /\ e.epoch = epoch' /\ e.policy = policy' /\ e.sites = sites' /\ e.paths = paths'
      /\ e.oversubscriptions = oversubscriptions'
    BY <1>1, <1>2, ReplayedTables
<1> HIDE DEF e
<1>7. ASSUME verify_invariants' PROVE Passes(e)
    <2>1. CASE Settles(grants', e.grants)
        <3>1. Image' \in Images /\ Sound(Image')
            BY <1>2, ImageSoundNext
        <3>2. Passes(Image')
            BY <1>2, <1>7, CheckIsNext DEF IInv
        <3>3. /\ Image'.epoch = epoch' /\ Image'.policy = policy' /\ Image'.paths = paths'
              /\ Image'.oversubscriptions = oversubscriptions' /\ Image'.sites = sites'
              /\ Image'.grants = grants'
            BY DEF Image
        <3>4. Bounded(oversubscriptions')
            BY <1>2 DEF SizesFit
        <3> QED
            BY <1>4, <1>6, <2>1, <3>1, <3>2, <3>3, <3>4, SettledPasses
    <2>2. CASE /\ UNCHANGED <<epoch, policy, paths, oversubscriptions>>
               /\ \A s \in Entries(sites) : sites'[s].incarnation = sites[s].incarnation
               /\ Settles(grants, e.grants)
        <3>1. Image \in Images /\ Sound(Image)
            BY <1>1, ImageSound
        <3>2. /\ Image.epoch = epoch /\ Image.policy = policy /\ Image.paths = paths
              /\ Image.oversubscriptions = oversubscriptions /\ Image.sites = sites
              /\ Image.grants = grants
            BY DEF Image
        <3>3. Bounded(oversubscriptions)
            BY <1>1 DEF SizesFit
        <3> QED
            BY <1>1, <1>4, <1>6, <2>2, <3>1, <3>2, <3>3, SettledPasses
    <2> QED
        BY <1>1, <1>2, <2>1, <2>2, IntentSettles DEF e
<1>8. pending.ambiguous' = e
    BY <1>3 DEF e
<1> QED
    BY <1>2, <1>3, <1>5, <1>6, <1>7, <1>8 DEF RInv

\* The rest of a commit, a failure and a halt leave the tables as planned alone.
LEMMA QuietPasses ==
    ASSUME verify_after_mutation, DInv, RInv,
           \/ IntentRecordFails \/ Apply \/ CompleteCommit \/ VerifyFails \/ CommitRecordFails
           \/ Halt \/ UNCHANGED dvars
    PROVE  RInv'
<1>1. UNCHANGED vars
    BY DEF IntentRecordFails, Apply, CompleteCommit, VerifyFails, CommitRecordFails, Halt, dvars
<1>2. /\ (verify_invariants' <=> verify_invariants) /\ Image' = Image
      /\ UNCHANGED <<policy, paths, oversubscriptions>>
    BY <1>1, CheckUnchanged DEF DInv, vars
<1>3. SizesFit'
    BY <1>2 DEF RInv, SizesFit, UsablesFit
<1>4. CASE CompleteCommit
    <2>1. pending' = Nil /\ daemon' = "Serving" /\ verify_invariants
        BY <1>4 DEF CompleteCommit
    <2>2. Matches(durable')
        BY <1>4, SnapshotMatches DEF DInv, CompleteCommit
    <2>3. Matches(durable)'
        BY <1>1, <2>2 DEF vars, Matches
    <2>4. Passes(Image)
        BY <2>1, CheckIs DEF DInv, IInv
    <2> QED
        BY <1>2, <1>3, <2>1, <2>3, <2>4 DEF RInv
<1>5. CASE CommitRecordFails /\ durable' = pending.committed /\ pending' = Nil
    <2>1. Matches(durable') /\ daemon' = "Serving" /\ durability_failed'
        BY <1>5 DEF DInv, CommitRecordFails
    <2>2. Matches(durable)'
        BY <1>1, <2>1 DEF vars, Matches
    <2> QED
        BY <1>3, <1>5, <2>1, <2>2 DEF RInv
<1>6. CASE /\ UNCHANGED <<durable, pending>>
           /\ daemon' = "Serving" /\ ~durability_failed' =>
                daemon = "Serving" /\ ~durability_failed
           /\ daemon' \in {"Logged", "Applied"} => daemon \in {"Logged", "Applied"}
    <2>1. Matches(durable)' <=> Matches(durable)
        BY <1>1, <1>6, UnchangedTables
    <2> QED
        BY <1>2, <1>3, <1>6, <2>1 DEF RInv
<1>7. ASSUME \/ IntentRecordFails \/ Apply \/ VerifyFails \/ CommitRecordFails \/ Halt
             \/ UNCHANGED dvars,
             UNCHANGED <<durable, pending>>
      PROVE  /\ daemon' = "Serving" /\ ~durability_failed' =>
                daemon = "Serving" /\ ~durability_failed
             /\ daemon' \in {"Logged", "Applied"} => daemon \in {"Logged", "Applied"}
    BY <1>7 DEF IntentRecordFails, Apply, VerifyFails, CommitRecordFails, Halt, dvars
<1>8. \/ UNCHANGED <<durable, pending>>
      \/ CompleteCommit
      \/ CommitRecordFails /\ durable' = pending.committed /\ pending' = Nil
    BY DEF IntentRecordFails, Apply, VerifyFails, CommitRecordFails, Halt, dvars
<1> QED
    BY <1>4, <1>5, <1>6, <1>7, <1>8

\* What a restart loads is what was planned of paths, policy and oversubscription.
LEMMA LoadedTables ==
    ASSUME DInv, RInv, Restart
    PROVE  /\ Recovered \in Images /\ Image' = Recovered
           /\ UNCHANGED <<policy, paths, oversubscriptions>>
<1>1. Recovered \in Images
    BY DEF Recovered, DInv, Sound
<1>2. Image' = Recovered
    BY <1>1 DEF Image, Images, Restart
<1>3. /\ Recovered.policy = policy /\ Recovered.paths = paths
      /\ Recovered.oversubscriptions = oversubscriptions
    BY DEF Recovered, RInv, Matches
<1> QED
    BY <1>1, <1>2, <1>3 DEF Restart

\* A daemon that starts serves what passed the check.
LEMMA RestartPasses ==
    ASSUME DInv, RInv, Restart PROVE RInv'
<1>1. SizesFit'
    BY LoadedTables DEF RInv, SizesFit, UsablesFit
<1>2. /\ pending' = Nil /\ daemon' \notin {"Logged", "Applied"}
      /\ daemon' = "Serving" => verify_invariants'
    BY DEF Restart
<1>3. Matches(durable)'
    BY DEF Restart, Matches, SameGrant
<1>4. TypeOK'
    BY RestartInv DEF DInv, IInv
<1>5. daemon' = "Serving" => Passes(Image')
    BY <1>2, <1>4, CheckIsNext
<1> QED
    BY <1>1, <1>2, <1>3, <1>5 DEF RInv

\* A daemon that checks after every mutation keeps the invariant.
LEMMA RInvAlways ==
    ASSUME verify_after_mutation PROVE DaemonSpec => [](DInv /\ RInv)
<1>1. DInv /\ RInv /\ [DaemonNext]_dvars => RInv'
    BY IntentPasses, QuietPasses, RestartPasses DEF DaemonNext
<1> QED
    BY <1>1, RInvInit, DInvInit, DInvNext, PTL DEF DaemonSpec

------------------------------------------------------------------------------
(* The theorems *)

\* Whenever the last request was answered with success, replaying the log gives
\* the tables in memory, but for what a restart resets (commit, apply_replay,
\* from_snapshot).  Inside a commit and after a failed one, memory is what the complete
\* part of the log gives, or that with the intent at its end.
THEOREM DiskMatchesMemory == DaemonSpec => []DurableMatchesMemory
<1>1. DInv /\ MInv => DurableMatchesMemory
    <2> SUFFICES ASSUME DInv, MInv PROVE DurableMatchesMemory
        OBVIOUS
    <2>1. ASSUME daemon = "Serving" /\ ~durability_failed PROVE Restores(durable)
        BY <2>1, MatchesRestores DEF DInv, MInv, Sound
    <2> QED
        BY <2>1 DEF DurableMatchesMemory, MInv, Shown
<1> QED
    BY <1>1, MInvAlways, PTL

\* No restart frees capacity that the complete part of the log held, whichever
\* step of a commit the process died in (apply_replay of an ambiguous intent).
THEOREM RestartKeepsCapacity == DaemonSpec => RestartNeverReleases
<1> DEFINE Kept == daemon = "Down" => \A g \in Entries(durable.grants) :
                        holds_capacity(durable.grants[g].state) => holds_capacity(grants'[g].state)
<1>1. DInv /\ [DaemonNext]_dvars => [Kept]_dvars
    <2> SUFFICES ASSUME DInv, DaemonNext, daemon = "Down",
                        NEW g \in Entries(durable.grants), holds_capacity(durable.grants[g].state)
                 PROVE  holds_capacity(grants'[g].state)
        OBVIOUS
    <2>1. grants' = Recovered.grants
        BY DEF DaemonNext, RecordIntent, IntentRecordFails, Apply, CompleteCommit, VerifyFails,
               CommitRecordFails, Halt, Restart
    <2> QED
        BY <2>1 DEF Recovered, DInv, Keeps
<1> HIDE DEF Kept
<1>2. DaemonSpec => [][Kept]_dvars
    BY <1>1, DInvAlways, PTL DEF DaemonSpec
<1> QED
    BY <1>2 DEF Kept, RestartNeverReleases

\* A lost site's grants are neither reserved nor active in a daemon that may be
\* killed and restarted at any point either: the state a site was given is
\* recovered together with the downgrades of its grants.
THEOREM LostSitesIdleAfterRestart == DaemonSpec => []LostSiteIdle
<1>1. DInv => LostSiteIdle
    BY DEF DInv, IInv
<1> QED
    BY <1>1, DInvAlways, PTL

\* Nor does a restart leave an authorised grant bound to what is no longer
\* current: of an uncompleted intent, either both sides of a binding are
\* recovered or neither is.
THEOREM BindingsCurrentAfterRestart == DaemonSpec => []AuthorisedBindingCurrent
<1>1. DInv => AuthorisedBindingCurrent
    BY DEF DInv, IInv
<1> QED
    BY <1>1, DInvAlways, PTL

\* A grant recovered from an uncompleted intent becomes eligible, reserved or
\* active only by reconcile_grant (check_binding refuses a marked grant), as long
\* as no operation gives "reconcile" for its reason, which check_binding lets pass.
THEOREM AmbiguousNeedsReconciliation ==
    ASSUME \A op \in Ops : ~op.reconcile
    PROVE  DaemonSpec => AmbiguousNeverAdvances
<1> DEFINE Reconciled(g) == \E target \in ReconcileTargets : reconcile_grant(g, target)
           Stays == daemon = "Serving" =>
                        \A g \in Entries(grants) :
                            /\ grants[g].ambiguous
                            /\ grants'[g].state # grants[g].state
                            /\ grants'[g].state \in {"Eligible", "Reserved", "Active"}
                            => Reconciled(g)
<1>1. DInv /\ [DaemonNext]_dvars => [Stays]_dvars
    <2> SUFFICES ASSUME DInv, DaemonNext, daemon = "Serving", NEW g \in Entries(grants),
                        grants[g].ambiguous, grants'[g].state # grants[g].state,
                        grants'[g].state \in Advanced
                 PROVE  Reconciled(g)
        BY DEF Advanced
    <2> HIDE DEF Reconciled
    <2>1. IInv /\ g \in Requests /\ grants[g] # Nil /\ DOMAIN grants = Requests
        BY DEF DInv, IInv, TypeOK, Entries
    <2>2. Request
        <3>1. ~(\/ IntentRecordFails \/ Apply \/ CompleteCommit \/ VerifyFails
                \/ CommitRecordFails \/ Halt \/ Restart)
            BY DEF IntentRecordFails, Apply, CompleteCommit, VerifyFails, CommitRecordFails, Halt,
                   Restart, vars
        <3> QED
            BY <3>1 DEF DaemonNext, RecordIntent
    <2>3. ASSUME Invalidated(grants[g].state, grants'[g].state) PROVE FALSE
        BY <2>3 DEF Invalidated, Advanced
    <2>4. CASE ConfigNext \/ SiteNext \/ PathNext
        BY <2>1, <2>3, <2>4, RequestsInvalidate
    <2>5. CASE OversubscriptionNext
        BY <2>5 DEF OversubscriptionNext, issue_oversubscription
    <2>6. CASE GrantNext
        <3>1. PICK h \in Requests : \E r \in GrantRecord : GrantMove(h, r)
            BY <2>1, <2>6, GrantMoves
        <3>2. PICK r \in GrantRecord : GrantMove(h, r)
            BY <3>1
        <3>3. g = h /\ grants'[g] = r
            BY <2>1, <3>2 DEF GrantMove
        <3>4. ASSUME NEW op \in Ops, check_binding(grants[g], op) PROVE Reconciled(g)
            <4>1. grants[g].state = "Withdrawing"
                BY <3>4 DEF check_binding
            <4>2. ~can_transition(grants[g].state, grants'[g].state)
                BY <4>1 DEF can_transition, Advanced
            <4> QED
                BY <2>1, <3>2, <3>3, <4>2 DEF GrantMove, Reconciled
        <3> QED
            BY <2>1, <3>2, <3>3, <3>4 DEF GrantMove, Reconciled
    <2>7. CASE \E now_ms \in Times : tick(now_ms)
        BY <2>1, <2>3, <2>7, TickInvalidates DEF Advanced
    <2> QED
        BY <2>2, <2>4, <2>5, <2>6, <2>7 DEF Request
<1> HIDE DEF Stays
<1>2. DaemonSpec => [][Stays]_dvars
    BY <1>1, DInvAlways, PTL DEF DaemonSpec
<1> QED
    BY <1>2 DEF Stays, AmbiguousNeverAdvances

\* A daemon comes up again if the tables with the intent at the end of the log applied
\* would pass verify_invariants, whichever step of a commit it stopped in, as long as it
\* checks after every mutation and its policy asks for no verification of active grants,
\* which mark_recovered takes away: resolving that intent conservatively builds no
\* tables that start refuses.
THEOREM SoundTablesRestart ==
    ASSUME verify_after_mutation
    PROVE  DaemonSpec /\ []~policy.require_verification_for_active => RestartsWhenSound
<1> DEFINE Lax == ~policy.require_verification_for_active
           Comes == daemon = "Down" /\ verify_invariants => daemon' = "Serving"
<1>1. DInv /\ RInv /\ Lax' /\ [DaemonNext]_dvars => [Comes]_dvars
    <2> SUFFICES ASSUME DInv, RInv, Lax', DaemonNext, daemon = "Down", verify_invariants
                 PROVE  daemon' = "Serving"
        OBVIOUS
    <2>1. Restart
        BY DEF DaemonNext, RecordIntent, IntentRecordFails, Apply, CompleteCommit, VerifyFails,
               CommitRecordFails, Halt
    <2>2. /\ Recovered \in Images /\ Image' = Recovered
          /\ UNCHANGED <<policy, paths, oversubscriptions>>
        BY <2>1, LoadedTables
    <2>3. IInv'
        BY <2>1, RestartInv DEF DInv
    <2>4. Passes(Image) /\ validate(policy)
        BY CheckIs DEF DInv, IInv
    <2>5. Passes(Recovered)
        <3>1. CASE pending = Nil
            <4>1. Recovered = durable /\ Matches(durable)
                BY <3>1 DEF Recovered, RInv
            <4>2. Bounded(oversubscriptions) /\ IInv
                BY DEF RInv, SizesFit, DInv
            <4> QED
                BY <2>2, <2>4, <4>1, <4>2, MatchesPass
        <3>2. CASE pending # Nil
            BY <3>2 DEF Recovered, RInv
        <3> QED
            BY <3>1, <3>2
    <2>6. ActiveVerified'
        BY DEF ActiveVerified
    <2>7. UnavailableWithinUsable' /\ ReferencesExist' /\ TypeOK'
        BY <2>3 DEF IInv
    <2>8. verify_invariants'
        BY <2>2, <2>4, <2>5, <2>6, <2>7, CheckIsNext
    <2> QED
        BY <2>1, <2>8 DEF Restart
<1> HIDE DEF Lax, Comes
<1>2. DaemonSpec /\ []Lax => [][Comes]_dvars
    BY <1>1, RInvAlways, PTL DEF DaemonSpec
<1> QED
    BY <1>2 DEF Lax, Comes, RestartsWhenSound

==============================================================================
