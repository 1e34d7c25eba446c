-------------------------------- MODULE Daemon --------------------------------
(***************************************************************************)
(* The daemon's commit pipeline and its recovery (daemon.cpp), around the  *)
(* authority.  A request is planned, its changes are made durable as an    *)
(* intent record, applied in memory, checked, and confirmed by a commit    *)
(* record; the caller gets its answer after that.  All of it runs under    *)
(* commit_mutex_, but the process may die between any two of these steps,  *)
(* and readers, who take only state_mutex_, see memory between them.       *)
(*                                                                         *)
(* The variables of Authority are the tables as planned: those in memory   *)
(* and, once an intent is in the log, those that applying it makes.        *)
(* Between the intent and its application, and for good when the intent is *)
(* in the log but its flush failed, memory is still what it was before.    *)
(*                                                                         *)
(* The disk is represented by what replaying it gives: durable, for the    *)
(* part of the log that is complete, and pending, for an intent record     *)
(* that no commit record follows.  Module Store has the log itself.        *)
(*                                                                         *)
(* A request whose changes leave every table as it was is no step.  That   *)
(* apply cannot decode an image is left to module Exchange.                *)
(* Definitions named X_... are faulty variants of X, as in Authority.      *)
(***************************************************************************)
EXTENDS Authority

VARIABLES daemon,             \* "Serving"; "Logged" and "Applied", inside commit; "Down";
                              \* "Refused", start failed
          durability_failed,
          memory,             \* the tables in memory
          durable, pending

dvars == <<vars, daemon, durability_failed, memory, durable, pending>>

Image == [epoch |-> epoch, policy |-> policy, sites |-> sites, paths |-> paths,
          domains |-> domains, attestations |-> attestations,
          oversubscriptions |-> oversubscriptions, grants |-> grants,
          verifications |-> verifications]

\* The tables that a replay of the log may build.
Images ==
    [epoch : Nat, policy : Policy, sites : [Sites -> SiteRecord \cup {Nil}],
     paths : [Paths -> PathRecord \cup {Nil}], domains : SUBSET Domains,
     attestations : SUBSET AttestationIds,
     oversubscriptions : [OversubIds -> OversubscriptionAuthority \cup {Nil}],
     grants : [Requests -> GrantRecord \cup {Nil}], verifications : SUBSET VerificationIds]

\* An intent can be told from none.
ASSUME PendingAssumption == Nil \notin [committed : Images, ambiguous : Images]

------------------------------------------------------------------------------
(* Replay *)

\* mark_recovered: evidence is never silently fresh after a restart.
mark_recovered(r, ambiguous) ==
    [r EXCEPT !.verification = "Unverified", !.ambiguous = ambiguous]

\* The planners' mark on a change to a grant: capacity would be given back.
releases_capacity(r, new) ==
    /\ r # Nil /\ new.state # r.state
    /\ \/ new.state \in {"Retired", "Expired"}
       \/ new.state = "Cancelled" /\ holds_capacity(r.state)

\* A table after the records a request changed in memory are replayed into it.
Replayed(table, old, new) ==
    [k \in DOMAIN table |-> IF new[k] # old[k] THEN new[k] ELSE table[k]]

\* Nothing an uncompleted intent says about grants is replayed.
ReplayedGrant_CompletedOnly(g, ambiguous) ==
    IF ambiguous \/ grants'[g] = grants[g] THEN durable.grants[g]
    ELSE mark_recovered(grants'[g], FALSE)

\* A grant's record after the request's change to it is replayed.  Of an
\* intent that was never completed, releases are left out; of a tick that both
\* downgrades and expires a grant, the downgrade remains.
ReplayedGrant(g, ambiguous) ==
    IF grants'[g] = grants[g] THEN durable.grants[g]
    ELSE IF ambiguous /\ releases_capacity(grants[g], grants'[g])
    THEN LET h == grants[g].holder IN
         mark_recovered(IF sites'[h] # sites[h] THEN Downgraded(grants[g]) ELSE durable.grants[g],
                        TRUE)
    ELSE mark_recovered(grants'[g], ambiguous)

\* apply_replay for one intent record, on top of what the log held before it.
apply_replay(ambiguous) ==
    [epoch |-> IF epoch' # epoch THEN epoch' ELSE durable.epoch,
     policy |-> IF policy' # policy THEN policy' ELSE durable.policy,
     sites |-> Replayed(durable.sites, sites, sites'),
     paths |-> Replayed(durable.paths, paths, paths'),
     domains |-> durable.domains \cup domains',
     attestations |-> durable.attestations \cup attestations',
     oversubscriptions |-> Replayed(durable.oversubscriptions, oversubscriptions,
                                    oversubscriptions'),
     grants |-> [g \in Requests |-> ReplayedGrant(g, ambiguous)],
     verifications |-> durable.verifications \cup verifications']

\* from_snapshot, of the snapshot of the current tables.
from_snapshot ==
    [Image EXCEPT !.grants = [g \in Requests |->
        IF grants[g] = Nil \/ is_terminal(grants[g].state) THEN grants[g]
        ELSE [grants[g] EXCEPT !.verification = "Unverified"]]]

------------------------------------------------------------------------------
DaemonInit ==
    /\ Init
    /\ daemon = "Serving"
    /\ durability_failed = FALSE
    /\ memory = Image
    /\ durable = Image
    /\ pending = Nil

\* The intent is on disk, flushed or not.
RecordIntent ==
    /\ daemon = "Serving"
    /\ ~durability_failed
    /\ Request
    /\ vars' # vars
    /\ pending' = [committed |-> apply_replay(FALSE), ambiguous |-> apply_replay(TRUE)]
    /\ daemon' = "Logged"
    /\ UNCHANGED <<durability_failed, memory, durable>>

\* The intent record could not be written, and nothing of it counts; or it could
\* not be flushed, and has reached the disk all the same.  The caller is told that
\* the daemon is unavailable.
IntentRecordFails ==
    /\ daemon = "Logged" \/ (daemon = "Serving" /\ ~durability_failed)
    /\ durability_failed' = TRUE
    /\ daemon' = "Serving"
    /\ UNCHANGED <<vars, memory, durable, pending>>

\* The changes are in memory; readers see them.
Apply ==
    /\ daemon = "Logged"
    /\ memory' = Image
    /\ daemon' = "Applied"
    /\ UNCHANGED <<vars, durability_failed, durable, pending>>

\* The rest of commit, with the compaction the log's size may call for; the
\* caller is told that the request succeeded.
CompleteCommit ==
    /\ daemon = "Applied"
    /\ verify_after_mutation => verify_invariants
    /\ durable' \in {pending.committed, from_snapshot}
    /\ pending' = Nil
    /\ daemon' = "Serving"
    /\ UNCHANGED <<vars, durability_failed, memory>>

\* The changes are in memory and in the log, and no further request is accepted.
VerifyFails ==
    /\ daemon = "Applied"
    /\ verify_after_mutation /\ ~verify_invariants
    /\ durability_failed' = TRUE
    /\ daemon' = "Serving"
    /\ UNCHANGED <<vars, memory, durable, pending>>

\* Requests are accepted as if nothing had happened.
CommitRecordFails_Ignored ==
    /\ daemon = "Applied"
    /\ verify_after_mutation => verify_invariants
    /\ daemon' = "Serving"
    /\ UNCHANGED <<vars, durability_failed, memory, durable, pending>>

\* The commit record could not be written, or could not be flushed and may have
\* reached the disk; the caller is told that the outcome is indeterminate.
CommitRecordFails ==
    /\ daemon = "Applied"
    /\ verify_after_mutation => verify_invariants
    /\ \/ UNCHANGED <<durable, pending>>
       \/ durable' = pending.committed /\ pending' = Nil
    /\ durability_failed' = TRUE
    /\ daemon' = "Serving"
    /\ UNCHANGED <<vars, memory>>

\* The process stops or is killed.  Memory is gone; the tables as planned are kept
\* for what the properties say of the log that is left.
Halt ==
    /\ daemon \in {"Serving", "Logged", "Applied"}
    /\ daemon' = "Down"
    /\ memory' = Nil
    /\ UNCHANGED <<vars, durability_failed, durable, pending>>

\* The intent is taken as if it had been completed.
Recovered_AsCommitted == IF pending = Nil THEN durable ELSE pending.committed

\* What the log gives: a trailing intent is resolved conservatively.
Recovered == IF pending = Nil THEN durable ELSE pending.ambiguous

\* open closes a trailing intent with an abort record, apply_replay rebuilds the
\* tables, and start refuses a state that verify_invariants rejects.
Restart ==
    /\ daemon = "Down"
    /\ epoch' = Recovered.epoch /\ policy' = Recovered.policy
    /\ sites' = Recovered.sites /\ paths' = Recovered.paths
    /\ domains' = Recovered.domains /\ attestations' = Recovered.attestations
    /\ oversubscriptions' = Recovered.oversubscriptions
    /\ grants' = Recovered.grants /\ verifications' = Recovered.verifications
    /\ memory' = Recovered
    /\ durable' = Recovered
    /\ pending' = Nil
    /\ durability_failed' = FALSE
    /\ daemon' = IF verify_invariants' THEN "Serving" ELSE "Refused"

DaemonNext ==
    \/ RecordIntent
    \/ IntentRecordFails
    \/ Apply
    \/ CompleteCommit
    \/ VerifyFails
    \/ CommitRecordFails
    \/ Halt
    \/ Restart

DaemonSpec == DaemonInit /\ [][DaemonNext]_dvars

------------------------------------------------------------------------------
(* Properties *)

\* A grant without what a restart resets: its verification and its ambiguity.
Lasting(r) == IF r = Nil THEN Nil ELSE mark_recovered(r, FALSE)

\* Replaying d gives the tables in memory, but for verification and ambiguity.
Restores(d) ==
    /\ \A g \in Requests : Lasting(d.grants[g]) = Lasting(memory.grants[g])
    /\ [d EXCEPT !.grants = memory.grants] = memory

\* TESTING.md: "a clean restart that preserves the digest and ledger exactly".
\* Whenever the last request was answered with success, replaying the log would
\* restore memory.  At any other time too, what readers see is in the log: the
\* complete part of it, or that with the intent at its end.
DurableMatchesMemory ==
    /\ daemon = "Serving" /\ ~durability_failed => Restores(durable)
    /\ daemon \in {"Serving", "Logged", "Applied"} =>
           Restores(durable) \/ (pending # Nil /\ Restores(pending.committed))

\* PERSISTENCE.md: capacity is released "only by a provably complete
\* transaction".  Whatever was held according to the complete part of the log is
\* held after a restart, whichever step of a commit the process died in.
RestartNeverReleases ==
    [][daemon = "Down" => \A g \in Entries(durable.grants) :
            holds_capacity(durable.grants[g].state) => holds_capacity(grants'[g].state)]_dvars

\* A daemon comes up again if the tables as planned, with the intent at the end of
\* the log applied, would pass verify_invariants, whichever step of a commit it
\* stopped in: resolving that intent conservatively, which leaves out some of its
\* changes, never builds tables that start refuses.  That the tables in memory pass
\* is not enough: an intent is in the log before anything checks it (Recoverable).
RestartsWhenSound ==
    [][daemon = "Down" /\ verify_invariants => daemon' = "Serving"]_dvars

\* ARCHITECTURE.md: after a failed check the daemon refuses mutations "until it
\* is restarted and recovered".  No start is refused.
Recoverable == daemon # "Refused"

\* README.md: grants recovered from an uncompleted intent "must be reconciled
\* explicitly before they can advance".  While one of them keeps its mark, no
\* operation makes it eligible, reserved or active again; only reconciliation does.
AmbiguousNeverAdvances ==
    [][daemon = "Serving" =>
        \A g \in Entries(grants) :
            /\ grants[g].ambiguous
            /\ grants'[g].state # grants[g].state
            /\ grants'[g].state \in {"Eligible", "Reserved", "Active"}
            => \E target \in ReconcileTargets : reconcile_grant(g, target)]_dvars
==============================================================================
