------------------------------ MODULE Lifecycle ------------------------------
(***************************************************************************)
(* The three state machines of lifecycle.cpp: grants, sites and paths.     *)
(* Names are those of the source; state names are the enumerators.         *)
(***************************************************************************)

GrantState == {"Proposed", "Eligible", "Reserved", "Active", "Degraded",
               "Withdrawing", "Retired", "Refused", "Cancelled", "Expired"}

SiteState == {"Unknown", "Up", "Degraded", "Partitioned", "Down", "Fenced",
              "Maintenance", "Draining"}

PathState == {"Unknown", "Up", "Degraded", "Down", "Maintenance", "Draining",
              "Fenced"}

VerificationState == {"Unverified", "Verified", "Failed", "Indeterminate"}

GrantClass == {"General", "Protected"}

is_terminal(s) == s \in {"Retired", "Refused", "Cancelled", "Expired"}

holds_capacity(s) == s \in {"Reserved", "Active", "Degraded", "Withdrawing"}

is_reclaimable(s) == s \in {"Reserved", "Degraded", "Withdrawing"}

\* States whose capacity is both held and authorised: every holding state but
\* Withdrawing, which only waits for the holder to let go.
authorised(s) == s \in {"Reserved", "Active", "Degraded"}

\* The states whose recorded dependencies must match live state.
requires_current_binding(s) ==
    s \in {"Proposed", "Eligible", "Reserved", "Active", "Degraded"}

\* kGrantTransitions: the legal (from, to) pairs.
can_transition(from, to) ==
    \/ from = "Proposed"    /\ to \in {"Eligible", "Refused", "Cancelled"}
    \/ from = "Eligible"    /\ to \in {"Reserved", "Refused", "Cancelled", "Expired"}
    \/ from = "Reserved"    /\ to \in {"Active", "Withdrawing", "Cancelled", "Expired"}
    \/ from = "Active"      /\ to \in {"Degraded", "Withdrawing", "Expired"}
    \/ from = "Degraded"    /\ to \in {"Active", "Withdrawing", "Expired"}
    \/ from = "Withdrawing" /\ to \in {"Retired", "Expired"}

site_accepts_new_reservations(s) == s \in {"Up", "Degraded"}

site_requires_degradation(s) == s \in {"Partitioned", "Down", "Fenced", "Maintenance"}

path_accepts_new_reservations(s) == s \in {"Up", "Degraded"}

path_requires_degradation(s) == s \in {"Down", "Fenced", "Maintenance"}
==============================================================================
