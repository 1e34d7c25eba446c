------------------------------ MODULE Messages ------------------------------
(***************************************************************************)
(* The encoders and the decoders of the records (model.cpp), of the change *)
(* sets and the snapshot (authority.cpp, store.cpp), of the envelopes and  *)
(* of the message bodies (protocol.cpp), each as the fields it writes or   *)
(* reads, in order; and which encoder and which decoder meet, for every    *)
(* message between a client and the daemon and for every record between    *)
(* the daemon and its log.  An encoder is written down from the encoding   *)
(* function and its decoder from the decoding one, each on its own, so     *)
(* that the two can be compared.                                           *)
(* Definitions named X_... are faulty variants of X.                       *)
(***************************************************************************)
EXTENDS Wire

------------------------------------------------------------------------------
(* Enumerations *)

SiteState == <<"Unknown", "Up", "Degraded", "Partitioned", "Maintenance", "Draining", "Down",
    "Fenced">>
PathState == <<"Unknown", "Up", "Degraded", "Down", "Maintenance", "Draining", "Fenced">>
GrantState == <<"Proposed", "Eligible", "Reserved", "Active", "Degraded", "Withdrawing", "Retired",
    "Refused", "Cancelled", "Expired">>
VerificationState == <<"Unverified", "Verified", "Failed", "Indeterminate">>
Provenance == <<"Live", "RecoveredFromSnapshot", "RecoveredFromLog", "PartitionRecovery",
    "OperatorReconcile", "AmbiguousCommit", "FencedIncarnation">>
GrantClass == <<"General", "Protected">>
RecoveryFidelity == <<"Exact", "TornTailTruncated", "DegradedTruncated", "AmbiguousIntentResolved",
    "Corrupt", "Incompatible", "Missing">>
Status == <<"Ok", "Unknown", "Unsupported", "Stale", "Conflicting", "Incomplete", "Indeterminate",
    "Refused", "Cancelled", "Invalid", "NotFound", "Duplicate", "Exhausted", "Denied",
    "LimitExceeded", "InvalidTransition", "Corrupt", "VersionMismatch", "Unauthorized", "Busy",
    "Expired", "Fenced", "Unavailable", "Ambiguous">>
ObjectKinds == 1 .. 10
RequestTypes == {1, 10, 20, 21, 22, 30, 31, 32, 33, 40, 41} \cup 50 .. 60 \cup 70 .. 77
ReplyTypes == {2, 3} \cup 100 .. 108

\* The ordinals an encoder may write, and those a decoder lets through that
\* compares with the last enumerator it knows.
Every(enum) == 0 .. Len(enum) - 1
UpTo(enum, last) == {n \in Every(enum) : \E i \in DOMAIN enum : enum[i] = last /\ n <= i - 1}
message_type_is_request == {1} \cup 10 .. 77
message_type_is_reply == {2, 3} \cup 100 .. 108

------------------------------------------------------------------------------
(* Records *)

EncSite == <<Id("id"), Str("name"), Id("incarnation"), U64("generation"), U64("epoch"),
    Ord("state", Every(SiteState)), U64("advertised_capacity"), U64("registered_at_ms"),
    U64("last_heartbeat_ms"), U32("missed_heartbeats"), Cut("fence_reason"),
    Ord("provenance", Every(Provenance))>>
decode_site == <<Id("id"), Str("name"), Id("incarnation"), U64("generation"), U64("epoch"),
    Ord("state", UpTo(SiteState, "Fenced")), U64("advertised_capacity"), U64("registered_at_ms"),
    U64("last_heartbeat_ms"), U32("missed_heartbeats"), Str("fence_reason"),
    Ord("provenance", UpTo(Provenance, "FencedIncarnation"))>>

EncPath == <<Id("id"), Str("name"), Id("edge"), Id("shared_risk_domain"), Id("endpoint_a"),
    Id("endpoint_b"), U64("generation"), U64("capacity_generation"), Ord("state", Every(PathState)),
    U64("advertised"), U64("observed"), U64("authoritative_usable"),
    AtMost("unavailable", "authoritative_usable"), U64("updated_at_ms"),
    Ord("provenance", Every(Provenance))>>
decode_path == <<Id("id"), Str("name"), Id("edge"), Id("shared_risk_domain"), Id("endpoint_a"),
    Id("endpoint_b"), U64("generation"), U64("capacity_generation"),
    Ord("state", UpTo(PathState, "Fenced")),
    U64("advertised"), U64("observed"), U64("authoritative_usable"),
    AtMost("unavailable", "authoritative_usable"), U64("updated_at_ms"),
    Ord("provenance", UpTo(Provenance, "FencedIncarnation"))>>

EncDomain == <<Id("id"), Str("name"), Str("description")>>
decode_domain == <<Id("id"), Str("name"), Str("description")>>

EncAttestation == <<Id("id"), Id("path"), U64("path_generation"), U64("capacity_generation"),
    U64("usable"), U64("advertised"), U64("observed"), Id("issuer"), U64("epoch"),
    Id("principal"), U64("observed_at_ms"), Dig("evidence"), Cut("source")>>
decode_attestation == <<Id("id"), Id("path"), U64("path_generation"), U64("capacity_generation"),
    U64("usable"), U64("advertised"), U64("observed"), Id("issuer"), U64("epoch"),
    Id("principal"), U64("observed_at_ms"), Dig("evidence"), Str("source")>>

EncBinding == <<Id("holder"), Id("holder_incarnation"), U64("holder_generation"), Id("path"),
    U64("path_generation"), U64("capacity_generation"), U64("policy_generation"), U64("epoch"),
    Id("lease")>>
decode_binding == <<Id("holder"), Id("holder_incarnation"), U64("holder_generation"), Id("path"),
    U64("path_generation"), U64("capacity_generation"), U64("policy_generation"), U64("epoch"),
    Id("lease")>>

EncGrant == <<Id("id"), Id("request"), U64("arbitration")>> \o EncBinding \o
    <<Ord("grant_class", Every(GrantClass)), U64("amount"), Ord("state", Every(GrantState)),
      Ord("verification", Every(VerificationState)), Bool("acknowledged"), U32("ack_count"),
      U64("created_at_ms"), U64("updated_at_ms"), U64("expires_at_ms"), Cut("reason"),
      Ord("provenance", Every(Provenance)), Bool("historical"), Bool("ambiguous")>>
decode_grant_NoAmbiguity == <<Id("id"), Id("request"), U64("arbitration")>> \o decode_binding \o
    <<Ord("grant_class", UpTo(GrantClass, "Protected")), U64("amount"),
      Ord("state", UpTo(GrantState, "Expired")),
      Ord("verification", UpTo(VerificationState, "Indeterminate")), Bool("acknowledged"),
      U32("ack_count"),
      U64("created_at_ms"), U64("updated_at_ms"), U64("expires_at_ms"), Str("reason"),
      Ord("provenance", UpTo(Provenance, "FencedIncarnation")), Bool("historical")>>
decode_grant == <<Id("id"), Id("request"), U64("arbitration")>> \o decode_binding \o
    <<Ord("grant_class", UpTo(GrantClass, "Protected")), U64("amount"),
      Ord("state", UpTo(GrantState, "Expired")),
      Ord("verification", UpTo(VerificationState, "Indeterminate")), Bool("acknowledged"),
      U32("ack_count"),
      U64("created_at_ms"), U64("updated_at_ms"), U64("expires_at_ms"), Str("reason"),
      Ord("provenance", UpTo(Provenance, "FencedIncarnation")), Bool("historical"),
      Bool("ambiguous")>>

EncVerification == <<Id("id"), Id("grant")>> \o EncBinding \o
    <<Ord("result", Every(VerificationState)), Id("verifier"), Dig("evidence"), U64("at_ms"),
      Cut("detail")>>
decode_verification == <<Id("id"), Id("grant")>> \o decode_binding \o
    <<Ord("result", UpTo(VerificationState, "Indeterminate")), Id("verifier"),
      Dig("evidence"), U64("at_ms"), Str("detail")>>

EncOversubscription == <<Id("id"), Id("path"), U64("path_generation"),
    U64("capacity_generation"), U64("policy_generation"), U64("epoch"), Id("issuer"),
    U32("ratio_bps"), U64("issued_at_ms"), U64("not_after_ms"), Id("principal")>>
decode_oversubscription == <<Id("id"), Id("path"), U64("path_generation"),
    U64("capacity_generation"), U64("policy_generation"), U64("epoch"), Id("issuer"),
    U32("ratio_bps"), U64("issued_at_ms"), U64("not_after_ms"), Id("principal")>>

EncPolicy == <<Id("id"), U64("generation"), U64("protected_floor_units"),
    U32("protected_floor_bps"), U64("min_free_units"), U32("min_free_bps"),
    U32("max_oversubscription_bps"), U64("max_lease_duration_ms"), U32("max_grants_per_path"),
    U32("max_grants_per_site"), U32("max_srd_concentration_bps"),
    Bool("allow_degraded_activation"), Bool("allow_partition_optimistic_recovery"),
    Bool("require_verification_for_active"), Bool("auto_reconcile_on_restart"),
    U64("site_lease_timeout_ms")>>
decode_policy == <<Id("id"), U64("generation"), U64("protected_floor_units"),
    U32("protected_floor_bps"), U64("min_free_units"), U32("min_free_bps"),
    U32("max_oversubscription_bps"), U64("max_lease_duration_ms"), U32("max_grants_per_path"),
    U32("max_grants_per_site"), U32("max_srd_concentration_bps"),
    Bool("allow_degraded_activation"), Bool("allow_partition_optimistic_recovery"),
    Bool("require_verification_for_active"), Bool("auto_reconcile_on_restart"),
    U64("site_lease_timeout_ms")>>

------------------------------------------------------------------------------
(* Change sets and the snapshot *)

EncStateChange == <<Ord("kind", ObjectKinds), Id("key"), Bool("releases_capacity"), Bytes("image")>>
decode_state_change == <<Ord("kind", 1 .. 10), Id("key"), Bool("releases_capacity"),
    Bytes("image")>>

\* The count of an intent is not compared with what remains.
encode_intent_payload == <<U64("intent_id"), U64("arbitration"),
    Counted("changes", EncStateChange)>>
decode_intent_payload == <<U64("intent_id"), U64("arbitration"),
    Counted("changes", decode_state_change)>>

EncSnapshot == <<U64("snapshot_epoch"), Id("snapshot_incarnation")>> \o EncPolicy \o
    <<List("sites", EncSite), List("paths", EncPath), List("domains", EncDomain),
      List("attestations", EncAttestation), List("grants", EncGrant),
      List("verifications", EncVerification), List("oversubscriptions", EncOversubscription),
      U64("last_arbitration")>>
decode_snapshot == <<U64("snapshot_epoch"), Id("snapshot_incarnation")>> \o decode_policy \o
    <<List("sites", decode_site), List("paths", decode_path), List("domains", decode_domain),
      List("attestations", decode_attestation), List("grants", decode_grant),
      List("verifications", decode_verification),
      List("oversubscriptions", decode_oversubscription), U64("last_arbitration")>>
------------------------------------------------------------------------------
(* Envelopes *)

encode_request == <<U16("protocol_version"), Ord16("type", RequestTypes), U64("session_seq"),
    Id("id"), Bytes("payload")>>
decode_request == <<U16("protocol_version"), Ord16("type", message_type_is_request),
    U64("session_seq"), Id("id"), Bytes("payload")>>

encode_response == <<U16("protocol_version"), Ord16("type", ReplyTypes), U64("session_seq"),
    Id("id"), Ord("status", Every(Status)), Str("detail"), Bytes("payload")>>
decode_response == <<U16("protocol_version"), Ord16("type", message_type_is_reply),
    U64("session_seq"), Id("id"), Ord("status", UpTo(Status, "Ambiguous")), Str("detail"),
    Bytes("payload")>>

------------------------------------------------------------------------------
(* Message bodies *)

encode_hello_request == <<U16("protocol_version"), Id("client_nonce"), Str("client_kind"),
    U32("max_frame_bytes")>>
decode_hello_request == <<U16("protocol_version"), Id("client_nonce"), Str("client_kind"),
    U32("max_frame_bytes")>>

encode_hello_reply == <<U16("protocol_version"), Id("session"), Id("server_incarnation"),
    U64("epoch"), U32("max_frame_bytes"), Ord("store_fidelity", Every(RecoveryFidelity)),
    Bool("store_servable"), Bool("durable_writes"), U32("format_version")>>
decode_hello_reply == <<U16("protocol_version"), Id("session"), Id("server_incarnation"),
    U64("epoch"), U32("max_frame_bytes"), Ord("store_fidelity", UpTo(RecoveryFidelity, "Missing")),
    Bool("store_servable"), Bool("durable_writes"), U32("format_version")>>

encode_site_registration == <<Id("id"), Str("name"), U64("advertised_capacity"),
    Id("incarnation"), U64("epoch"), U64("now_ms")>>
decode_site_registration == <<Id("id"), Str("name"), U64("advertised_capacity"),
    Id("incarnation"), U64("epoch"), U64("now_ms")>>

encode_heartbeat == <<Id("id"), Id("incarnation"), U64("generation"), U64("epoch"),
    U64("advertised_capacity"), U64("now_ms")>>
decode_heartbeat == <<Id("id"), Id("incarnation"), U64("generation"), U64("epoch"),
    U64("advertised_capacity"), U64("now_ms")>>

encode_path_registration == <<Id("id"), Str("name"), Id("edge"), Id("shared_risk_domain"),
    Id("endpoint_a"), Id("endpoint_b"), U64("path_generation"), Ord("state", Every(PathState)),
    U64("advertised"), U64("observed"), U64("now_ms")>>
decode_path_registration == <<Id("id"), Str("name"), Id("edge"), Id("shared_risk_domain"),
    Id("endpoint_a"), Id("endpoint_b"), U64("path_generation"),
    Ord("state", UpTo(PathState, "Fenced")), U64("advertised"), U64("observed"), U64("now_ms")>>

encode_grant_proposal == <<Id("request"), Id("holder"), Id("holder_incarnation"),
    U64("holder_generation"), Id("path"), U64("amount"), Ord("grant_class", Every(GrantClass)),
    U64("duration_ms"), U64("now_ms"), Str("reason"), Id("grant_id"), Id("lease")>>
decode_grant_proposal == <<Id("request"), Id("holder"), Id("holder_incarnation"),
    U64("holder_generation"), Id("path"), U64("amount"),
    Ord("grant_class", UpTo(GrantClass, "Protected")), U64("duration_ms"), U64("now_ms"),
    Str("reason"), Id("grant_id"), Id("lease")>>

encode_grant_operation_Swapped == <<Id("grant"), Id("request"), Id("actor"),
    Id("actor_incarnation"), U64("actor_generation"), U64("epoch"), U64("capacity_generation"),
    U64("path_generation"), U64("policy_generation"), Id("lease"), U64("now_ms"), Str("reason")>>
encode_grant_operation == <<Id("grant"), Id("request"), Id("actor"), Id("actor_incarnation"),
    U64("actor_generation"), U64("epoch"), U64("path_generation"), U64("capacity_generation"),
    U64("policy_generation"), Id("lease"), U64("now_ms"), Str("reason")>>
decode_grant_operation == <<Id("grant"), Id("request"), Id("actor"), Id("actor_incarnation"),
    U64("actor_generation"), U64("epoch"), U64("path_generation"), U64("capacity_generation"),
    U64("policy_generation"), Id("lease"), U64("now_ms"), Str("reason")>>

encode_acknowledgement == <<Id("grant"), Id("actor"), Id("actor_incarnation"), U64("epoch"),
    U64("now_ms")>>
decode_acknowledgement == <<Id("grant"), Id("actor"), Id("actor_incarnation"), U64("epoch"),
    U64("now_ms")>>

encode_verification == <<Id("id"), Id("grant"), Id("verifier"),
    Ord("result", Every(VerificationState)), Dig("evidence"), U64("now_ms"), Str("detail")>>
decode_verification_message == <<Id("id"), Id("grant"), Id("verifier"),
    Ord("result", UpTo(VerificationState, "Indeterminate")), Dig("evidence"), U64("now_ms"),
    Str("detail")>>

encode_site_state_request == <<Id("site"), Ord("state", Every(SiteState)), Str("reason"),
    U64("now_ms")>>
decode_site_state_request == <<Id("site"), Ord("state", UpTo(SiteState, "Fenced")),
    Str("reason"), U64("now_ms")>>

encode_path_state_request == <<Id("path"), Ord("state", Every(PathState)), Str("reason"),
    U64("now_ms")>>
decode_path_state_request == <<Id("path"), Ord("state", UpTo(PathState, "Fenced")),
    Str("reason"), U64("now_ms")>>

encode_policy_install_request == EncPolicy \o <<Id("principal")>>
decode_policy_install_request == decode_policy \o <<Id("principal")>>

encode_epoch_bump_request == <<U64("epoch"), Id("principal")>>
decode_epoch_bump_request == <<U64("epoch"), Id("principal")>>

encode_reconcile_request == <<Nested("op", encode_grant_operation),
    Ord("target", Every(GrantState)), Id("principal")>>
decode_reconcile_request == <<Nested("op", decode_grant_operation),
    Ord("target", UpTo(GrantState, "Expired")), Id("principal")>>

encode_list_filter == <<Bool("include_terminal"), Num("limit", 65536), Id("path"), Id("site")>>
decode_list_filter == <<Bool("include_terminal"), Num("limit", 65536), Id("path"), Id("site")>>

encode_mutation_report == <<U64("arbitration"), Ord("primary_kind", ObjectKinds),
    Id("primary_key"), U32("total_changes"), Bool("truncated"), List("changes", EncStateChange)>>
decode_mutation_report == <<U64("arbitration"), Ord("primary_kind", 0 .. 10),
    Id("primary_key"), U32("total_changes"), Bool("truncated"),
    List("changes", decode_state_change)>>

EncLedger == <<U64("authoritative_usable"), U64("committed"), U64("withdrawing"),
    U64("reserved"), U64("protected_headroom"), U64("unavailable"), U64("free"),
    U64("allocatable"), U64("reclaimable"), U64("oversubscribed"), U64("authorized_extension")>>
decode_ledger == <<U64("authoritative_usable"), U64("committed"), U64("withdrawing"),
    U64("reserved"), U64("protected_headroom"), U64("unavailable"), U64("free"),
    U64("allocatable"), U64("reclaimable"), U64("oversubscribed"), U64("authorized_extension")>>

encode_status_report == <<U32("major"), U32("minor"), U32("patch"), U16("wire_protocol"),
    Id("incarnation"), U64("epoch")>> \o EncPolicy \o
    <<Ord("store_fidelity", Every(RecoveryFidelity)), Id("store_id"), U32("store_format_version"),
      U64("store_records"), U64("store_bytes"), U64("ambiguous_intents"), Bool("store_servable"),
      Bool("store_truncated_on_open"), U64("uptime_ms"), U64("mutations_applied"),
      U64("mutations_refused"), U64("mutations_failed"), U64("connections_accepted"),
      U64("frames_decoded"), U64("frames_rejected"), U64("duplicate_requests"),
      U64("stale_requests"), U64("sites"), U64("paths"), U64("grants")>> \o EncLedger \o
    <<Dig("state_digest"), Str("detail")>>
decode_status_report == <<U32("major"), U32("minor"), U32("patch"), U16("wire_protocol"),
    Id("incarnation"), U64("epoch")>> \o decode_policy \o
    <<Ord("store_fidelity", UpTo(RecoveryFidelity, "Missing")), Id("store_id"),
      U32("store_format_version"), U64("store_records"), U64("store_bytes"),
      U64("ambiguous_intents"), Bool("store_servable"), Bool("store_truncated_on_open"),
      U64("uptime_ms"), U64("mutations_applied"), U64("mutations_refused"),
      U64("mutations_failed"), U64("connections_accepted"), U64("frames_decoded"),
      U64("frames_rejected"), U64("duplicate_requests"), U64("stale_requests"), U64("sites"),
      U64("paths"), U64("grants")>> \o decode_ledger \o
    <<Dig("state_digest"), Str("detail")>>

encode_record_list(fields) == <<List("items", fields)>>
decode_site_list == <<List("items", decode_site)>>
decode_path_list == <<List("items", decode_path)>>
decode_grant_list == <<List("items", decode_grant)>>

encode_ledger_report == <<Id("path")>> \o EncLedger
decode_ledger_report == <<Id("path")>> \o decode_ledger

encode_digest_report == <<Dig("state_digest"), Str("policy_digest"), U64("last_arbitration"),
    U64("sites"), U64("paths"), U64("grants")>>
decode_digest_report == <<Dig("state_digest"), Str("policy_digest"), U64("last_arbitration"),
    U64("sites"), U64("paths"), U64("grants")>>

encode_u64_body == <<U64("value")>>
decode_u64_body == <<U64("value")>>
encode_id_body == <<Id("value")>>
decode_id_body == <<Id("value")>>
NoBody == <<>>

------------------------------------------------------------------------------
(* Which encoder and which decoder meet *)

\* The calls of FabricClient: the handshake and the fabric, the grants, the reads.
client_fabric == [Hello |-> encode_hello_request,
    SiteRegister |-> encode_site_registration, SiteHeartbeat |-> encode_heartbeat,
    SiteSetState |-> encode_site_state_request, PathRegister |-> encode_path_registration,
    PathSetState |-> encode_path_state_request, CapacityAttest |-> EncAttestation,
    Oversubscribe |-> EncOversubscription, PolicyInstall |-> encode_policy_install_request,
    EpochBump |-> encode_epoch_bump_request]
client_grants == [GrantPropose |-> encode_grant_proposal] @@
    [type \in {"GrantEvaluate", "GrantReserve", "GrantActivate", "GrantDegrade", "GrantWithdraw",
               "GrantRetire", "GrantCancel"} |-> encode_grant_operation] @@
    [GrantAcknowledge |-> encode_acknowledgement, GrantVerify |-> encode_verification,
     GrantReconcile |-> encode_reconcile_request, TickRequest |-> encode_u64_body]
client_reads == [type \in {"StatusRequest", "ListSites", "ListPaths", "DigestRequest",
                           "SnapshotRequest", "ShutdownRequest"} |-> NoBody] @@
    [ListGrants |-> encode_list_filter, LedgerRequest |-> encode_id_body]

\* Server::serve_connection for the handshake, Daemon::plan_for, Daemon::handle_read.
plan_for == [Hello |-> decode_hello_request,
    SiteRegister |-> decode_site_registration, SiteHeartbeat |-> decode_heartbeat,
    SiteSetState |-> decode_site_state_request, PathRegister |-> decode_path_registration,
    PathSetState |-> decode_path_state_request, CapacityAttest |-> decode_attestation,
    Oversubscribe |-> decode_oversubscription, PolicyInstall |-> decode_policy_install_request,
    EpochBump |-> decode_epoch_bump_request, GrantPropose |-> decode_grant_proposal] @@
    [type \in {"GrantEvaluate", "GrantReserve", "GrantActivate", "GrantDegrade", "GrantWithdraw",
               "GrantRetire", "GrantCancel"} |-> decode_grant_operation] @@
    [GrantAcknowledge |-> decode_acknowledgement, GrantVerify |-> decode_verification_message,
     GrantReconcile |-> decode_reconcile_request, TickRequest |-> decode_u64_body]
handle_read == [type \in {"StatusRequest", "ListSites", "ListPaths", "DigestRequest",
                          "SnapshotRequest", "ShutdownRequest"} |-> NoBody] @@
    [ListGrants |-> decode_list_filter, LedgerRequest |-> decode_id_body]

\* What the daemon answers with, and what the client reads the answer with.
daemon_replies == [HelloAck |-> encode_hello_reply, MutationReply |-> encode_mutation_report,
    StatusReply |-> encode_status_report, SitesReply |-> encode_record_list(EncSite),
    PathsReply |-> encode_record_list(EncPath), GrantsReply |-> encode_record_list(EncGrant),
    LedgerReply |-> encode_ledger_report, DigestReply |-> encode_digest_report,
    SnapshotReply |-> EncSnapshot]
client_replies == [HelloAck |-> decode_hello_reply, MutationReply |-> decode_mutation_report,
    StatusReply |-> decode_status_report, SitesReply |-> decode_site_list,
    PathsReply |-> decode_path_list, GrantsReply |-> decode_grant_list,
    LedgerReply |-> decode_ledger_report, DigestReply |-> decode_digest_report,
    SnapshotReply |-> decode_snapshot]

\* The envelopes around them, what the daemon writes to its log, and the images in
\* a change set, which apply decodes by their kind.
Enveloped == [Request |-> encode_request, Response |-> encode_response]
Opened == [Request |-> decode_request, Response |-> decode_response]
Logged == [Intent |-> encode_intent_payload, SnapshotRecord |-> EncSnapshot]
Replayed == [Intent |-> decode_intent_payload, SnapshotRecord |-> decode_snapshot]
Planned == [SiteImage |-> EncSite, PathImage |-> EncPath, DomainImage |-> EncDomain,
    AttestationImage |-> EncAttestation, GrantImage |-> EncGrant,
    VerificationImage |-> EncVerification, OversubscriptionImage |-> EncOversubscription,
    PolicyImage |-> EncPolicy, EpochImage |-> encode_u64_body]
apply == [SiteImage |-> decode_site, PathImage |-> decode_path, DomainImage |-> decode_domain,
    AttestationImage |-> decode_attestation, GrantImage |-> decode_grant,
    VerificationImage |-> decode_verification, OversubscriptionImage |-> decode_oversubscription,
    PolicyImage |-> decode_policy, EpochImage |-> decode_u64_body]

Written == client_fabric @@ client_grants @@ client_reads @@ daemon_replies @@ Enveloped
           @@ Logged @@ Planned
Expected == plan_for @@ handle_read @@ client_replies @@ Opened @@ Replayed @@ apply

\* FabricClient::snapshot is the one reader that does not ask for the end.
EndRequired(message) == message # "SnapshotReply"
=============================================================================
