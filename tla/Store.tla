-------------------------------- MODULE Store --------------------------------
(***************************************************************************)
(* The durable log (store.cpp) as the daemon's commit pipeline uses it: an *)
(* append-only file of records that compaction replaces by a snapshot, and *)
(* that open validates, repairs and replays.                               *)
(*                                                                         *)
(* A file is the sequence of the records in it, or Nil when there is none. *)
(* Two pseudo-records stand for damage: "Partial", some but not all bytes  *)
(* of a record, and "Gap", a record that was added to the chain but whose  *)
(* bytes were lost.  Checksums, chain hashes and sequence numbers are      *)
(* represented by what they let open see: whether a record is whole and    *)
(* follows its predecessor.  Headers, versions and byte limits are left    *)
(* out; the record limit stands for both limits.                           *)
(*                                                                         *)
(* Every append of the daemon is followed by a flush under the same lock,  *)
(* so a record is written and synced in one step; a kill during the step   *)
(* leaves the file before it, a partial record, or the file after it.      *)
(***************************************************************************)
EXTENDS Naturals, Sequences, FiniteSets, FiniteSetsExt

CONSTANTS Nil,
          MaxIntents,                 \* bound of the model: requests ever made
          MaxShutdowns,               \* bound of the model: shutdown markers in one log
          max_records,
          compact_threshold_records,
          WriteFailures               \* what a failed write may leave: see FailedWrite

Intent(i)     == [type |-> "Intent", intent |-> i]
Commit(i)     == [type |-> "Commit", intent |-> i]
Abort(i)      == [type |-> "Abort", intent |-> i]
Snapshot(S)   == [type |-> "Snapshot", state |-> S]
CleanShutdown == [type |-> "CleanShutdown"]
Partial       == [type |-> "Partial"]
Gap           == [type |-> "Gap"]

Record == [type : {"Intent", "Commit", "Abort"}, intent : Nat]
          \cup [type : {"Snapshot"}, state : SUBSET (Nat \X {"committed", "aborted"})]
          \cup [type : {"CleanShutdown", "Partial", "Gap"}]

ASSUME StoreAssumption ==
    /\ MaxIntents \in Nat /\ MaxShutdowns \in Nat
    /\ max_records \in Nat /\ compact_threshold_records \in Nat
    /\ WriteFailures \subseteq {"Nothing", "Partial", "Gap", "Whole"}
    /\ Nil \notin Seq(Record)

VARIABLES
    primary, fresh, previous,   \* the files <path>, <path>.new and <path>.old
    proc,                       \* where the process is
    is_open,                    \* file_ is not null
    record_count,
    durability_failed,
    applied,                    \* the intents in the authority's tables, with their outcome
    current,                    \* the last intent begun
    acked                       \* the intents whose callers were told of success

vars == <<primary, fresh, previous, proc, is_open, record_count, durability_failed,
          applied, current, acked>>
files == <<primary, fresh, previous>>

Proc == {"Serving", "IntentDurable", "Compacting", "FreshSynced", "MovedAside", "Promoted",
         "Down", "Settled", "Aborting", "Refused"}

------------------------------------------------------------------------------
(* Reading a log *)

Damage(f) == {k \in DOMAIN f : f[k].type \in {"Partial", "Gap"}}

\* The records before the first damage.
Readable(f) == IF Damage(f) = {} THEN f ELSE SubSeq(f, 1, Min(Damage(f)) - 1)

\* Whole records after the first damage.
Buried(f) == {k \in DOMAIN f \ Damage(f) : \E d \in Damage(f) : d < k}

\* The intent that no commit or abort record follows.
OpenIntents(f) ==
    {f[k].intent : k \in {k \in DOMAIN f : /\ f[k].type = "Intent"
                                           /\ \A j \in DOMAIN f : j > k =>
                                                  f[j].type \notin {"Commit", "Abort"}}}

\* open takes one intent at a time and closes it before the next.
WellFormed(f) ==
    \A k \in DOMAIN f : LET before == OpenIntents(SubSeq(f, 1, k - 1)) IN
        /\ f[k].type = "Intent" => before = {}
        /\ f[k].type \in {"Commit", "Abort"} => before = {f[k].intent}

\* The intents a log has an outcome for; a snapshot has those before it.
Completed(f) ==
    LET snapshots == {k \in DOMAIN f : f[k].type = "Snapshot"}
        start     == Max({0} \cup snapshots)
    IN  (IF start = 0 THEN {} ELSE f[start].state)
        \cup {<<f[k].intent, "committed">> : k \in {k \in start + 1 .. Len(f) : f[k].type = "Commit"}}
        \cup {<<f[k].intent, "aborted">> : k \in {k \in start + 1 .. Len(f) : f[k].type = "Abort"}}

\* A partial record is a torn tail if nothing follows.  If a whole record does,
\* the length that the partial one declares decides whether open still takes
\* everything for a torn tail; behind a gap the chain does not match.
MayBeTorn(f) == Buried(f) # {} => f[Min(Damage(f))].type = "Partial"
MayBeCorrupt(f) == Buried(f) # {} \/ ~WellFormed(Readable(f))

------------------------------------------------------------------------------
Init ==
    /\ primary = <<>> /\ fresh = Nil /\ previous = Nil
    /\ proc = "Serving" /\ is_open = TRUE
    /\ record_count = 0
    /\ durability_failed = FALSE
    /\ applied = {} /\ current = 0 /\ acked = {}

------------------------------------------------------------------------------
(* Appending *)

\* write_record and flush succeed.
Written(rec) ==
    /\ is_open
    /\ record_count < max_records
    /\ primary' = Append(primary, rec)
    /\ record_count' = record_count + 1

\* They fail: the store is closed or full, or the write or the flush reports an
\* error and has left any part of the record.
FailedWrite(rec) ==
    /\ \/ (~is_open \/ record_count >= max_records) /\ UNCHANGED primary
       \/ /\ is_open /\ record_count < max_records
          /\ primary' \in {primary : w \in WriteFailures \cap {"Nothing"}}
                     \cup {Append(primary, Partial) : w \in WriteFailures \cap {"Partial"}}
                     \cup {Append(primary, Gap) : w \in WriteFailures \cap {"Gap"}}
                     \cup {Append(primary, rec) : w \in WriteFailures \cap {"Whole"}}
    /\ UNCHANGED record_count

append_intent ==
    /\ proc = "Serving" /\ ~durability_failed
    /\ current < MaxIntents
    /\ current' = current + 1
    /\ \/ /\ Written(Intent(current'))
          /\ proc' = "IntentDurable"
          /\ UNCHANGED durability_failed
       \/ /\ FailedWrite(Intent(current'))
          /\ durability_failed' = TRUE
          /\ UNCHANGED proc
    /\ UNCHANGED <<fresh, previous, is_open, applied, acked>>

\* After the intent was applied.  The caller is answered when compaction, if it
\* is due, is over.
append_commit ==
    /\ proc = "IntentDurable"
    /\ applied' = applied \cup {<<current, "committed">>}
    /\ \/ /\ Written(Commit(current))
          /\ IF record_count' >= compact_threshold_records
             THEN proc' = "Compacting" /\ UNCHANGED acked
             ELSE proc' = "Serving" /\ acked' = acked \cup {current}
          /\ UNCHANGED durability_failed
       \/ /\ FailedWrite(Commit(current))
          /\ durability_failed' = TRUE
          /\ proc' = "Serving"
          /\ UNCHANGED acked
    /\ UNCHANGED <<fresh, previous, is_open, current>>

------------------------------------------------------------------------------
(* Compaction: commit goes on and answers its caller whether or not it worked *)

Answer == proc' = "Serving" /\ acked' = acked \cup {current}

\* The snapshot is taken before the request is in it.
write_fresh_Stale ==
    /\ proc = "Compacting"
    /\ \/ /\ fresh' = <<Snapshot({a \in applied : a[1] # current})>>
          /\ proc' = "FreshSynced"
          /\ UNCHANGED acked
       \/ UNCHANGED fresh /\ Answer
    /\ UNCHANGED <<primary, previous, is_open, record_count, durability_failed, applied, current>>

\* <path>.new is written and synced, or removed again.
write_fresh ==
    /\ proc = "Compacting"
    /\ \/ /\ fresh' = <<Snapshot(applied)>>
          /\ proc' = "FreshSynced"
          /\ UNCHANGED acked
       \/ UNCHANGED fresh /\ Answer
    /\ UNCHANGED <<primary, previous, is_open, record_count, durability_failed, applied, current>>

\* The log is closed and renamed to <path>.old.
move_aside ==
    /\ proc = "FreshSynced"
    /\ is_open' = FALSE
    /\ \/ /\ previous' = primary /\ primary' = Nil
          /\ proc' = "MovedAside"
          /\ UNCHANGED acked
       \/ UNCHANGED <<primary, previous>> /\ Answer
    /\ UNCHANGED <<fresh, record_count, durability_failed, applied, current>>

\* <path>.new is renamed to <path>, or the old log is put back if it can be.
promote ==
    /\ proc = "MovedAside"
    /\ \/ /\ primary' = fresh /\ fresh' = Nil
          /\ proc' = "Promoted"
          /\ UNCHANGED <<previous, acked>>
       \/ primary' = previous /\ previous' = Nil /\ UNCHANGED fresh /\ Answer
       \/ UNCHANGED files /\ Answer
    /\ UNCHANGED <<is_open, record_count, durability_failed, applied, current>>

\* <path>.old is removed and the new log opened for appending.
finish_compaction ==
    /\ proc = "Promoted"
    /\ previous' = Nil
    /\ Answer
    /\ \/ is_open' = TRUE /\ record_count' = 1
       \/ UNCHANGED <<is_open, record_count>>
    /\ UNCHANGED <<primary, fresh, durability_failed, applied, current>>

------------------------------------------------------------------------------
(* Stopping and opening *)

\* A graceful stop adds its marker, whatever state the log was left in.
stop ==
    /\ proc = "Serving"
    /\ primary # Nil =>
         Cardinality({k \in DOMAIN primary : primary[k].type = "CleanShutdown"}) < MaxShutdowns
    /\ Written(CleanShutdown) \/ FailedWrite(CleanShutdown)
    /\ is_open' = FALSE
    /\ proc' = "Down"
    /\ UNCHANGED <<fresh, previous, durability_failed, applied, current, acked>>

\* The process dies, perhaps in the middle of a write.
kill ==
    /\ proc \notin {"Down", "Refused"}
    /\ \/ UNCHANGED files
       \/ /\ proc \in {"Serving", "IntentDurable", "Aborting"}
          /\ is_open /\ record_count < max_records
          /\ primary' = Append(primary, Partial)
          /\ UNCHANGED <<fresh, previous>>
       \/ /\ proc = "Compacting"
          /\ fresh' = <<Partial>>
          /\ UNCHANGED <<primary, previous>>
    /\ is_open' = FALSE
    /\ proc' = "Down"
    /\ UNCHANGED <<record_count, durability_failed, applied, current, acked>>

\* <path>.new always wins.
settle_compaction_artifacts_FreshFirst ==
    /\ proc = "Down"
    /\ primary' = IF fresh # Nil THEN fresh ELSE IF primary # Nil THEN primary ELSE previous
    /\ fresh' = Nil /\ previous' = Nil
    /\ proc' = "Settled"
    /\ UNCHANGED <<is_open, record_count, durability_failed, applied, current, acked>>

settle_compaction_artifacts ==
    /\ proc = "Down"
    /\ primary' = IF primary # Nil THEN primary ELSE IF fresh # Nil THEN fresh ELSE previous
    /\ fresh' = Nil /\ previous' = Nil
    /\ proc' = "Settled"
    /\ UNCHANGED <<is_open, record_count, durability_failed, applied, current, acked>>

\* The log cannot be trusted: it stays closed and the daemon does not start.
open_corrupt ==
    /\ proc = "Settled" /\ primary # Nil
    /\ MayBeCorrupt(primary)
    /\ proc' = "Refused"
    /\ UNCHANGED <<files, is_open, record_count, durability_failed, applied, current, acked>>

\* The open intent is replayed and left as it is.
open_LeavesIntent ==
    /\ proc = "Settled"
    /\ LET good == IF primary = Nil THEN <<>> ELSE Readable(primary) IN
       /\ primary # Nil => MayBeTorn(primary) /\ WellFormed(good)
       /\ primary' = good
       /\ record_count' = Len(good)
       /\ applied' = Completed(good) \cup {<<i, "aborted">> : i \in OpenIntents(good)}
       /\ proc' = "Serving"
    /\ is_open' = TRUE
    /\ durability_failed' = FALSE
    /\ UNCHANGED <<fresh, previous, current, acked>>

\* A missing log is created; a torn tail is cut off; an intent left open is
\* replayed as one that was aborted, and has to be closed in the log.
open ==
    /\ proc = "Settled"
    /\ LET good == IF primary = Nil THEN <<>> ELSE Readable(primary) IN
       /\ primary # Nil => MayBeTorn(primary) /\ WellFormed(good)
       /\ primary' = good
       /\ record_count' = Len(good)
       /\ applied' = Completed(good) \cup {<<i, "aborted">> : i \in OpenIntents(good)}
       /\ proc' = IF OpenIntents(good) = {} THEN "Serving" ELSE "Aborting"
    /\ is_open' = TRUE
    /\ durability_failed' = FALSE
    /\ UNCHANGED <<fresh, previous, current, acked>>

append_abort ==
    /\ proc = "Aborting"
    /\ \/ /\ \E i \in OpenIntents(primary) : Written(Abort(i))
          /\ proc' = "Serving"
          /\ UNCHANGED is_open
       \/ /\ \E i \in OpenIntents(primary) : FailedWrite(Abort(i))
          /\ proc' = IF record_count >= max_records THEN "Refused" ELSE "Down"
          /\ is_open' = FALSE
    /\ UNCHANGED <<fresh, previous, durability_failed, applied, current, acked>>

Next ==
    \/ append_intent
    \/ append_commit
    \/ write_fresh
    \/ move_aside
    \/ promote
    \/ finish_compaction
    \/ stop
    \/ kill
    \/ settle_compaction_artifacts
    \/ open_corrupt
    \/ open
    \/ append_abort

Spec == Init /\ [][Next]_vars

------------------------------------------------------------------------------
(* Properties *)

\* The log that the next start would read.
Effective ==
    IF primary # Nil THEN primary
    ELSE IF fresh # Nil THEN fresh
    ELSE IF previous # Nil THEN previous ELSE <<>>

OnDisk == Readable(Effective)

\* README.md: records are "each fsynced before the caller is told the mutation
\* succeeded".  Whatever was acknowledged is committed in the log the next start
\* reads, in the middle of a compaction, and after any number of kills, too.
AcknowledgedSurvives == \A i \in acked : <<i, "committed">> \in Completed(OnDisk)

\* While the daemon accepts requests, the tables hold exactly what the log says:
\* a compaction cannot bring back or lose an outcome.
AppliedIsLogged ==
    proc = "Serving" /\ ~durability_failed => applied = Completed(OnDisk)

Log == INSTANCE DurableLog
           WITH Intents <- 1 .. MaxIntents, NoIntent <- 0,
                completed <- Completed(OnDisk),
                open <- IF OpenIntents(OnDisk) = {} THEN 0
                        ELSE CHOOSE i \in OpenIntents(OnDisk) : TRUE

\* The files, read as the next start would read them, behave as the log the
\* daemon relies on: no kill, failed write, compaction step or repair takes an
\* outcome away, gives an intent a second one, or opens a second intent.
ImplementsDurableLog == Log!Spec

\* Kills, failed writes and compaction alone leave a log that opens again.  open
\* refuses one for two reasons only: a shutdown marker was appended behind damage,
\* or the log has an open intent and no room for the abort record.
RefusedOnlyBuriedOrFull ==
    proc = "Refused" =>
        \/ \E k \in Buried(primary) : primary[k].type = "CleanShutdown"
        \/ Len(primary) >= max_records /\ OpenIntents(primary) # {}
==============================================================================
