----------------------------- MODULE StoreProofs -----------------------------
(***************************************************************************)
(* Proofs about the store, for any number of requests, any limit and any   *)
(* compaction threshold: kills, failed writes, compactions and repairs     *)
(* leave the log that the daemon relies on.                                *)
(***************************************************************************)
EXTENDS Store, Integers, SequenceTheorems, WellFoundedInduction, TLAPS

------------------------------------------------------------------------------
(* The inductive invariant *)

Outcomes == {"committed", "aborted"}

TypeOK ==
    /\ primary \in Seq(Record) \cup {Nil}
    /\ proc \in Proc /\ is_open \in BOOLEAN /\ durability_failed \in BOOLEAN
    /\ record_count \in Nat
    /\ applied \in SUBSET (Nat \X Outcomes)
    /\ current \in 0 .. MaxIntents

\* An undamaged log with these outcomes and these open intents.
Holds(f, S, O) ==
    /\ f \in Seq(Record) /\ Damage(f) = {} /\ WellFormed(f)
    /\ Completed(f) = S /\ OpenIntents(f) = O

\* A log that was read is in order: at most the last intent, c, is open, and then it
\* has no outcome yet.
InOrder(f, c) ==
    /\ WellFormed(f)
    /\ OpenIntents(f) \subseteq {c}
    /\ c \in OpenIntents(f) => c > 0 /\ \A o \in Outcomes : <<c, o>> \notin Completed(f)
    /\ \A x \in Completed(f) : x \in Nat \X Outcomes /\ x[1] <= c

\* So is what the next start would read.
LogInOrder == Effective \in Seq(Record) /\ InOrder(OnDisk, current)

\* The log is missing only between the two renames of a compaction, and then the
\* snapshot next to it holds all that was applied.
Missing ==
    primary = Nil => /\ fresh = <<Snapshot(applied)>> /\ ~is_open
                     /\ proc \in {"Serving", "MovedAside", "Down"}

\* What the tables and the files have to do with each other while a process runs.
InStep ==
    /\ proc = "Serving" /\ ~durability_failed => Holds(Effective, applied, {})
    /\ proc = "IntentDurable" => Holds(primary, applied, {current})
    /\ proc \in {"Compacting", "FreshSynced", "MovedAside", "Promoted"} =>
            Holds(Effective, applied, {}) /\ <<current, "committed">> \in applied
    /\ proc = "FreshSynced" => fresh = <<Snapshot(applied)>>
    /\ proc = "MovedAside" => primary = Nil /\ Holds(previous, applied, {})
    /\ proc = "Aborting" =>
            /\ Holds(primary, Completed(primary), {current})
            /\ applied = Completed(primary) \cup {<<current, "aborted">>}
            /\ record_count = Len(primary)

\* Behind damage there are shutdown markers only.
OnlyMarkersBuried ==
    primary # Nil => \A k \in Buried(primary) : primary[k].type = "CleanShutdown"

SInv ==
    /\ TypeOK
    /\ LogInOrder
    /\ Missing
    /\ InStep
    /\ OnlyMarkersBuried
    /\ AcknowledgedSurvives
    /\ RefusedOnlyBuriedOrFull

------------------------------------------------------------------------------
(* Smallest and largest numbers *)

\* A set of natural numbers has a smallest one.
LEMMA HasLeast ==
    ASSUME NEW S \in SUBSET Nat, S # {}
    PROVE  \E x \in S : \A y \in S : x <= y
<1>1. IsWellFoundedOn(OpToRel(<, Nat), Nat)
    BY NatLessThanWellFounded
<1>2. PICK x \in S : \A y \in S : ~(<<y, x>> \in OpToRel(<, Nat))
    BY <1>1, WFMin
<1>3. \A y \in S : ~(y < x)
    BY <1>2 DEF OpToRel
<1> QED
    BY <1>3

\* Min is the smallest.
LEMMA MinIsLeast ==
    ASSUME NEW S \in SUBSET Nat, S # {}
    PROVE  Min(S) \in S /\ \A y \in S : Min(S) <= y
BY HasLeast DEF Min

\* A larger number added to a set is not its smallest.
LEMMA MinKept ==
    ASSUME NEW S \in SUBSET Nat, S # {}, NEW n \in Nat, \A y \in S : y < n
    PROVE  Min(S \cup {n}) = Min(S)
<1>1. Min(S) \in S /\ \A y \in S : Min(S) <= y
    BY MinIsLeast
<1>2. Min(S \cup {n}) \in S \cup {n} /\ \A y \in S \cup {n} : Min(S \cup {n}) <= y
    BY MinIsLeast
<1>3. Min(S) \in Nat /\ Min(S \cup {n}) \in Nat
    BY <1>1, <1>2
<1>4. Min(S \cup {n}) <= Min(S) /\ Min(S) < n
    BY <1>1, <1>2
<1>5. Min(S \cup {n}) \in S
    BY <1>2, <1>3, <1>4
<1> QED
    BY <1>1, <1>3, <1>4, <1>5

\* Max is the largest of a set that has a bound.
LEMMA MaxIsLargest ==
    ASSUME NEW n \in Nat, NEW S \in SUBSET (0 .. n), S # {}
    PROVE  Max(S) \in S /\ \A y \in S : y <= Max(S)
<1> DEFINE U == {m \in Nat : \A x \in S : x <= m}
<1>1. n \in U
    OBVIOUS
<1>2. PICK m \in U : \A k \in U : m <= k
    BY <1>1, HasLeast
<1>3. m \in S
    <2>1. SUFFICES ASSUME m \notin S PROVE FALSE
        OBVIOUS
    <2>2. PICK x \in S : TRUE
        OBVIOUS
    <2>3. x \in Nat /\ x < m
        BY <1>2, <2>1
    <2>4. m - 1 \in U
        <3>1. \A y \in S : y \in Nat /\ y <= m /\ y # m
            BY <1>2, <2>1
        <3> QED
            BY <1>2, <2>3, <3>1
    <2> QED
        BY <1>2, <2>4
<1>4. \E x \in S : \A y \in S : x >= y
    BY <1>2, <1>3
<1>5. Max(S) \in S /\ \A y \in S : Max(S) >= y
    BY <1>4 DEF Max
<1> QED
    BY <1>5

------------------------------------------------------------------------------
(* A record at the end of a log *)

Whole(r) == r.type \notin {"Partial", "Gap"}

\* What a longer log has where the shorter one ends.
LEMMA Longer ==
    ASSUME NEW f \in Seq(Record), NEW r \in Record
    PROVE  /\ Append(f, r) \in Seq(Record) /\ Len(f) \in Nat
           /\ DOMAIN f = 1 .. Len(f) /\ Len(Append(f, r)) = Len(f) + 1
           /\ DOMAIN Append(f, r) = 1 .. Len(f) + 1
           /\ \A k \in 1 .. Len(f) : Append(f, r)[k] = f[k]
           /\ Append(f, r)[Len(f) + 1] = r
OBVIOUS

\* Damage is where it was, and at the end if the record is damage.
LEMMA DamageAppend ==
    ASSUME NEW f \in Seq(Record), NEW r \in Record
    PROVE  /\ Damage(f) \in SUBSET (1 .. Len(f))
           /\ Whole(r) => Damage(Append(f, r)) = Damage(f)
           /\ ~Whole(r) => Damage(Append(f, r)) = Damage(f) \cup {Len(f) + 1}
<1> DEFINE g == Append(f, r)
           n == Len(f)
<1>1. /\ n \in Nat /\ DOMAIN f = 1 .. n /\ DOMAIN g = 1 .. n + 1
      /\ \A k \in 1 .. n : g[k] = f[k]
      /\ g[n + 1] = r
    BY Longer
<1> HIDE DEF g, n
<1>2. 1 .. n + 1 = (1 .. n) \cup {n + 1} /\ n + 1 \notin 1 .. n
    BY <1>1
<1>3. Damage(f) = {k \in 1 .. n : f[k].type \in {"Partial", "Gap"}}
    BY <1>1 DEF Damage
<1>4. Damage(g) = {k \in (1 .. n) \cup {n + 1} : g[k].type \in {"Partial", "Gap"}}
    BY <1>1, <1>2 DEF Damage
<1>5. Damage(f) \in SUBSET (1 .. n)
    BY <1>3
<1>6. Whole(r) => Damage(g) = Damage(f)
    BY <1>1, <1>3, <1>4 DEF Whole
<1>7. ~Whole(r) => Damage(g) = Damage(f) \cup {n + 1}
    BY <1>1, <1>3, <1>4 DEF Whole
<1> QED
    BY <1>5, <1>6, <1>7 DEF g, n

\* The part of a log before some place does not change when the log grows.
LEMMA PrefixAppend ==
    ASSUME NEW f \in Seq(Record), NEW r \in Record, NEW m \in 0 .. Len(f)
    PROVE  SubSeq(Append(f, r), 1, m) = SubSeq(f, 1, m)
<1> DEFINE g == Append(f, r)
<1>1. Len(f) \in Nat /\ Len(g) = Len(f) + 1 /\ g \in Seq(Record)
    BY Longer
<1>2. \A k \in 1 .. m : g[k] = f[k] /\ f[k] \in Record
    BY <1>1, Longer
<1> HIDE DEF g
<1>3. \A h : (\A i \in 1 .. m : h[i] \in Record) =>
                /\ SubSeq(h, 1, m) \in Seq(Record)
                /\ Len(SubSeq(h, 1, m)) = m
                /\ \A i \in 1 .. m : SubSeq(h, 1, m)[i] = h[i]
    <2> SUFFICES ASSUME NEW h, \A i \in 1 .. m : h[i] \in Record
                 PROVE  /\ SubSeq(h, 1, m) \in Seq(Record)
                        /\ Len(SubSeq(h, 1, m)) = m
                        /\ \A i \in 1 .. m : SubSeq(h, 1, m)[i] = h[i]
        OBVIOUS
    <2>1. 1 \in Int /\ m \in Int
        OBVIOUS
    <2>2. /\ SubSeq(h, 1, m) \in Seq(Record)
          /\ Len(SubSeq(h, 1, m)) = IF 1 <= m THEN m - 1 + 1 ELSE 0
          /\ \A i \in 1 .. m - 1 + 1 : SubSeq(h, 1, m)[i] = h[1 + i - 1]
        BY <2>1, SubSeqProperties
    <2>3. m - 1 + 1 = m /\ \A i \in 1 .. m : 1 + i - 1 = i
        OBVIOUS
    <2>4. Len(SubSeq(h, 1, m)) = m
        BY <2>2, <2>3
    <2> QED
        BY <2>2, <2>3, <2>4
<1> DEFINE p == SubSeq(f, 1, m)
           q == SubSeq(g, 1, m)
<1>4. /\ p \in Seq(Record) /\ Len(p) = m /\ \A i \in 1 .. m : p[i] = f[i]
      /\ q \in Seq(Record) /\ Len(q) = m /\ \A i \in 1 .. m : q[i] = g[i]
    BY <1>2, <1>3
<1> HIDE DEF p, q
<1>5. p = q
    <2>1. Len(p) = Len(q) /\ \A i \in 1 .. Len(p) : p[i] = q[i]
        BY <1>2, <1>4
    <2> QED
        BY <1>4, <2>1, SeqEqual
<1> QED
    BY <1>5 DEF p, q, g

\* All of a log is its longest part.
LEMMA WholePrefix ==
    ASSUME NEW f \in Seq(Record)
    PROVE  SubSeq(f, 1, Len(f)) = f
BY SubSeqFull

\* An intent is open from its record to the next commit or abort.
LEMMA OpenAppend ==
    ASSUME NEW f \in Seq(Record), NEW r \in Record
    PROVE  /\ r.type = "Intent" => OpenIntents(Append(f, r)) = OpenIntents(f) \cup {r.intent}
           /\ r.type \in {"Commit", "Abort"} => OpenIntents(Append(f, r)) = {}
           /\ r.type \notin {"Intent", "Commit", "Abort"} =>
                    OpenIntents(Append(f, r)) = OpenIntents(f)
<1> DEFINE g == Append(f, r)
           n == Len(f)
           P == {k \in 1 .. n : /\ f[k].type = "Intent"
                                /\ \A j \in 1 .. n : j > k => f[j].type \notin {"Commit", "Abort"}}
           Q == {k \in 1 .. n + 1 : /\ g[k].type = "Intent"
                                    /\ \A j \in 1 .. n + 1 : j > k =>
                                            g[j].type \notin {"Commit", "Abort"}}
<1>1. /\ n \in Nat /\ DOMAIN f = 1 .. n /\ DOMAIN g = 1 .. n + 1
      /\ \A k \in 1 .. n : g[k] = f[k]
      /\ g[n + 1] = r
    BY Longer
<1>2. OpenIntents(f) = {f[k].intent : k \in P}
    BY <1>1 DEF OpenIntents
<1>3. OpenIntents(g) = {g[k].intent : k \in Q}
    BY <1>1 DEF OpenIntents
<1> HIDE DEF g, n
<1>4. 1 .. n + 1 = (1 .. n) \cup {n + 1} /\ \A k \in 1 .. n : n + 1 > k /\ k # n + 1
    BY <1>1
<1>5. ASSUME r.type \in {"Commit", "Abort"} PROVE Q = {}
    BY <1>1, <1>4, <1>5
<1>6. ASSUME r.type \notin {"Commit", "Abort"}
      PROVE  \A k \in 1 .. n : k \in Q <=> k \in P
    BY <1>1, <1>4, <1>6
<1>7. ASSUME r.type = "Intent" PROVE Q = P \cup {n + 1}
    <2>1. n + 1 \in Q
        BY <1>1, <1>4, <1>7
    <2>2. \A k \in Q : k \in 1 .. n \/ k = n + 1
        BY <1>4
    <2>3. \A k \in P : k \in 1 .. n
        OBVIOUS
    <2> HIDE DEF P, Q
    <2> QED
        BY <1>6, <1>7, <2>1, <2>2, <2>3
<1>8. ASSUME r.type \notin {"Intent", "Commit", "Abort"} PROVE Q = P
    <2>1. \A k \in Q : k \in 1 .. n
        BY <1>1, <1>4, <1>8
    <2>2. \A k \in P : k \in 1 .. n
        OBVIOUS
    <2> HIDE DEF P, Q
    <2> QED
        BY <1>6, <1>8, <2>1, <2>2
<1>9. \A k \in P : k \in 1 .. n
    OBVIOUS
<1> HIDE DEF P, Q
<1>10. r.type = "Intent" => OpenIntents(g) = OpenIntents(f) \cup {r.intent}
    BY <1>1, <1>2, <1>3, <1>7, <1>9
<1>11. r.type \in {"Commit", "Abort"} => OpenIntents(g) = {}
    BY <1>3, <1>5
<1>12. r.type \notin {"Intent", "Commit", "Abort"} => OpenIntents(g) = OpenIntents(f)
    BY <1>1, <1>2, <1>3, <1>8, <1>9
<1> QED
    BY <1>10, <1>11, <1>12 DEF g

\* The outcomes in a log, from its last snapshot on.
Start(f) == Max({0} \cup {k \in DOMAIN f : f[k].type = "Snapshot"})
Closed(f, s, n, t, o) == {<<f[k].intent, o>> : k \in {k \in s + 1 .. n : f[k].type = t}}

\* The last snapshot stays where it is.
LEMMA StartAppend ==
    ASSUME NEW f \in Seq(Record), NEW r \in Record, r.type # "Snapshot"
    PROVE  Start(f) \in 0 .. Len(f) /\ Start(Append(f, r)) = Start(f)
<1> DEFINE g == Append(f, r)
           n == Len(f)
           S == {k \in DOMAIN f : f[k].type = "Snapshot"}
<1>1. /\ n \in Nat /\ DOMAIN f = 1 .. n /\ DOMAIN g = 1 .. n + 1
      /\ \A k \in 1 .. n : g[k] = f[k]
      /\ g[n + 1] = r
    BY Longer
<1> HIDE DEF g, n
<1>2. 1 .. n + 1 = (1 .. n) \cup {n + 1}
    BY <1>1
<1>3. {k \in DOMAIN g : g[k].type = "Snapshot"} = S
    BY <1>1, <1>2
<1>4. {0} \cup S \in SUBSET (0 .. n)
    BY <1>1
<1>5. Start(f) = Max({0} \cup S) /\ Start(g) = Max({0} \cup S)
    BY <1>3 DEF Start
<1> HIDE DEF S
<1>6. Max({0} \cup S) \in {0} \cup S
    BY <1>1, <1>4, MaxIsLargest
<1> QED
    BY <1>4, <1>5, <1>6 DEF g, n

\* The outcome that the record has is added.
LEMMA ClosedAppend ==
    ASSUME NEW f \in Seq(Record), NEW r \in Record, NEW s \in 0 .. Len(f), NEW t, NEW o
    PROVE  Closed(Append(f, r), s, Len(f) + 1, t, o)
            = Closed(f, s, Len(f), t, o) \cup (IF r.type = t THEN {<<r.intent, o>>} ELSE {})
<1> DEFINE g == Append(f, r)
           n == Len(f)
           P == {k \in s + 1 .. n : f[k].type = t}
           Q == {k \in s + 1 .. n + 1 : g[k].type = t}
<1>1. n \in Nat /\ (\A k \in 1 .. n : g[k] = f[k]) /\ g[n + 1] = r
    BY Longer
<1>2. s \in Nat /\ s <= n
    BY <1>1
<1> HIDE DEF g, n
<1>3. s + 1 .. n + 1 = (s + 1 .. n) \cup {n + 1} /\ \A k \in s + 1 .. n : k \in 1 .. n
    BY <1>1, <1>2
<1>4. Q = P \cup (IF r.type = t THEN {n + 1} ELSE {})
    BY <1>1, <1>3
<1>5. \A k \in P : g[k] = f[k]
    BY <1>1, <1>3
<1>6. Closed(f, s, n, t, o) = {<<f[k].intent, o>> : k \in P}
    BY DEF Closed
<1>7. Closed(g, s, n + 1, t, o) = {<<g[k].intent, o>> : k \in Q}
    BY DEF Closed
<1> HIDE DEF P, Q
<1>8. Closed(g, s, n + 1, t, o)
        = Closed(f, s, n, t, o) \cup (IF r.type = t THEN {<<r.intent, o>>} ELSE {})
    <2>1. CASE r.type = t
        BY <1>1, <1>4, <1>5, <1>6, <1>7, <2>1
    <2>2. CASE r.type # t
        BY <1>1, <1>4, <1>5, <1>6, <1>7, <2>2
    <2> QED
        BY <2>1, <2>2
<1> QED
    BY <1>8 DEF g, n

\* A commit and an abort add an outcome; no other record than a snapshot changes
\* the outcomes.
LEMMA CompletedAppend ==
    ASSUME NEW f \in Seq(Record), NEW r \in Record, r.type # "Snapshot"
    PROVE  Completed(Append(f, r)) =
             Completed(f)
             \cup (IF r.type = "Commit" THEN {<<r.intent, "committed">>} ELSE {})
             \cup (IF r.type = "Abort" THEN {<<r.intent, "aborted">>} ELSE {})
<1> DEFINE g == Append(f, r)
           n == Len(f)
           s == Start(f)
           before(h) == IF s = 0 THEN {} ELSE h[s].state
<1>1. /\ n \in Nat /\ Len(g) = n + 1 /\ \A k \in 1 .. n : g[k] = f[k]
    BY Longer
<1>2. s \in 0 .. n /\ Start(g) = s
    BY StartAppend
<1>3. Completed(f) = before(f) \cup Closed(f, s, n, "Commit", "committed")
                               \cup Closed(f, s, n, "Abort", "aborted")
    BY DEF Completed, Start, Closed
<1>4. Completed(g) = before(g) \cup Closed(g, s, n + 1, "Commit", "committed")
                               \cup Closed(g, s, n + 1, "Abort", "aborted")
    <2>1. Completed(g) = (IF Start(g) = 0 THEN {} ELSE g[Start(g)].state)
                            \cup Closed(g, Start(g), Len(g), "Commit", "committed")
                            \cup Closed(g, Start(g), Len(g), "Abort", "aborted")
        BY DEF Completed, Start, Closed
    <2> QED
        BY <1>1, <1>2, <2>1
<1>5. before(g) = before(f)
    BY <1>1, <1>2
<1>6. \A t, o : Closed(g, s, n + 1, t, o)
            = Closed(f, s, n, t, o) \cup (IF r.type = t THEN {<<r.intent, o>>} ELSE {})
    BY <1>2, ClosedAppend
<1> HIDE DEF g, n, s, before
<1>7. Completed(g) = Completed(f)
             \cup (IF r.type = "Commit" THEN {<<r.intent, "committed">>} ELSE {})
             \cup (IF r.type = "Abort" THEN {<<r.intent, "aborted">>} ELSE {})
    BY <1>3, <1>4, <1>5, <1>6
<1> QED
    BY <1>7 DEF g

\* A log stays well formed when an intent follows closed ones, and a commit or an
\* abort the intent it is for.
LEMMA WellFormedAppend ==
    ASSUME NEW f \in Seq(Record), NEW r \in Record, WellFormed(f),
           r.type = "Intent" => OpenIntents(f) = {},
           r.type \in {"Commit", "Abort"} => OpenIntents(f) = {r.intent}
    PROVE  WellFormed(Append(f, r))
<1> DEFINE g == Append(f, r)
           n == Len(f)
<1>1. /\ n \in Nat /\ DOMAIN f = 1 .. n /\ DOMAIN g = 1 .. n + 1
      /\ \A k \in 1 .. n : g[k] = f[k]
      /\ g[n + 1] = r
    BY Longer
<1>2. \A m \in 0 .. n : SubSeq(g, 1, m) = SubSeq(f, 1, m)
    BY PrefixAppend
<1>3. SubSeq(f, 1, n) = f
    BY WholePrefix
<1> HIDE DEF g, n
<1> SUFFICES ASSUME NEW k \in 1 .. n + 1
             PROVE  /\ g[k].type = "Intent" => OpenIntents(SubSeq(g, 1, k - 1)) = {}
                    /\ g[k].type \in {"Commit", "Abort"} =>
                            OpenIntents(SubSeq(g, 1, k - 1)) = {g[k].intent}
    BY <1>1 DEF WellFormed, g
<1>4. SubSeq(g, 1, k - 1) = SubSeq(f, 1, k - 1)
    BY <1>1, <1>2
<1>5. CASE k \in 1 .. n
    BY <1>1, <1>4, <1>5 DEF WellFormed
<1>6. CASE k = n + 1
    <2>1. SubSeq(g, 1, k - 1) = f
        BY <1>1, <1>3, <1>4, <1>6
    <2> QED
        BY <1>1, <1>6, <2>1
<1> QED
    BY <1>1, <1>5, <1>6

\* A record behind damage, and damage itself, are not read.
LEMMA ReadableAppend ==
    ASSUME NEW f \in Seq(Record), NEW r \in Record
    PROVE  /\ Damage(f) = {} => Readable(f) = f
           /\ Damage(f) = {} /\ Whole(r) => Readable(Append(f, r)) = Append(f, r)
           /\ Damage(f) # {} \/ ~Whole(r) => Readable(Append(f, r)) = Readable(f)
<1> DEFINE g == Append(f, r)
           n == Len(f)
<1>1. /\ n \in Nat /\ Damage(f) \in SUBSET (1 .. n)
      /\ Whole(r) => Damage(g) = Damage(f)
      /\ ~Whole(r) => Damage(g) = Damage(f) \cup {n + 1}
    BY Longer, DamageAppend
<1>2. \A m \in 0 .. n : SubSeq(g, 1, m) = SubSeq(f, 1, m)
    BY PrefixAppend
<1>3. SubSeq(f, 1, n) = f
    BY WholePrefix
<1> HIDE DEF g, n
<1>4. Damage(f) = {} => Readable(f) = f
    BY DEF Readable
<1>5. Damage(f) = {} /\ Whole(r) => Readable(g) = g
    BY <1>1 DEF Readable
<1>6. ASSUME Damage(f) # {} PROVE Readable(g) = Readable(f)
    <2>1. Min(Damage(g)) = Min(Damage(f)) /\ Damage(g) # {}
        <3>1. CASE Whole(r)
            BY <1>1, <1>6, <3>1
        <3>2. CASE ~Whole(r)
            <4>1. Damage(f) \in SUBSET Nat /\ n + 1 \in Nat /\ \A y \in Damage(f) : y < n + 1
                BY <1>1
            <4>2. Min(Damage(f) \cup {n + 1}) = Min(Damage(f))
                BY <1>6, <4>1, MinKept
            <4> QED
                BY <1>1, <3>2, <4>2
        <3> QED
            BY <3>1, <3>2
    <2>2. Min(Damage(f)) \in 1 .. n
        <3>1. Damage(f) \in SUBSET Nat
            BY <1>1
        <3>2. Min(Damage(f)) \in Damage(f)
            BY <1>6, <3>1, MinIsLeast
        <3> QED
            BY <1>1, <3>2
    <2>3. Min(Damage(f)) - 1 \in 0 .. n
        BY <1>1, <2>2
    <2> QED
        BY <1>2, <1>6, <2>1, <2>3 DEF Readable
<1>7. ASSUME Damage(f) = {}, ~Whole(r) PROVE Readable(g) = Readable(f)
    <2>1. Damage(g) = {n + 1}
        BY <1>1, <1>7
    <2>2. Min({n + 1}) = n + 1
        BY <1>1, MinIsLeast
    <2>3. Readable(g) = SubSeq(g, 1, (n + 1) - 1)
        <3>1. Damage(g) # {} /\ Min(Damage(g)) = n + 1
            BY <2>1, <2>2
        <3> QED
            BY <3>1 DEF Readable
    <2>4. (n + 1) - 1 = n /\ n \in 0 .. n
        BY <1>1
    <2> QED
        BY <1>2, <1>3, <1>4, <1>7, <2>3, <2>4
<1> QED
    BY <1>4, <1>5, <1>6, <1>7 DEF g

\* What can be read has no damage.
LEMMA ReadableClean ==
    ASSUME NEW f \in Seq(Record)
    PROVE  /\ Readable(f) \in Seq(Record) /\ Damage(Readable(f)) = {}
           /\ Readable(Readable(f)) = Readable(f)
           /\ Damage(f) = {} => Readable(f) = f /\ Buried(f) = {}
<1>1. CASE Damage(f) = {}
    BY <1>1 DEF Readable, Buried
<1>2. CASE Damage(f) # {}
    <2> DEFINE n == Len(f)
               d == Min(Damage(f))
               p == SubSeq(f, 1, d - 1)
    <2>1. n \in Nat /\ DOMAIN f = 1 .. n /\ \A k \in 1 .. n : f[k] \in Record
        OBVIOUS
    <2>2. Damage(f) \in SUBSET Nat /\ Damage(f) \subseteq 1 .. n
        BY <2>1 DEF Damage
    <2>3. d \in Damage(f) /\ \A y \in Damage(f) : d <= y
        BY <1>2, <2>2, MinIsLeast
    <2>4. d \in 1 .. n
        BY <2>2, <2>3
    <2> HIDE DEF d, n
    <2>5. 1 \in Int /\ d - 1 \in Int /\ \A i \in 1 .. d - 1 : f[i] \in Record
        BY <2>1, <2>4
    <2>6. /\ p \in Seq(Record) /\ Len(p) = (IF 1 <= d - 1 THEN d - 1 - 1 + 1 ELSE 0)
          /\ \A i \in 1 .. d - 1 - 1 + 1 : p[i] = f[1 + i - 1]
        BY <2>5, SubSeqProperties
    <2>7. /\ (IF 1 <= d - 1 THEN d - 1 - 1 + 1 ELSE 0) = d - 1
          /\ d - 1 - 1 + 1 = d - 1 /\ \A i \in 1 .. d - 1 : 1 + i - 1 = i
        BY <2>1, <2>4
    <2>8. p \in Seq(Record) /\ DOMAIN p = 1 .. d - 1 /\ \A i \in 1 .. d - 1 : p[i] = f[i]
        <3>1. Len(p) = d - 1
            BY <2>6, <2>7
        <3>2. DOMAIN p = 1 .. Len(p)
            BY <2>6
        <3> QED
            BY <2>6, <2>7, <3>1, <3>2
    <2>9. Readable(f) = p
        BY <1>2 DEF Readable, d
    <2> HIDE DEF p
    <2>10. Damage(p) = {}
        <3>1. \A i \in 1 .. d - 1 : i \in DOMAIN f /\ i \notin Damage(f)
            BY <2>1, <2>2, <2>3, <2>4
        <3>2. \A i \in 1 .. d - 1 : f[i].type \notin {"Partial", "Gap"}
            BY <3>1 DEF Damage
        <3> QED
            BY <2>8, <3>2 DEF Damage
    <2>11. Readable(p) = p
        BY <2>10 DEF Readable
    <2> QED
        BY <1>2, <2>8, <2>9, <2>10, <2>11
<1> QED
    BY <1>1, <1>2

\* A record is buried if there was damage before it.
LEMMA BuriedAppend ==
    ASSUME NEW f \in Seq(Record), NEW r \in Record, NEW k \in Buried(Append(f, r))
    PROVE  \/ k \in Buried(f) /\ Append(f, r)[k] = f[k]
           \/ Append(f, r)[k] = r /\ Damage(f) # {} /\ Whole(r)
<1> DEFINE g == Append(f, r)
           n == Len(f)
<1>1. /\ n \in Nat /\ DOMAIN f = 1 .. n /\ DOMAIN g = 1 .. n + 1
      /\ \A i \in 1 .. n : g[i] = f[i]
      /\ g[n + 1] = r
    BY Longer
<1>2. /\ Damage(f) \in SUBSET (1 .. n)
      /\ Whole(r) => Damage(g) = Damage(f)
      /\ ~Whole(r) => Damage(g) = Damage(f) \cup {n + 1}
    BY DamageAppend
<1> HIDE DEF g, n
<1>3. k \in 1 .. n + 1 /\ k \notin Damage(g) /\ \E d \in Damage(g) : d < k
    BY <1>1 DEF Buried, g
<1>4. PICK d \in Damage(g) : d < k
    BY <1>3
<1>5. d \in Damage(f)
    <2>1. CASE d \in 1 .. n
        BY <1>1, <1>2, <1>4, <2>1
    <2>2. CASE d = n + 1
        BY <1>1, <1>3, <1>4, <2>2
    <2> QED
        BY <1>1, <1>2, <1>4, <2>1, <2>2
<1>6. CASE k \in 1 .. n
    <2>1. k \in Buried(f)
        BY <1>1, <1>2, <1>3, <1>4, <1>5, <1>6 DEF Buried
    <2> QED
        BY <1>1, <1>6, <2>1 DEF g
<1>7. CASE k = n + 1
    <2>1. Whole(r)
        BY <1>2, <1>3, <1>7
    <2> QED
        BY <1>1, <1>5, <1>7, <2>1 DEF g
<1> QED
    BY <1>1, <1>3, <1>6, <1>7

\* The empty log has nothing in it.
LEMMA EmptyLog == Holds(<<>>, {}, {})
<1>1. <<>> \in Seq(Record) /\ Len(<<>>) = 0 /\ DOMAIN <<>> = {}
    OBVIOUS
<1>2. Damage(<<>>) = {} /\ WellFormed(<<>>) /\ OpenIntents(<<>>) = {}
    BY <1>1 DEF Damage, WellFormed, OpenIntents
<1>3. Start(<<>>) = 0
    <2>1. {0} \cup {k \in DOMAIN <<>> : <<>>[k].type = "Snapshot"} = {0}
        BY <1>1
    <2>2. Max({0}) \in {0}
        BY MaxIsLargest
    <2> QED
        BY <2>1, <2>2 DEF Start
<1>4. \A t, o : Closed(<<>>, 0, 0, t, o) = {}
    BY DEF Closed
<1>5. Completed(<<>>) = (IF Start(<<>>) = 0 THEN {} ELSE <<>>[Start(<<>>)].state)
                            \cup Closed(<<>>, Start(<<>>), Len(<<>>), "Commit", "committed")
                            \cup Closed(<<>>, Start(<<>>), Len(<<>>), "Abort", "aborted")
    BY DEF Completed, Start, Closed
<1>6. Completed(<<>>) = {}
    BY <1>1, <1>3, <1>4, <1>5
<1> QED
    BY <1>1, <1>2, <1>6 DEF Holds

\* A snapshot alone has the outcomes it was made of.
LEMMA SnapshotLog ==
    ASSUME NEW S \in SUBSET (Nat \X Outcomes)
    PROVE  Holds(<<Snapshot(S)>>, S, {})
<1> DEFINE r == Snapshot(S)
           f == <<r>>
<1>1. r \in Record /\ r.type = "Snapshot" /\ r.state = S
    BY DEF Snapshot, Record, Outcomes
<1> HIDE DEF r
<1>2. f \in Seq(Record) /\ Len(f) = 1 /\ DOMAIN f = {1} /\ f[1] = r
    BY <1>1
<1> HIDE DEF f
<1>3. Damage(f) = {} /\ WellFormed(f) /\ OpenIntents(f) = {}
    BY <1>1, <1>2 DEF Damage, WellFormed, OpenIntents
<1>4. Start(f) = 1
    <2>1. {0} \cup {k \in DOMAIN f : f[k].type = "Snapshot"} = {0, 1}
        BY <1>1, <1>2
    <2>2. Max({0, 1}) \in {0, 1} /\ \A y \in {0, 1} : y <= Max({0, 1})
        <3>1. {0, 1} \in SUBSET (0 .. 1) /\ {0, 1} # {} /\ 1 \in Nat
            OBVIOUS
        <3> QED
            BY <3>1, MaxIsLargest
    <2>3. Max({0, 1}) = 1
        BY <2>2
    <2> QED
        BY <2>1, <2>3 DEF Start
<1>5. \A t, o : Closed(f, 1, 1, t, o) = {}
    BY DEF Closed
<1>6. Completed(f) = (IF Start(f) = 0 THEN {} ELSE f[Start(f)].state)
                        \cup Closed(f, Start(f), Len(f), "Commit", "committed")
                        \cup Closed(f, Start(f), Len(f), "Abort", "aborted")
    BY DEF Completed, Start, Closed
<1>7. Completed(f) = S
    BY <1>1, <1>2, <1>4, <1>5, <1>6
<1> QED
    BY <1>2, <1>3, <1>7 DEF Holds, f, r

\* A log in order stays in order when the daemon appends to it.
LEMMA InOrderAppend ==
    ASSUME NEW f \in Seq(Record), NEW c \in Nat, InOrder(f, c)
    PROVE  /\ OpenIntents(f) = {} =>
                /\ InOrder(f, c + 1) /\ InOrder(Append(f, Intent(c + 1)), c + 1)
                /\ OpenIntents(Append(f, Intent(c + 1))) = {c + 1}
                /\ Completed(Append(f, Intent(c + 1))) = Completed(f)
                /\ \A o \in Outcomes : <<c + 1, o>> \notin Completed(f)
           /\ OpenIntents(f) = {c} =>
                /\ InOrder(Append(f, Commit(c)), c) /\ InOrder(Append(f, Abort(c)), c)
                /\ OpenIntents(Append(f, Commit(c))) = {}
                /\ OpenIntents(Append(f, Abort(c))) = {}
                /\ Completed(Append(f, Commit(c))) = Completed(f) \cup {<<c, "committed">>}
                /\ Completed(Append(f, Abort(c))) = Completed(f) \cup {<<c, "aborted">>}
           /\ InOrder(Append(f, CleanShutdown), c)
           /\ OpenIntents(Append(f, CleanShutdown)) = OpenIntents(f)
           /\ Completed(Append(f, CleanShutdown)) = Completed(f)
<1>1. /\ WellFormed(f) /\ OpenIntents(f) \subseteq {c}
      /\ c \in OpenIntents(f) => c > 0 /\ \A o \in Outcomes : <<c, o>> \notin Completed(f)
      /\ \A x \in Completed(f) : x \in Nat \X Outcomes /\ x[1] <= c
    BY DEF InOrder
<1>2. ASSUME OpenIntents(f) = {}
      PROVE  /\ InOrder(f, c + 1) /\ InOrder(Append(f, Intent(c + 1)), c + 1)
             /\ OpenIntents(Append(f, Intent(c + 1))) = {c + 1}
             /\ Completed(Append(f, Intent(c + 1))) = Completed(f)
             /\ \A o \in Outcomes : <<c + 1, o>> \notin Completed(f)
    <2> DEFINE r == Intent(c + 1)
               g == Append(f, r)
    <2>1. r \in Record /\ r.type = "Intent" /\ r.intent = c + 1
        BY DEF Intent, Record
    <2> HIDE DEF r
    <2>2. WellFormed(g)
        BY <1>1, <1>2, <2>1, WellFormedAppend
    <2>3. OpenIntents(g) = {c + 1}
        BY <1>2, <2>1, OpenAppend
    <2>4. Completed(g) = Completed(f)
        BY <2>1, CompletedAppend
    <2>5. \A o \in Outcomes : <<c + 1, o>> \notin Completed(f)
        BY <1>1
    <2>6. \A x \in Completed(f) : x \in Nat \X Outcomes /\ x[1] <= c + 1
        BY <1>1
    <2>7. InOrder(f, c + 1)
        BY <1>1, <1>2, <2>6 DEF InOrder
    <2> HIDE DEF g
    <2>8. InOrder(g, c + 1)
        BY <2>2, <2>3, <2>4, <2>5, <2>6 DEF InOrder
    <2> QED
        BY <2>3, <2>4, <2>5, <2>7, <2>8 DEF g, r
<1>3. ASSUME OpenIntents(f) = {c}, NEW r \in Record, r.type \in {"Commit", "Abort"}, r.intent = c
      PROVE  /\ InOrder(Append(f, r), c) /\ OpenIntents(Append(f, r)) = {}
             /\ r.type = "Commit" => Completed(Append(f, r)) = Completed(f) \cup {<<c, "committed">>}
             /\ r.type = "Abort" => Completed(Append(f, r)) = Completed(f) \cup {<<c, "aborted">>}
    <2> DEFINE g == Append(f, r)
    <2>1. WellFormed(g)
        BY <1>1, <1>3, WellFormedAppend
    <2>2. OpenIntents(g) = {}
        BY <1>3, OpenAppend
    <2>3. /\ r.type = "Commit" => Completed(g) = Completed(f) \cup {<<c, "committed">>}
          /\ r.type = "Abort" => Completed(g) = Completed(f) \cup {<<c, "aborted">>}
        BY <1>3, CompletedAppend
    <2> HIDE DEF g
    <2>4. \A x \in Completed(g) : x \in Nat \X Outcomes /\ x[1] <= c
        BY <1>1, <1>3, <2>3 DEF Outcomes
    <2>5. InOrder(g, c)
        BY <2>1, <2>2, <2>4 DEF InOrder
    <2> QED
        BY <2>2, <2>3, <2>5 DEF g
<1>4. /\ Commit(c) \in Record /\ Commit(c).type = "Commit" /\ Commit(c).intent = c
      /\ Abort(c) \in Record /\ Abort(c).type = "Abort" /\ Abort(c).intent = c
      /\ CleanShutdown \in Record /\ CleanShutdown.type = "CleanShutdown"
    BY DEF Commit, Abort, CleanShutdown, Record
<1>5. /\ InOrder(Append(f, CleanShutdown), c)
      /\ OpenIntents(Append(f, CleanShutdown)) = OpenIntents(f)
      /\ Completed(Append(f, CleanShutdown)) = Completed(f)
    <2> DEFINE g == Append(f, CleanShutdown)
    <2>1. WellFormed(g)
        BY <1>1, <1>4, WellFormedAppend
    <2>2. OpenIntents(g) = OpenIntents(f)
        BY <1>4, OpenAppend
    <2>3. Completed(g) = Completed(f)
        BY <1>4, CompletedAppend
    <2> HIDE DEF g
    <2>4. InOrder(g, c)
        BY <1>1, <2>1, <2>2, <2>3 DEF InOrder
    <2> QED
        BY <2>2, <2>3, <2>4 DEF g
<1> QED
    BY <1>2, <1>3, <1>4, <1>5

------------------------------------------------------------------------------
(* The log that the next start would read *)

\* The steps of the log that the daemon relies on.
LogStep ==
    \/ /\ Completed(OnDisk') = Completed(OnDisk)
       /\ OpenIntents(OnDisk') = OpenIntents(OnDisk)
    \/ /\ OpenIntents(OnDisk) = {} /\ OpenIntents(OnDisk') = {current'}
       /\ Completed(OnDisk') = Completed(OnDisk)
       /\ current' \in 1 .. MaxIntents
       /\ \A o \in Outcomes : <<current', o>> \notin Completed(OnDisk)
    \/ /\ OpenIntents(OnDisk) = {current} /\ OpenIntents(OnDisk') = {}
       /\ current > 0
       /\ \E o \in Outcomes : Completed(OnDisk') = Completed(OnDisk) \cup {<<current, o>>}

\* The records that are written, and damage.
LEMMA Records ==
    ASSUME NEW i \in Nat
    PROVE  /\ Intent(i) \in Record /\ Whole(Intent(i)) /\ Commit(i) \in Record /\ Whole(Commit(i))
           /\ Abort(i) \in Record /\ Whole(Abort(i))
           /\ CleanShutdown \in Record /\ Whole(CleanShutdown)
           /\ CleanShutdown.type = "CleanShutdown"
           /\ Partial \in Record /\ ~Whole(Partial) /\ Gap \in Record /\ ~Whole(Gap)
BY DEF Intent, Commit, Abort, CleanShutdown, Partial, Gap, Record, Whole

\* An undamaged log is read as it is.
LEMMA HeldLog ==
    ASSUME NEW S, NEW O, Holds(Effective, S, O)
    PROVE  /\ OnDisk = Effective /\ Damage(Effective) = {} /\ Effective \in Seq(Record)
           /\ WellFormed(OnDisk) /\ Completed(OnDisk) = S /\ OpenIntents(OnDisk) = O
BY ReadableClean DEF Holds, OnDisk

\* The log, if it is there, is what the next start reads.
LEMMA PrimaryIsEffective ==
    ASSUME TypeOK, primary # Nil
    PROVE  primary \in Seq(Record) /\ Effective = primary
BY DEF TypeOK, Effective

\* A record is added to the log.
LEMMA Grow ==
    ASSUME TypeOK, primary # Nil, NEW r \in Record, primary' = Append(primary, r)
    PROVE  /\ primary \in Seq(Record) /\ primary' \in Seq(Record) /\ primary' # Nil
           /\ Effective = primary /\ Effective' = primary' /\ OnDisk \in Seq(Record)
           /\ Damage(primary) = {} => OnDisk = primary
           /\ Damage(primary) = {} /\ Whole(r) =>
                    Damage(primary') = {} /\ OnDisk' = Append(OnDisk, r)
           /\ Damage(primary) # {} \/ ~Whole(r) => OnDisk' = OnDisk
           /\ OnlyMarkersBuried /\ (Damage(primary) # {} /\ Whole(r) => r.type = "CleanShutdown")
                => OnlyMarkersBuried'
<1>1. primary \in Seq(Record) /\ Effective = primary
    BY PrimaryIsEffective
<1>2. primary' \in Seq(Record)
    BY <1>1
<1>3. primary' # Nil
    BY <1>2, StoreAssumption
<1>4. Effective' = primary'
    BY <1>3 DEF Effective
<1>5. OnDisk = Readable(primary) /\ OnDisk' = Readable(primary')
    BY <1>1, <1>4 DEF OnDisk
<1>6. /\ Damage(primary) = {} => OnDisk = primary
      /\ Damage(primary) = {} /\ Whole(r) => Damage(primary') = {} /\ OnDisk' = Append(OnDisk, r)
      /\ Damage(primary) # {} \/ ~Whole(r) => OnDisk' = OnDisk
      /\ OnDisk \in Seq(Record)
    BY <1>1, <1>5, ReadableAppend, DamageAppend, ReadableClean
<1>7. ASSUME OnlyMarkersBuried, Damage(primary) # {} /\ Whole(r) => r.type = "CleanShutdown"
      PROVE  OnlyMarkersBuried'
    <2>1. \A k \in Buried(Append(primary, r)) :
                \/ k \in Buried(primary) /\ Append(primary, r)[k] = primary[k]
                \/ Append(primary, r)[k] = r /\ Damage(primary) # {} /\ Whole(r)
        BY <1>1, BuriedAppend
    <2> QED
        BY <1>7, <2>1 DEF OnlyMarkersBuried
<1> QED
    BY <1>1, <1>2, <1>3, <1>4, <1>6, <1>7

\* What a failed write may leave.
LEMMA FailedWriteLeaves ==
    ASSUME is_open => primary # Nil, NEW r, FailedWrite(r)
    PROVE  \/ primary' = primary
           \/ primary # Nil /\ \E q \in {Partial, Gap, r} : primary' = Append(primary, q)
BY DEF FailedWrite

\* What was acknowledged stays in the log.
LEMMA AckKept ==
    ASSUME AcknowledgedSurvives, LogStep,
           \/ acked' = acked
           \/ acked' = acked \cup {current} /\ <<current, "committed">> \in Completed(OnDisk')
    PROVE  AcknowledgedSurvives'
<1>1. Completed(OnDisk) \subseteq Completed(OnDisk')
    BY DEF LogStep
<1> QED
    BY <1>1 DEF AcknowledgedSurvives

------------------------------------------------------------------------------
(* The steps *)

\* An intent is appended, or the write fails.
LEMMA AppendIntentInv ==
    ASSUME SInv, append_intent
    PROVE  SInv' /\ LogStep
<1> DEFINE r == Intent(current + 1)
<1>1. /\ TypeOK /\ LogInOrder /\ Missing /\ OnlyMarkersBuried /\ AcknowledgedSurvives
      /\ Holds(Effective, applied, {})
      /\ proc = "Serving" /\ ~durability_failed /\ current \in Nat /\ current < MaxIntents
    BY StoreAssumption DEF SInv, InStep, append_intent, TypeOK
<1>2. /\ current' = current + 1 /\ UNCHANGED <<fresh, previous, is_open, applied, acked>>
      /\ \/ Written(r) /\ proc' = "IntentDurable" /\ UNCHANGED durability_failed
         \/ FailedWrite(r) /\ durability_failed' = TRUE /\ UNCHANGED proc
    BY DEF append_intent
<1>3. /\ OnDisk = Effective /\ Damage(Effective) = {} /\ Effective \in Seq(Record)
      /\ Completed(OnDisk) = applied /\ OpenIntents(OnDisk) = {}
    BY <1>1, HeldLog
<1>4. /\ r \in Record /\ Whole(r) /\ Partial \in Record /\ ~Whole(Partial)
      /\ Gap \in Record /\ ~Whole(Gap)
    BY <1>1, Records
<1>5. is_open => primary # Nil
    BY <1>1 DEF Missing
<1>6. /\ InOrder(OnDisk, current + 1) /\ InOrder(Append(OnDisk, r), current + 1)
      /\ OpenIntents(Append(OnDisk, r)) = {current + 1}
      /\ Completed(Append(OnDisk, r)) = Completed(OnDisk)
      /\ \A o \in Outcomes : <<current + 1, o>> \notin Completed(OnDisk)
    BY <1>1, <1>3, InOrderAppend DEF LogInOrder
<1>7. current' \in 0 .. MaxIntents /\ current' \in 1 .. MaxIntents
    BY <1>1, <1>2, StoreAssumption
<1> HIDE DEF r
<1>8. ASSUME primary # Nil, primary' = Append(primary, r)
      PROVE  /\ LogInOrder' /\ LogStep /\ OnlyMarkersBuried' /\ Missing'
             /\ Holds(primary', applied, {current'}) /\ primary' \in Seq(Record)
    <2>1. /\ primary' \in Seq(Record) /\ primary' # Nil /\ Effective = primary
          /\ Effective' = primary' /\ OnDisk' = Append(OnDisk, r) /\ OnDisk = primary
          /\ Damage(primary') = {} /\ OnlyMarkersBuried'
        BY <1>1, <1>3, <1>4, <1>8, Grow
    <2>2. LogInOrder' /\ LogStep
        BY <1>2, <1>3, <1>6, <1>7, <2>1 DEF LogInOrder, LogStep
    <2>3. Holds(primary', applied, {current'})
        BY <1>2, <1>3, <1>6, <1>8, <2>1 DEF Holds, InOrder
    <2> QED
        BY <2>1, <2>2, <2>3 DEF Missing
<1>9. ASSUME Written(r), proc' = "IntentDurable", UNCHANGED durability_failed
      PROVE  SInv' /\ LogStep
    <2>1. primary # Nil /\ primary' = Append(primary, r) /\ record_count' = record_count + 1
        BY <1>5, <1>9 DEF Written
    <2>2. TypeOK'
        BY <1>1, <1>2, <1>7, <1>8, <1>9, <2>1 DEF TypeOK, Proc
    <2>3. InStep'
        BY <1>2, <1>8, <1>9, <2>1 DEF InStep
    <2>4. AcknowledgedSurvives' /\ RefusedOnlyBuriedOrFull'
        BY <1>1, <1>2, <1>8, <1>9, <2>1, AckKept DEF RefusedOnlyBuriedOrFull
    <2> QED
        BY <1>8, <2>1, <2>2, <2>3, <2>4 DEF SInv
<1>10. ASSUME FailedWrite(r), durability_failed' = TRUE, UNCHANGED proc
       PROVE  SInv' /\ LogStep
    <2>1. UNCHANGED record_count
        BY <1>10 DEF FailedWrite
    <2>2. ASSUME OnDisk' = OnDisk, Effective' \in Seq(Record)
          PROVE  LogInOrder' /\ LogStep
        BY <1>2, <1>6, <2>2 DEF LogInOrder, LogStep
    <2>3. CASE primary' = primary
        <3>1. Effective' = Effective
            BY <1>2, <2>3 DEF Effective
        <3>2. OnDisk' = OnDisk
            BY <3>1 DEF OnDisk
        <3>3. LogInOrder' /\ LogStep
            BY <1>3, <2>2, <3>1, <3>2
        <3>4. OnlyMarkersBuried' /\ Missing'
            BY <1>1, <1>2, <1>10, <2>3 DEF OnlyMarkersBuried, Missing
        <3>5. primary' \in Seq(Record) \cup {Nil}
            BY <1>1, <2>3 DEF TypeOK
        <3> QED
            BY <1>1, <1>2, <1>7, <1>10, <2>1, <3>3, <3>4, <3>5, AckKept
               DEF SInv, TypeOK, InStep, RefusedOnlyBuriedOrFull
    <2>4. CASE primary # Nil /\ \E q \in {Partial, Gap, r} : primary' = Append(primary, q)
        <3>1. PICK q \in {Partial, Gap, r} : primary' = Append(primary, q)
            BY <2>4
        <3>2. /\ LogInOrder' /\ LogStep /\ OnlyMarkersBuried' /\ Missing'
              /\ primary' \in Seq(Record)
            <4>1. CASE q = r
                BY <1>8, <2>4, <3>1, <4>1
            <4>2. CASE q \in {Partial, Gap}
                <5>1. q \in Record /\ ~Whole(q)
                    BY <1>4, <4>2
                <5>2. /\ OnDisk' = OnDisk /\ OnlyMarkersBuried' /\ primary' # Nil
                      /\ primary' \in Seq(Record) /\ Effective' = primary'
                    BY <1>1, <2>4, <3>1, <5>1, Grow
                <5> QED
                    BY <2>2, <5>2 DEF Missing
            <4> QED
                BY <4>1, <4>2
        <3> QED
            BY <1>1, <1>2, <1>7, <1>10, <2>1, <3>2, AckKept
               DEF SInv, TypeOK, InStep, RefusedOnlyBuriedOrFull
    <2> QED
        BY <1>5, <1>10, <2>3, <2>4, FailedWriteLeaves
<1> QED
    BY <1>2, <1>9, <1>10

\* Damage at the end of the log changes nothing that is read.
LEMMA DamageUnread ==
    ASSUME TypeOK, LogInOrder, OnlyMarkersBuried, UNCHANGED <<fresh, previous, current>>,
           \/ primary' = primary
           \/ primary # Nil /\ \E q \in {Partial, Gap} : primary' = Append(primary, q)
    PROVE  /\ OnDisk' = OnDisk /\ LogInOrder' /\ LogStep /\ OnlyMarkersBuried'
           /\ primary' \in Seq(Record) \cup {Nil} /\ (primary' = Nil <=> primary = Nil)
<1>1. ASSUME OnDisk' = OnDisk, Effective' \in Seq(Record) PROVE LogInOrder' /\ LogStep
    BY <1>1 DEF LogInOrder, LogStep
<1>2. CASE primary' = primary
    <2>1. Effective' = Effective
        BY <1>2 DEF Effective
    <2>2. OnDisk' = OnDisk
        BY <2>1 DEF OnDisk
    <2>3. Effective' \in Seq(Record)
        BY <2>1 DEF LogInOrder
    <2> QED
        BY <1>1, <1>2, <2>2, <2>3 DEF OnlyMarkersBuried, TypeOK
<1>3. CASE primary # Nil /\ \E q \in {Partial, Gap} : primary' = Append(primary, q)
    <2>1. PICK q \in {Partial, Gap} : primary' = Append(primary, q)
        BY <1>3
    <2>2. q \in Record /\ ~Whole(q)
        BY Records
    <2>3. /\ OnDisk' = OnDisk /\ OnlyMarkersBuried' /\ primary' # Nil
          /\ primary' \in Seq(Record) /\ Effective' = primary'
        BY <1>3, <2>1, <2>2, Grow
    <2> QED
        BY <1>1, <1>3, <2>3
<1> QED
    BY <1>2, <1>3

\* The outcome of the open intent at the end of the log.
LEMMA OutcomeAppended ==
    ASSUME TypeOK, LogInOrder, OnlyMarkersBuried, current' = current, primary # Nil,
           Holds(primary, Completed(primary), {current}),
           NEW r \in {Commit(current), Abort(current)}, primary' = Append(primary, r)
    PROVE  /\ LogInOrder' /\ LogStep /\ OnlyMarkersBuried'
           /\ primary' \in Seq(Record) /\ primary' # Nil /\ Effective' = primary'
           /\ r = Commit(current) =>
                Holds(primary', Completed(primary) \cup {<<current, "committed">>}, {})
           /\ r = Abort(current) =>
                Holds(primary', Completed(primary) \cup {<<current, "aborted">>}, {})
<1>1. current \in Nat /\ r \in Record /\ Whole(r) /\ Damage(primary) = {}
    BY Records, StoreAssumption DEF TypeOK, Holds
<1>2. /\ primary \in Seq(Record) /\ primary' \in Seq(Record) /\ primary' # Nil
      /\ Effective' = primary' /\ OnDisk = primary /\ OnDisk' = Append(primary, r)
      /\ Damage(primary') = {} /\ OnlyMarkersBuried'
    BY <1>1, Grow
<1>3. OpenIntents(primary) = {current} /\ InOrder(primary, current)
    BY <1>2 DEF Holds, LogInOrder
<1>4. /\ InOrder(primary', current) /\ OpenIntents(primary') = {}
      /\ r = Commit(current) =>
            Completed(primary') = Completed(primary) \cup {<<current, "committed">>}
      /\ r = Abort(current) =>
            Completed(primary') = Completed(primary) \cup {<<current, "aborted">>}
    BY <1>1, <1>2, <1>3, InOrderAppend
<1>5. LogInOrder'
    BY <1>2, <1>4 DEF LogInOrder
<1>6. LogStep
    <2>1. current > 0
        BY <1>3 DEF InOrder
    <2>2. \E o \in Outcomes : Completed(primary') = Completed(primary) \cup {<<current, o>>}
        BY <1>4 DEF Outcomes
    <2> QED
        BY <1>2, <1>3, <1>4, <2>1, <2>2 DEF LogStep
<1>7. \A S : Completed(primary') = S => Holds(primary', S, {})
    BY <1>2, <1>4 DEF Holds, InOrder
<1> QED
    BY <1>2, <1>4, <1>5, <1>6, <1>7

\* The commit record is appended, or the write fails.
LEMMA AppendCommitInv ==
    ASSUME SInv, append_commit
    PROVE  SInv' /\ LogStep
<1> DEFINE r == Commit(current)
<1>1. /\ TypeOK /\ LogInOrder /\ Missing /\ OnlyMarkersBuried /\ AcknowledgedSurvives
      /\ Holds(primary, applied, {current}) /\ proc = "IntentDurable" /\ current \in Nat
    BY StoreAssumption DEF SInv, InStep, append_commit, TypeOK
<1>2. /\ applied' = applied \cup {<<current, "committed">>}
      /\ UNCHANGED <<fresh, previous, is_open, current>>
      /\ \/ /\ Written(r) /\ UNCHANGED durability_failed
            /\ \/ proc' = "Compacting" /\ UNCHANGED acked
               \/ proc' = "Serving" /\ acked' = acked \cup {current}
         \/ /\ FailedWrite(r) /\ durability_failed' = TRUE
            /\ proc' = "Serving" /\ UNCHANGED acked
    BY DEF append_commit
<1>3. primary # Nil /\ Completed(primary) = applied
    BY <1>1 DEF Missing, Holds
<1>4. applied' \in SUBSET (Nat \X Outcomes) /\ <<current, "committed">> \in applied'
    BY <1>1, <1>2 DEF TypeOK, Outcomes
<1>5. ASSUME primary' = Append(primary, r)
      PROVE  /\ LogInOrder' /\ LogStep /\ OnlyMarkersBuried' /\ Missing'
             /\ primary' \in Seq(Record) /\ Effective' = primary'
             /\ Holds(primary', applied', {})
    BY <1>1, <1>2, <1>3, <1>5, OutcomeAppended DEF Missing
<1>6. ASSUME Written(r), UNCHANGED durability_failed,
             \/ proc' = "Compacting" /\ UNCHANGED acked
             \/ proc' = "Serving" /\ acked' = acked \cup {current}
      PROVE  SInv' /\ LogStep
    <2>1. primary' = Append(primary, r) /\ record_count' = record_count + 1
        BY <1>6 DEF Written
    <2>2. TypeOK'
        BY <1>1, <1>2, <1>4, <1>5, <1>6, <2>1 DEF TypeOK, Proc
    <2>3. InStep'
        BY <1>2, <1>4, <1>5, <1>6, <2>1 DEF InStep
    <2>4. Completed(OnDisk') = applied'
        BY <1>5, <2>1, ReadableClean DEF Holds, OnDisk
    <2>5. AcknowledgedSurvives' /\ RefusedOnlyBuriedOrFull'
        BY <1>1, <1>4, <1>5, <1>6, <2>1, <2>4, AckKept DEF RefusedOnlyBuriedOrFull
    <2> QED
        BY <1>5, <2>1, <2>2, <2>3, <2>5 DEF SInv
<1>7. ASSUME FailedWrite(r), durability_failed' = TRUE, proc' = "Serving", UNCHANGED acked
      PROVE  SInv' /\ LogStep
    <2>1. UNCHANGED record_count
        BY <1>7 DEF FailedWrite
    <2>2. /\ LogInOrder' /\ LogStep /\ OnlyMarkersBuried' /\ Missing'
          /\ primary' \in Seq(Record) \cup {Nil}
        <3>1. CASE primary' = Append(primary, r)
            BY <1>5, <3>1
        <3>2. CASE primary' # Append(primary, r)
            <4>1. \/ primary' = primary
                  \/ primary # Nil /\ \E q \in {Partial, Gap} : primary' = Append(primary, q)
                BY <1>3, <1>7, <3>2, FailedWriteLeaves
            <4> QED
                BY <1>1, <1>2, <1>3, <4>1, DamageUnread DEF Missing
        <3> QED
            BY <3>1, <3>2
    <2>3. TypeOK'
        BY <1>1, <1>2, <1>4, <1>7, <2>1, <2>2 DEF TypeOK, Proc
    <2> QED
        BY <1>1, <1>7, <2>2, <2>3, AckKept DEF SInv, InStep, RefusedOnlyBuriedOrFull
<1> QED
    BY <1>2, <1>6, <1>7

\* The abort record for the intent that open found is appended, or the write fails.
LEMMA AppendAbortInv ==
    ASSUME SInv, append_abort
    PROVE  SInv' /\ LogStep
<1> DEFINE r == Abort(current)
<1>1. /\ TypeOK /\ LogInOrder /\ Missing /\ OnlyMarkersBuried /\ AcknowledgedSurvives
      /\ Holds(primary, Completed(primary), {current}) /\ proc = "Aborting"
      /\ applied = Completed(primary) \cup {<<current, "aborted">>}
      /\ record_count = Len(primary)
    BY DEF SInv, InStep, append_abort
<1>2. OpenIntents(primary) = {current} /\ primary # Nil
    BY <1>1 DEF Missing, Holds
<1>3. /\ UNCHANGED <<fresh, previous, durability_failed, applied, current, acked>>
      /\ \/ Written(r) /\ proc' = "Serving" /\ UNCHANGED is_open
         \/ /\ FailedWrite(r) /\ is_open' = FALSE
            /\ proc' = IF record_count >= max_records THEN "Refused" ELSE "Down"
    BY <1>2 DEF append_abort
<1>4. ASSUME primary' = Append(primary, r)
      PROVE  /\ LogInOrder' /\ LogStep /\ OnlyMarkersBuried' /\ Missing'
             /\ primary' \in Seq(Record) /\ Effective' = primary'
             /\ Holds(primary', applied, {})
    BY <1>1, <1>2, <1>3, <1>4, OutcomeAppended DEF Missing
<1>5. ASSUME Written(r), proc' = "Serving", UNCHANGED is_open PROVE SInv' /\ LogStep
    <2>1. primary' = Append(primary, r) /\ record_count' = record_count + 1
        BY <1>5 DEF Written
    <2>2. TypeOK'
        BY <1>1, <1>3, <1>4, <1>5, <2>1 DEF TypeOK, Proc
    <2>3. InStep'
        BY <1>3, <1>4, <1>5, <2>1 DEF InStep
    <2> QED
        BY <1>1, <1>3, <1>4, <1>5, <2>1, <2>2, <2>3, AckKept DEF SInv, RefusedOnlyBuriedOrFull
<1>6. ASSUME FailedWrite(r), is_open' = FALSE,
             proc' = IF record_count >= max_records THEN "Refused" ELSE "Down"
      PROVE  SInv' /\ LogStep
    <2>1. UNCHANGED record_count /\ (record_count >= max_records => primary' = primary)
        BY <1>1, StoreAssumption, <1>6 DEF FailedWrite, TypeOK
    <2>2. /\ LogInOrder' /\ LogStep /\ OnlyMarkersBuried' /\ primary' # Nil
          /\ primary' \in Seq(Record) \cup {Nil}
        <3>1. CASE primary' = Append(primary, r)
            BY <1>4, <3>1, StoreAssumption
        <3>2. CASE primary' # Append(primary, r)
            <4>1. \/ primary' = primary
                  \/ primary # Nil /\ \E q \in {Partial, Gap} : primary' = Append(primary, q)
                BY <1>2, <1>6, <3>2, FailedWriteLeaves
            <4> QED
                BY <1>1, <1>2, <1>3, <4>1, DamageUnread
        <3> QED
            BY <3>1, <3>2
    <2>3. TypeOK'
        BY <1>1, <1>3, <1>6, <2>1, <2>2 DEF TypeOK, Proc
    <2>4. Missing' /\ InStep'
        BY <1>6, <2>2 DEF Missing, InStep
    <2>5. RefusedOnlyBuriedOrFull'
        BY <1>1, <1>2, <1>6, <2>1 DEF RefusedOnlyBuriedOrFull
    <2> QED
        BY <1>1, <1>3, <2>2, <2>3, <2>4, <2>5, AckKept DEF SInv
<1> QED
    BY <1>3, <1>5, <1>6

\* The files change and say the same.
LEMMA SameOutcomes ==
    ASSUME LogInOrder, current' = current, NEW S,
           Holds(Effective, S, {}), Holds(Effective', S, {})
    PROVE  LogInOrder' /\ LogStep /\ Completed(OnDisk') = S
<1>1. Completed(OnDisk) = S /\ OpenIntents(OnDisk) = {}
    BY HeldLog
<1>2. /\ OnDisk' = Effective' /\ Effective' \in Seq(Record) /\ WellFormed(OnDisk')
      /\ Completed(OnDisk') = S /\ OpenIntents(OnDisk') = {}
    BY ReadableClean DEF Holds, OnDisk
<1>3. InOrder(OnDisk', current')
    BY <1>1, <1>2 DEF LogInOrder, InOrder
<1> QED
    BY <1>1, <1>2, <1>3 DEF LogInOrder, LogStep

\* The file that the next start would read does not change.
LEMMA SameFile ==
    ASSUME LogInOrder, current' = current, Effective' = Effective
    PROVE  OnDisk' = OnDisk /\ LogInOrder' /\ LogStep
<1>1. OnDisk' = OnDisk
    BY DEF OnDisk
<1> QED
    BY <1>1 DEF LogInOrder, LogStep

\* A snapshot of the tables is a log.
LEMMA SnapshotHolds ==
    ASSUME TypeOK
    PROVE  /\ Holds(<<Snapshot(applied)>>, applied, {})
           /\ <<Snapshot(applied)>> \in Seq(Record) /\ <<Snapshot(applied)>> # Nil
           /\ Buried(<<Snapshot(applied)>>) = {}
<1>1. Holds(<<Snapshot(applied)>>, applied, {})
    BY SnapshotLog DEF TypeOK
<1>2. <<Snapshot(applied)>> \in Seq(Record) /\ Damage(<<Snapshot(applied)>>) = {}
    BY <1>1 DEF Holds
<1> QED
    BY <1>1, <1>2, StoreAssumption, ReadableClean

\* What holds in the middle of a compaction.
LEMMA DuringCompaction ==
    ASSUME SInv, proc \in {"Compacting", "FreshSynced", "MovedAside", "Promoted"}
    PROVE  /\ TypeOK /\ LogInOrder /\ Missing /\ OnlyMarkersBuried /\ AcknowledgedSurvives
           /\ Holds(Effective, applied, {}) /\ <<current, "committed">> \in applied
           /\ proc = "FreshSynced" => fresh = <<Snapshot(applied)>>
           /\ proc = "MovedAside" => primary = Nil /\ Holds(previous, applied, {})
BY DEF SInv, InStep

\* The caller of a request is answered when the log holds its outcome.
LEMMA Answered ==
    ASSUME TypeOK', LogInOrder', Missing', OnlyMarkersBuried', LogStep, AcknowledgedSurvives,
           Holds(Effective', applied', {}), <<current, "committed">> \in applied',
           Completed(OnDisk') = applied', Answer
    PROVE  SInv' /\ LogStep
<1>1. proc' = "Serving" /\ acked' = acked \cup {current}
    BY DEF Answer
<1>2. InStep' /\ RefusedOnlyBuriedOrFull'
    BY <1>1 DEF InStep, RefusedOnlyBuriedOrFull
<1>3. AcknowledgedSurvives'
    BY <1>1, AckKept
<1> QED
    BY <1>2, <1>3 DEF SInv

\* The snapshot is written, or cannot be.
LEMMA WriteFreshInv ==
    ASSUME SInv, write_fresh
    PROVE  SInv' /\ LogStep
<1>1. /\ TypeOK /\ LogInOrder /\ Missing /\ OnlyMarkersBuried /\ AcknowledgedSurvives
      /\ Holds(Effective, applied, {}) /\ <<current, "committed">> \in applied
      /\ proc = "Compacting"
    BY DuringCompaction DEF write_fresh
<1>2. /\ UNCHANGED <<primary, previous, is_open, record_count, durability_failed, applied, current>>
      /\ \/ fresh' = <<Snapshot(applied)>> /\ proc' = "FreshSynced" /\ UNCHANGED acked
         \/ UNCHANGED fresh /\ Answer
    BY DEF write_fresh
<1>3. primary # Nil
    BY <1>1 DEF Missing
<1>4. Effective' = Effective
    BY <1>2, <1>3 DEF Effective
<1>5. LogInOrder' /\ LogStep /\ Completed(OnDisk') = applied /\ Holds(Effective', applied, {})
    BY <1>1, <1>2, <1>4, SameOutcomes
<1>6. OnlyMarkersBuried' /\ Missing'
    BY <1>1, <1>2, <1>3 DEF OnlyMarkersBuried, Missing
<1>7. CASE fresh' = <<Snapshot(applied)>> /\ proc' = "FreshSynced" /\ UNCHANGED acked
    <2>1. TypeOK'
        BY <1>1, <1>2, <1>7 DEF TypeOK, Proc
    <2>2. InStep' /\ RefusedOnlyBuriedOrFull'
        BY <1>1, <1>2, <1>5, <1>7 DEF InStep, RefusedOnlyBuriedOrFull
    <2> QED
        BY <1>1, <1>5, <1>6, <1>7, <2>1, <2>2, AckKept DEF SInv
<1>8. CASE UNCHANGED fresh /\ Answer
    <2>1. TypeOK'
        BY <1>1, <1>2, <1>8 DEF TypeOK, Proc, Answer
    <2> QED
        BY <1>1, <1>2, <1>5, <1>6, <1>8, <2>1, Answered
<1> QED
    BY <1>2, <1>7, <1>8

\* The log is renamed, or cannot be.
LEMMA MoveAsideInv ==
    ASSUME SInv, move_aside
    PROVE  SInv' /\ LogStep
<1>1. /\ TypeOK /\ LogInOrder /\ Missing /\ OnlyMarkersBuried /\ AcknowledgedSurvives
      /\ Holds(Effective, applied, {}) /\ <<current, "committed">> \in applied
      /\ proc = "FreshSynced" /\ fresh = <<Snapshot(applied)>>
    BY DuringCompaction DEF move_aside
<1>2. /\ is_open' = FALSE /\ UNCHANGED <<fresh, record_count, durability_failed, applied, current>>
      /\ \/ previous' = primary /\ primary' = Nil /\ proc' = "MovedAside" /\ UNCHANGED acked
         \/ UNCHANGED <<primary, previous>> /\ Answer
    BY DEF move_aside
<1>3. primary # Nil /\ Effective = primary
    BY <1>1, PrimaryIsEffective DEF Missing
<1>4. CASE previous' = primary /\ primary' = Nil /\ proc' = "MovedAside" /\ UNCHANGED acked
    <2>1. Effective' = fresh /\ Holds(Effective', applied, {})
        BY <1>1, <1>2, <1>4, SnapshotHolds DEF Effective
    <2>2. LogInOrder' /\ LogStep /\ Completed(OnDisk') = applied
        BY <1>1, <1>2, <2>1, SameOutcomes
    <2>3. OnlyMarkersBuried' /\ Missing'
        BY <1>1, <1>2, <1>4 DEF OnlyMarkersBuried, Missing
    <2>4. TypeOK'
        BY <1>1, <1>2, <1>4 DEF TypeOK, Proc
    <2>5. InStep' /\ RefusedOnlyBuriedOrFull'
        BY <1>1, <1>2, <1>3, <1>4, <2>1 DEF InStep, RefusedOnlyBuriedOrFull
    <2> QED
        BY <1>1, <1>4, <2>2, <2>3, <2>4, <2>5, AckKept DEF SInv
<1>5. CASE UNCHANGED <<primary, previous>> /\ Answer
    <2>1. Effective' = Effective
        BY <1>2, <1>5 DEF Effective
    <2>2. LogInOrder' /\ LogStep /\ Completed(OnDisk') = applied /\ Holds(Effective', applied, {})
        BY <1>1, <1>2, <2>1, SameOutcomes
    <2>3. OnlyMarkersBuried' /\ Missing'
        BY <1>1, <1>2, <1>3, <1>5 DEF OnlyMarkersBuried, Missing
    <2>4. TypeOK'
        BY <1>1, <1>2, <1>5 DEF TypeOK, Proc, Answer
    <2> QED
        BY <1>1, <1>2, <1>5, <2>2, <2>3, <2>4, Answered
<1> QED
    BY <1>2, <1>4, <1>5

\* The snapshot becomes the log, or the old log is put back, or neither.
LEMMA PromoteInv ==
    ASSUME SInv, promote
    PROVE  SInv' /\ LogStep
<1>1. /\ TypeOK /\ LogInOrder /\ Missing /\ OnlyMarkersBuried /\ AcknowledgedSurvives
      /\ Holds(Effective, applied, {}) /\ <<current, "committed">> \in applied
      /\ proc = "MovedAside" /\ primary = Nil /\ Holds(previous, applied, {})
    BY DuringCompaction DEF promote
<1>2. /\ UNCHANGED <<is_open, record_count, durability_failed, applied, current>>
      /\ \/ primary' = fresh /\ fresh' = Nil /\ proc' = "Promoted" /\ UNCHANGED <<previous, acked>>
         \/ primary' = previous /\ previous' = Nil /\ UNCHANGED fresh /\ Answer
         \/ UNCHANGED files /\ Answer
    BY DEF promote
<1>3. fresh = <<Snapshot(applied)>> /\ ~is_open
    BY <1>1 DEF Missing
<1>4. ASSUME primary' \in Seq(Record), Holds(primary', applied, {})
      PROVE  /\ Effective' = primary' /\ LogInOrder' /\ LogStep /\ Completed(OnDisk') = applied
             /\ OnlyMarkersBuried' /\ Missing'
    <2>1. primary' # Nil
        BY <1>4, StoreAssumption
    <2>2. Effective' = primary'
        BY <2>1 DEF Effective
    <2>3. LogInOrder' /\ LogStep /\ Completed(OnDisk') = applied
        BY <1>1, <1>2, <1>4, <2>2, SameOutcomes
    <2>4. Buried(primary') = {}
        BY <1>4, ReadableClean DEF Holds
    <2> QED
        BY <2>1, <2>2, <2>3, <2>4 DEF OnlyMarkersBuried, Missing
<1>5. CASE primary' = fresh /\ fresh' = Nil /\ proc' = "Promoted" /\ UNCHANGED <<previous, acked>>
    <2>1. primary' \in Seq(Record) /\ Holds(primary', applied, {})
        BY <1>1, <1>3, <1>5, SnapshotHolds
    <2>2. TypeOK'
        BY <1>1, <1>2, <1>5, <2>1 DEF TypeOK, Proc
    <2>3. InStep' /\ RefusedOnlyBuriedOrFull'
        BY <1>1, <1>2, <1>4, <1>5, <2>1 DEF InStep, RefusedOnlyBuriedOrFull
    <2> QED
        BY <1>1, <1>4, <1>5, <2>1, <2>2, <2>3, AckKept DEF SInv
<1>6. CASE primary' = previous /\ previous' = Nil /\ UNCHANGED fresh /\ Answer
    <2>1. primary' \in Seq(Record) /\ Holds(primary', applied, {})
        BY <1>1, <1>6 DEF Holds
    <2>2. TypeOK'
        BY <1>1, <1>2, <1>6, <2>1 DEF TypeOK, Proc, Answer
    <2> QED
        BY <1>1, <1>2, <1>4, <1>6, <2>1, <2>2, Answered
<1>7. CASE UNCHANGED files /\ Answer
    <2>1. Effective' = Effective
        BY <1>7 DEF Effective, files
    <2>2. LogInOrder' /\ LogStep /\ Completed(OnDisk') = applied /\ Holds(Effective', applied, {})
        BY <1>1, <1>2, <2>1, SameOutcomes
    <2>3. OnlyMarkersBuried' /\ Missing'
        BY <1>1, <1>2, <1>3, <1>7 DEF OnlyMarkersBuried, Missing, files, Answer
    <2>4. TypeOK'
        BY <1>1, <1>2, <1>7 DEF TypeOK, Proc, Answer, files
    <2> QED
        BY <1>1, <1>2, <1>7, <2>2, <2>3, <2>4, Answered
<1> QED
    BY <1>2, <1>5, <1>6, <1>7

\* The new log is opened for appending, or cannot be.
LEMMA FinishCompactionInv ==
    ASSUME SInv, finish_compaction
    PROVE  SInv' /\ LogStep
<1>1. /\ TypeOK /\ LogInOrder /\ Missing /\ OnlyMarkersBuried /\ AcknowledgedSurvives
      /\ Holds(Effective, applied, {}) /\ <<current, "committed">> \in applied
      /\ proc = "Promoted"
    BY DuringCompaction DEF finish_compaction
<1>2. /\ Answer /\ UNCHANGED <<primary, fresh, durability_failed, applied, current>>
      /\ \/ is_open' = TRUE /\ record_count' = 1
         \/ UNCHANGED <<is_open, record_count>>
    BY DEF finish_compaction
<1>3. primary # Nil
    BY <1>1 DEF Missing
<1>4. Effective' = Effective
    BY <1>2, <1>3 DEF Effective
<1>5. LogInOrder' /\ LogStep /\ Completed(OnDisk') = applied /\ Holds(Effective', applied, {})
    BY <1>1, <1>2, <1>4, SameOutcomes
<1>6. OnlyMarkersBuried' /\ Missing'
    BY <1>1, <1>2, <1>3 DEF OnlyMarkersBuried, Missing
<1>7. TypeOK'
    <2>1. is_open' \in BOOLEAN
        BY <1>1, <1>2, Zenon DEF TypeOK
    <2>2. record_count' \in Nat
        BY <1>1, <1>2 DEF TypeOK
    <2> QED
        BY <1>1, <1>2, <2>1, <2>2 DEF TypeOK, Proc, Answer
<1> QED
    BY <1>1, <1>2, <1>5, <1>6, <1>7, Answered

\* A graceful stop appends its marker, or the write fails.
LEMMA StopInv ==
    ASSUME SInv, stop
    PROVE  SInv' /\ LogStep
<1>1. /\ TypeOK /\ LogInOrder /\ Missing /\ OnlyMarkersBuried /\ AcknowledgedSurvives
      /\ current \in Nat
    BY StoreAssumption DEF SInv, TypeOK
<1>2. /\ Written(CleanShutdown) \/ FailedWrite(CleanShutdown)
      /\ is_open' = FALSE /\ proc' = "Down"
      /\ UNCHANGED <<fresh, previous, durability_failed, applied, current, acked>>
    BY DEF stop
<1>3. is_open => primary # Nil
    BY <1>1 DEF Missing
<1>4. \/ primary' = primary
      \/ primary # Nil /\ \E q \in {Partial, Gap, CleanShutdown} : primary' = Append(primary, q)
    BY <1>2, <1>3, FailedWriteLeaves DEF Written
<1>5. record_count' \in Nat
    BY <1>1, <1>2 DEF TypeOK, Written, FailedWrite
<1>6. /\ LogInOrder' /\ LogStep /\ OnlyMarkersBuried'
      /\ primary' \in Seq(Record) \cup {Nil} /\ (primary' = Nil <=> primary = Nil)
    <2>1. CASE primary # Nil /\ primary' = Append(primary, CleanShutdown)
        <3>1. /\ CleanShutdown \in Record /\ Whole(CleanShutdown)
              /\ CleanShutdown.type = "CleanShutdown"
            BY Records
        <3>2. /\ primary' \in Seq(Record) /\ primary' # Nil /\ Effective' = primary'
              /\ OnDisk \in Seq(Record) /\ OnlyMarkersBuried'
              /\ OnDisk' \in {OnDisk, Append(OnDisk, CleanShutdown)}
            BY <1>1, <2>1, <3>1, Grow
        <3>3. /\ InOrder(OnDisk', current) /\ OpenIntents(OnDisk') = OpenIntents(OnDisk)
              /\ Completed(OnDisk') = Completed(OnDisk)
            <4>1. CASE OnDisk' = OnDisk
                BY <1>1, <4>1 DEF LogInOrder
            <4>2. CASE OnDisk' = Append(OnDisk, CleanShutdown)
                <5>1. InOrder(OnDisk, current)
                    BY <1>1 DEF LogInOrder
                <5> QED
                    BY <1>1, <3>2, <4>2, <5>1, InOrderAppend
            <4> QED
                BY <3>2, <4>1, <4>2
        <3> QED
            BY <1>2, <2>1, <3>2, <3>3 DEF LogInOrder, LogStep
    <2>2. CASE \/ primary' = primary
               \/ primary # Nil /\ \E q \in {Partial, Gap} : primary' = Append(primary, q)
        BY <1>1, <1>2, <2>2, DamageUnread
    <2> QED
        BY <1>4, <2>1, <2>2
<1>7. TypeOK'
    BY <1>1, <1>2, <1>5, <1>6 DEF TypeOK, Proc
<1>8. Missing' /\ InStep' /\ RefusedOnlyBuriedOrFull'
    BY <1>1, <1>2, <1>6 DEF Missing, InStep, RefusedOnlyBuriedOrFull
<1> QED
    BY <1>1, <1>2, <1>6, <1>7, <1>8, AckKept DEF SInv

\* The process dies.
LEMMA KillInv ==
    ASSUME SInv, kill
    PROVE  SInv' /\ LogStep
<1>1. /\ TypeOK /\ LogInOrder /\ Missing /\ OnlyMarkersBuried /\ AcknowledgedSurvives
    BY DEF SInv
<1>2. /\ is_open' = FALSE /\ proc' = "Down"
      /\ UNCHANGED <<record_count, durability_failed, applied, current, acked>>
      /\ \/ UNCHANGED files
         \/ is_open /\ primary' = Append(primary, Partial) /\ UNCHANGED <<fresh, previous>>
         \/ proc = "Compacting" /\ fresh' = <<Partial>> /\ UNCHANGED <<primary, previous>>
    BY DEF kill
<1>3. /\ LogInOrder' /\ LogStep /\ OnlyMarkersBuried'
      /\ primary' \in Seq(Record) \cup {Nil}
      /\ primary' = Nil => primary = Nil /\ fresh' = fresh
    <2>1. CASE UNCHANGED files
        BY <1>1, <1>2, <2>1, DamageUnread DEF files
    <2>2. CASE is_open /\ primary' = Append(primary, Partial) /\ UNCHANGED <<fresh, previous>>
        <3>1. primary # Nil
            BY <1>1, <2>2 DEF Missing
        <3> QED
            BY <1>1, <1>2, <2>2, <3>1, DamageUnread
    <2>3. CASE proc = "Compacting" /\ fresh' = <<Partial>> /\ UNCHANGED <<primary, previous>>
        <3>1. primary # Nil
            BY <1>1, <2>3 DEF Missing
        <3>2. Effective' = Effective
            BY <2>3, <3>1 DEF Effective
        <3> QED
            BY <1>1, <1>2, <2>3, <3>1, <3>2, SameFile DEF OnlyMarkersBuried, TypeOK
    <2> QED
        BY <1>2, <2>1, <2>2, <2>3
<1>4. TypeOK'
    BY <1>1, <1>2, <1>3 DEF TypeOK, Proc
<1>5. Missing' /\ InStep' /\ RefusedOnlyBuriedOrFull'
    BY <1>1, <1>2, <1>3 DEF Missing, InStep, RefusedOnlyBuriedOrFull
<1> QED
    BY <1>1, <1>2, <1>3, <1>4, <1>5, AckKept DEF SInv

\* The next start settles what a compaction left behind.
LEMMA SettleInv ==
    ASSUME SInv, settle_compaction_artifacts
    PROVE  SInv' /\ LogStep
<1>1. /\ TypeOK /\ LogInOrder /\ Missing /\ OnlyMarkersBuried /\ AcknowledgedSurvives
    BY DEF SInv
<1>2. /\ primary' = IF primary # Nil THEN primary ELSE IF fresh # Nil THEN fresh ELSE previous
      /\ proc' = "Settled"
      /\ UNCHANGED <<is_open, record_count, durability_failed, applied, current, acked>>
    BY DEF settle_compaction_artifacts
<1>3. primary = Nil => fresh = <<Snapshot(applied)>> /\ fresh # Nil /\ Buried(fresh) = {}
    BY <1>1, SnapshotHolds DEF Missing
<1>4. primary' = Effective
    BY <1>2, <1>3 DEF Effective
<1>5. primary' \in Seq(Record) /\ primary' # Nil
    BY <1>1, <1>4, StoreAssumption DEF LogInOrder
<1>6. Effective' = Effective
    BY <1>4, <1>5 DEF Effective
<1>7. LogInOrder' /\ LogStep
    BY <1>1, <1>2, <1>6, SameFile
<1>8. OnlyMarkersBuried'
    BY <1>1, <1>2, <1>3 DEF OnlyMarkersBuried
<1>9. TypeOK'
    BY <1>1, <1>2, <1>5 DEF TypeOK, Proc
<1>10. Missing' /\ InStep' /\ RefusedOnlyBuriedOrFull'
    BY <1>2, <1>5 DEF Missing, InStep, RefusedOnlyBuriedOrFull
<1> QED
    BY <1>1, <1>2, <1>7, <1>8, <1>9, <1>10, AckKept DEF SInv

\* open refuses a log.
LEMMA OpenCorruptInv ==
    ASSUME SInv, open_corrupt
    PROVE  SInv' /\ LogStep
<1>1. /\ TypeOK /\ LogInOrder /\ Missing /\ OnlyMarkersBuried /\ AcknowledgedSurvives
    BY DEF SInv
<1>2. /\ primary # Nil /\ MayBeCorrupt(primary) /\ proc' = "Refused"
      /\ UNCHANGED <<files, is_open, record_count, durability_failed, applied, current, acked>>
    BY DEF open_corrupt
<1>3. OnDisk = Readable(primary)
    BY <1>1, <1>2, PrimaryIsEffective DEF OnDisk
<1>4. Buried(primary) # {}
    BY <1>1, <1>2, <1>3 DEF MayBeCorrupt, LogInOrder, InOrder
<1>5. \E k \in Buried(primary) : primary[k].type = "CleanShutdown"
    BY <1>1, <1>2, <1>4 DEF OnlyMarkersBuried
<1>6. UNCHANGED <<primary, fresh, previous>>
    BY <1>2 DEF files
<1>7. Effective' = Effective
    BY <1>6 DEF Effective
<1>8. LogInOrder' /\ LogStep
    BY <1>1, <1>2, <1>7, SameFile
<1>9. OnlyMarkersBuried' /\ RefusedOnlyBuriedOrFull'
    BY <1>1, <1>2, <1>5, <1>6 DEF OnlyMarkersBuried, RefusedOnlyBuriedOrFull
<1>10. TypeOK'
    BY <1>1, <1>2, <1>6 DEF TypeOK, Proc
<1>11. Missing' /\ InStep'
    BY <1>2, <1>6 DEF Missing, InStep
<1> QED
    BY <1>1, <1>2, <1>8, <1>9, <1>10, <1>11, AckKept DEF SInv

\* open takes what can be read.
LEMMA OpenInv ==
    ASSUME SInv, open
    PROVE  SInv' /\ LogStep
<1>1. /\ TypeOK /\ LogInOrder /\ Missing /\ OnlyMarkersBuried /\ AcknowledgedSurvives
      /\ proc = "Settled" /\ current \in Nat
    BY StoreAssumption DEF SInv, open, TypeOK
<1>2. primary # Nil
    BY <1>1 DEF Missing
<1>3. primary \in Seq(Record) /\ OnDisk = Readable(primary)
    BY <1>1, <1>2, PrimaryIsEffective DEF OnDisk
<1>4. OnDisk \in Seq(Record) /\ Damage(OnDisk) = {} /\ Readable(OnDisk) = OnDisk
    BY <1>3, ReadableClean
<1>5. /\ primary' = OnDisk /\ record_count' = Len(OnDisk)
      /\ applied' = Completed(OnDisk) \cup {<<i, "aborted">> : i \in OpenIntents(OnDisk)}
      /\ proc' = IF OpenIntents(OnDisk) = {} THEN "Serving" ELSE "Aborting"
      /\ is_open' = TRUE /\ durability_failed' = FALSE
      /\ UNCHANGED <<fresh, previous, current, acked>>
    BY <1>2, <1>3 DEF open
<1>6. primary' # Nil /\ Effective' = primary'
    <2>1. primary' # Nil
        BY <1>4, <1>5, StoreAssumption
    <2> QED
        BY <2>1 DEF Effective
<1>7. OnDisk' = OnDisk
    BY <1>4, <1>5, <1>6 DEF OnDisk
<1>8. LogInOrder' /\ LogStep
    BY <1>1, <1>4, <1>5, <1>6, <1>7 DEF LogInOrder, LogStep
<1>9. Buried(primary') = {}
    BY <1>4, <1>5, ReadableClean
<1>10. applied' \in SUBSET (Nat \X Outcomes)
    <2>1. Completed(OnDisk) \in SUBSET (Nat \X Outcomes) /\ OpenIntents(OnDisk) \subseteq {current}
        BY <1>1 DEF LogInOrder, InOrder
    <2> QED
        BY <1>1, <1>5, <2>1 DEF Outcomes
<1>11. TypeOK'
    <2>1. record_count' \in Nat
        BY <1>4, <1>5
    <2>2. proc' \in Proc
        BY <1>5 DEF Proc
    <2>3. is_open' \in BOOLEAN /\ durability_failed' \in BOOLEAN
        BY <1>5, Zenon
    <2> QED
        BY <1>1, <1>4, <1>5, <1>10, <2>1, <2>2, <2>3 DEF TypeOK
<1>12. InStep'
    <2>1. WellFormed(OnDisk)
        BY <1>1 DEF LogInOrder, InOrder
    <2>2. CASE OpenIntents(OnDisk) = {}
        <3>1. applied' = Completed(OnDisk) /\ proc' = "Serving"
            BY <1>5, <2>2
        <3>2. Holds(Effective', applied', {})
            BY <1>4, <1>5, <1>6, <2>1, <2>2, <3>1 DEF Holds
        <3> QED
            BY <3>1, <3>2 DEF InStep
    <2>3. CASE OpenIntents(OnDisk) # {}
        <3>1. OpenIntents(OnDisk) = {current}
            BY <1>1, <2>3 DEF LogInOrder, InOrder
        <3>2. /\ applied' = Completed(primary') \cup {<<current', "aborted">>}
              /\ proc' = "Aborting" /\ record_count' = Len(primary')
            BY <1>5, <3>1
        <3>3. Holds(primary', Completed(primary'), {current'})
            BY <1>4, <1>5, <2>1, <3>1 DEF Holds
        <3> QED
            BY <3>2, <3>3 DEF InStep
    <2> QED
        BY <2>2, <2>3
<1>13. Missing' /\ OnlyMarkersBuried' /\ RefusedOnlyBuriedOrFull'
    BY <1>5, <1>6, <1>9 DEF Missing, OnlyMarkersBuried, RefusedOnlyBuriedOrFull
<1> QED
    BY <1>1, <1>5, <1>8, <1>11, <1>12, <1>13, AckKept DEF SInv

\* In the beginning the log is empty.
LEMMA SInvInit == Init => SInv
<1> SUFFICES ASSUME Init PROVE SInv
    OBVIOUS
<1>1. Holds(<<>>, {}, {})
    BY EmptyLog
<1>2. <<>> \in Seq(Record)
    OBVIOUS
<1>3. primary = <<>> /\ primary # Nil /\ Effective = <<>>
    BY <1>2, StoreAssumption DEF Init, Effective
<1>4. TypeOK
    <2>1. current \in 0 .. MaxIntents /\ record_count \in Nat
        BY StoreAssumption DEF Init
    <2>2. proc \in Proc /\ is_open \in BOOLEAN /\ durability_failed \in BOOLEAN
        BY DEF Init, Proc
    <2> QED
        BY <1>2, <1>3, <2>1, <2>2 DEF Init, TypeOK
<1>5. /\ OnDisk = <<>> /\ Completed(OnDisk) = {} /\ OpenIntents(OnDisk) = {}
      /\ WellFormed(OnDisk)
    BY <1>1, <1>3, HeldLog
<1>6. LogInOrder
    BY <1>2, <1>3, <1>5 DEF LogInOrder, InOrder
<1>7. Missing /\ InStep
    BY <1>1, <1>3 DEF Init, Missing, InStep
<1>8. Buried(primary) = {}
    BY <1>1, <1>3, ReadableClean DEF Holds
<1>9. OnlyMarkersBuried /\ AcknowledgedSurvives /\ RefusedOnlyBuriedOrFull
    BY <1>8 DEF Init, OnlyMarkersBuried, AcknowledgedSurvives, RefusedOnlyBuriedOrFull
<1> QED
    BY <1>4, <1>6, <1>7, <1>9 DEF SInv

\* Every step keeps the invariant and is a step of the log that the daemon relies on.
LEMMA SInvNext == SInv /\ [Next]_vars => SInv' /\ LogStep
<1> SUFFICES ASSUME SInv, [Next]_vars PROVE SInv' /\ LogStep
    OBVIOUS
<1>1. CASE append_intent
    BY <1>1, AppendIntentInv
<1>2. CASE append_commit
    BY <1>2, AppendCommitInv
<1>3. CASE write_fresh
    BY <1>3, WriteFreshInv
<1>4. CASE move_aside
    BY <1>4, MoveAsideInv
<1>5. CASE promote
    BY <1>5, PromoteInv
<1>6. CASE finish_compaction
    BY <1>6, FinishCompactionInv
<1>7. CASE stop
    BY <1>7, StopInv
<1>8. CASE kill
    BY <1>8, KillInv
<1>9. CASE settle_compaction_artifacts
    BY <1>9, SettleInv
<1>10. CASE open_corrupt
    BY <1>10, OpenCorruptInv
<1>11. CASE open
    BY <1>11, OpenInv
<1>12. CASE append_abort
    BY <1>12, AppendAbortInv
<1>13. CASE UNCHANGED vars
    <2>1. UNCHANGED <<primary, fresh, previous, proc, is_open, record_count,
                      durability_failed, applied, current, acked>>
        BY <1>13 DEF vars
    <2>2. Effective' = Effective
        BY <2>1 DEF Effective
    <2>3. OnDisk' = OnDisk /\ LogInOrder' /\ LogStep
        BY <2>1, <2>2, SameFile DEF SInv
    <2>4. TypeOK' /\ Missing' /\ OnlyMarkersBuried'
        BY <2>1 DEF SInv, TypeOK, Missing, OnlyMarkersBuried
    <2>5. InStep'
        BY <2>1, <2>2 DEF SInv, InStep
    <2>6. AcknowledgedSurvives' /\ RefusedOnlyBuriedOrFull'
        BY <2>1, <2>3 DEF SInv, AcknowledgedSurvives, RefusedOnlyBuriedOrFull
    <2> QED
        BY <2>3, <2>4, <2>5, <2>6 DEF SInv
<1> QED
    BY <1>1, <1>2, <1>3, <1>4, <1>5, <1>6, <1>7, <1>8, <1>9, <1>10, <1>11, <1>12, <1>13 DEF Next

\* The invariant holds in every reachable state.
LEMMA SInvAlways == Spec => []SInv
<1>1. SInv /\ [Next]_vars => SInv'
    BY SInvNext
<1> QED
    BY <1>1, SInvInit, PTL DEF Spec

------------------------------------------------------------------------------
(* The theorems *)

\* What a caller was told has succeeded is committed in the log that the next start
\* reads: through any kills, failed writes, compactions and repairs.
THEOREM AcknowledgedIsDurable == Spec => []AcknowledgedSurvives
<1>1. SInv => AcknowledgedSurvives
    BY DEF SInv
<1> QED
    BY <1>1, SInvAlways, PTL

\* While the daemon accepts requests, its tables hold what the log says.
THEOREM TablesMatchLog == Spec => []AppliedIsLogged
<1>1. SInv => AppliedIsLogged
    BY HeldLog DEF SInv, InStep, AppliedIsLogged
<1> QED
    BY <1>1, SInvAlways, PTL

\* open refuses only a log with a shutdown marker behind damage, or one without
\* room for the abort record of an open intent.
THEOREM OpensUnlessBuriedOrFull == Spec => []RefusedOnlyBuriedOrFull
<1>1. SInv => RefusedOnlyBuriedOrFull
    BY DEF SInv
<1> QED
    BY <1>1, SInvAlways, PTL

\* A step of the files is a step of the abstract log, or changes nothing in it.
LEMMA StepIsLogStep ==
    ASSUME SInv, LogStep
    PROVE  [Log!Next]_<<Completed(OnDisk), IF OpenIntents(OnDisk) = {} THEN 0
                                           ELSE CHOOSE i \in OpenIntents(OnDisk) : TRUE>>
<1> DEFINE C == Completed(OnDisk)
           O == OpenIntents(OnDisk)
           D == Completed(OnDisk')
           P == OpenIntents(OnDisk')
           first(S) == IF S = {} THEN 0 ELSE CHOOSE i \in S : TRUE
<1>1. \A i : first({i}) = i
    OBVIOUS
<1>2. first({}) = 0
    OBVIOUS
<1>3. CASE D = C /\ P = O
    BY <1>3
<1>4. CASE /\ O = {} /\ P = {current'} /\ D = C /\ current' \in 1 .. MaxIntents
           /\ \A o \in Outcomes : <<current', o>> \notin C
    <2>1. first(O) = 0 /\ first(P) = current'
        BY <1>1, <1>2, <1>4
    <2> QED
        BY <1>4, <2>1 DEF Log!Next, Log!Begin, Outcomes
<1>5. CASE /\ O = {current} /\ P = {} /\ current > 0
           /\ \E o \in Outcomes : D = C \cup {<<current, o>>}
    <2>1. first(O) = current /\ first(P) = 0 /\ current # 0
        BY <1>1, <1>2, <1>5
    <2> QED
        BY <1>5, <2>1 DEF Log!Next, Log!Complete, Outcomes
<1> QED
    BY <1>3, <1>4, <1>5 DEF LogStep

\* The files, read as the next start would read them, implement the log the daemon
\* relies on: no outcome is lost or given twice, and one intent at a time is open.
THEOREM StoreImplementsDurableLog == Spec => ImplementsDurableLog
<1>1. Init => Log!Init
    <2> SUFFICES ASSUME Init PROVE Log!Init
        OBVIOUS
    <2>1. Effective = <<>>
        BY DEF Init, Effective
    <2>2. Completed(OnDisk) = {} /\ OpenIntents(OnDisk) = {}
        BY <2>1, EmptyLog, HeldLog
    <2> QED
        BY <2>2 DEF Log!Init
<1>2. SInv /\ [Next]_vars =>
        [Log!Next]_<<Completed(OnDisk), IF OpenIntents(OnDisk) = {} THEN 0
                                        ELSE CHOOSE i \in OpenIntents(OnDisk) : TRUE>>
    BY SInvNext, StepIsLogStep
<1> QED
    BY <1>1, <1>2, SInvAlways, PTL DEF Spec, ImplementsDurableLog, Log!Spec

==============================================================================
