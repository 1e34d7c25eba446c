# Inter-Site Fabric: TLA+ specifications and proofs

Inter-Site Fabric is a capacity authority for the network paths between sites. One daemon
(`isfd`) keeps, for every path, how much capacity was attested, how much is unavailable, and
which site was granted how much of it, on which terms. Site agents (`isfsited`) register their
site, ask for grants and send heartbeats; operators (`isfctl`) attest capacity, install policies,
declare outages and settle what is uncertain. Every change is made durable in a log before its
caller is told of success.

This directory models that system in TLA+, checks it with TLC on small instances, and proves
its safety properties, with TLAPS, for every instance. Definitions are named after the
functions, fields and constants they stand for; `PROJECT.json` maps each of them to its lines.
Paths such as `authority.cpp:582` below are relative to the repository's `src/` or `include/isf/`.

Contents: [the system](#the-system), [the modules](#the-modules), [the runs](#the-runs),
[fairness](#fairness), [the proofs](#the-proofs), [disagreements](#disagreements-with-the-documentation),
[what is left out](#what-is-not-modelled), [plan](#plan).

## The system

### Components, state and operations

| component | state | operations |
|---|---|---|
| authority (`authority.cpp`, `authority_plan.cpp`) | epoch, policy; tables of sites, paths, domains, attestations, oversubscription authorities, grants, verifications | `plan_*` computes post-images of the records a request changes, or refuses; `apply` installs them; `verify_invariants` checks the result |
| lifecycle (`lifecycle.cpp`) | none | states of sites, paths and grants, transition table, predicates |
| capacity (`capacity.cpp`, `checked.hpp`) | none | saturating fixed-width arithmetic, fractions in basis points |
| policy (`policy.cpp`) | the document, held by the authority | validation |
| daemon (`daemon.cpp`) | the authority behind `state_mutex_`, the store, `durability_failed_`, `commit_mutex_`, ticker thread | dispatch, `commit` (intent, apply, verify, commit record), `start` (replay), `stop` |
| store (`store.cpp`) | a log file, with `.new` and `.old` beside it during compaction | append, flush, compaction, open with validation and repair |
| server (`server.cpp`) | accept thread, a worker and a record per connection | accept, reject, serve, reap, ordered stop |
| client (`client.cpp`) | socket, decoder, sequence number | handshake, one round trip per call |
| framing (`protocol.cpp`) | the decoder's buffer, cursor, failed flag | encode, push, next |
| site agent (`apps/isfsited`) | epoch, incarnation and generation read once, its grant | register, reconcile, propose ... acknowledge, heartbeats |
| operator tool (`apps/isfctl`) | what one command read: the epoch, the clock, a path or site, the policy | one command per process: connect, read, one mutating call |
| codecs (`wire.cpp`, `model.cpp`, `protocol.cpp`) | a cursor | an encoder and a decoder for every message, record and log payload; UTF-8 validation |
| sockets (`net.cpp`), identities, digests, logging | nothing that outlives a call | system calls, hashing, formatting |

### How they interact

A request travels from a client, in frames over a byte stream, to the worker of its connection,
which hands it to the daemon. The daemon takes `commit_mutex_`, has the authority plan the change,
writes an intent record, applies the change under `state_mutex_`, verifies the tables, writes a
commit record and possibly compacts, then answers. The ticker goes the same way through `tick_once`
and `plan_tick`. On start the daemon replays the log; an intent without a commit record is applied
conservatively: whatever would give capacity back is left out and the grant is marked ambiguous.

### What is hard about it

- *Bindings go stale.* A grant is bound to an epoch, an incarnation of its holder and the
  generations of policy, path and capacity. Five kinds of request move one of these on, at any
  point between proposal and retirement of a grant.
- *Capacity is accounted for by class, state, floor, outage and ceiling*, and every event that
  moves one of them rebalances: it keeps what fits and withdraws the newest of what does not.
- *Withdrawn is not released.* Losing an authorisation must not free what may still be in use;
  only retirement, expiry, cancellation and an operator's reconciliation do that.
- *Crashes between the steps of a commit*, failed writes whose effect is unknown, and a compaction
  of three renames.
- *Agents that do not know they were replaced*, with values they read once at their start.
- *Threads*: workers that run before they are registered, shutdown against peers that keep sending
  or do not read, a commit under way when the store is to be closed.
- *Late answers, repeated frames, retries* on the same and on new connections; frames in pieces.
- *Operators who read, then write.* A command builds its request from what it read before, a whole
  policy document in one case, and nothing holds the authority still in between.
- *Some sixty encoders and decoders* written by hand, in pairs that have to agree on order, widths and
  admitted values; what an encoder writes to the log has to be readable at every later start.
- *Two computations of one figure*: the ledger that is reported and the check that decides.

`PROJECT.json` lists 40 such hazards with the line where each bites and the properties that cover
it, or why none does yet.

## The modules

```
Lifecycle   Capacity                           DurableLog             Text
      \      /                                     :                 /    \
      Authority                                  Store         TextField  Wire
      /  |  |  \                            (implements it)       |        |
Ledger Agent Operator Daemon                                      |     Messages
  |      |      |       |      Server  Session  Framing           |     Exchange
MCLedger MCAgent MCOperator MCDaemon   MCSession  \              /         |
                                                    MCReceiver         MCExchange
```

The theorems are in modules of their own, which extend the modules they are about:

```
       AuthorityProofs                 StoreProofs    ServerProofs   SessionProofs
             |
Ledger - AllocationProofs              Framing - ReceiverProofs - TextField
          /          \
Daemon - DaemonProofs  ClientProofs - Agent, Operator
```

**Lifecycle** has the state sets, the transition table `kGrantTransitions` and the predicates on it.

**Capacity** has `saturating_add` and `fraction_bps`, the latter with the split into whole and
remaining parts that the code uses to avoid a 64-bit overflow, for any width (`kAmountMax`) and scale.

**Authority** is the core. A variable per table of the class `Authority`; an action per `plan_*` method
followed by `apply`, since the daemon runs both under one mutex. An action's guard is the
conjunction of the checks before the planner returns a mutation, and a refused request is no step;
a planner's early exit to a rebalance, downgrade or rebind is in the action. `rebalance_path` is
`Rebalanced` with the choice of what is shed in `Shed`; the ledger is `committed`, `reserved`,
`protected_held` and `Ceiling`. `verify_invariants` is the conjunction of the named parts the code
checks. With `verify_after_mutation` the authority stops after a failed check, as the daemon does;
the runs on the authority alone set it to `FALSE`, so that the planners have to be right without
that net. Grants are named by their request: the code keeps one grant per request and deletes none.

**Ledger** extends it with what the authority reports about a path: `LedgerOf` has the figures,
`ledger` the conditions under which the code returns an error instead, `verify_closure` among them.

**Daemon** extends the authority with the commit pipeline. The disk is what replaying it gives: `durable` for
the complete part, `pending` for a trailing intent, kept in both readings, as completed and as
ambiguous. The authority's variables are the tables as planned, and `memory` is what readers see, which lags behind
them. `RecordIntent` takes any request of the authority and has its intent in the log; `Apply` puts it in memory, unless the
record could not be written or flushed (`IntentRecordFails`); then come the check and the commit record, each of which may
fail. The process may stop in every state between; `Restart` replays and refuses tables that fail the check.

**Agent** extends the authority with runs of `isfsited`, one action per call in the order of its
`main`, each of which succeeds as the authority's action or fails and ends the run. Operators, the
ticker and time act in between.

**Operator** extends the authority with commands of `isfctl`, several at once. A command connects, which
tells it the epoch, reads the clock once, reads what its defaults need (`list_paths`, `list_sites`,
`status`, one action each, so that anything may happen in between), and makes its call, which is the
authority's action with the arguments `main` computes. Every command that changes state is there.

**Store** has the three files as sequences of records with two kinds of damage, `Partial` and
`Gap`; every write may fail and leave nothing, a part, a gap or the whole record; compaction is
one action per file operation; `settle_compaction_artifacts` and `open` decide what is promoted,
cut, refused or closed by an abort record.

**DurableLog** is the abstraction the daemon relies on: at most one intent is open, each intent
gets at most one outcome, and no outcome is ever taken back. `Store` is shown to implement it under
the mapping that reads the files as the next start would.

**Server** has the accept thread, the workers, the ticker and the main thread, each cut where
another thread can see the difference, with `commit_mutex_`, the separate count of active
connections and the peers in the listener's backlog.

**Session** has client and workers exchanging frames over two queues per connection, with
sequence numbers, request identities, time-outs, late replies, repeated frames and new connections.
A call proposes a grant, the request whose repetition does harm. Of the frame bounds it has what
exceeding them leads to: `send_response` sends an error in place of a reply above the server's bound, after the
request was executed, and a reply above the client's makes its decoder fail for good.

**Framing** has the bytes below: frames written whole, malformed, too large or cut off by a failed
send; chunks of any size; the decoder with its buffer, cursor compaction and failed state.

**Text** has strings: how the Writer writes one, with its length in front, and what `Reader::str` takes for one;
`is_valid_utf8` is byte for byte. It also has the Unicode standard's table of well-formed sequences.
**TextField** has one string on its way, from a peer that may put any bytes there and whose message may end
early.

**Wire** has the rest of the Writer and the Reader. An encoder and a decoder are sequences of fields, each with a
name, a kind and what is admitted, so that `Encode` and `Decode` are written once; integers,
identities and digests are their bytes, lengths, counts and ordinals are numbers, since the code
compares those.

**Messages** has the encoder and the decoder of every record, message and log payload as such
sequences, translated separately from the two functions, and which of them meet: what the client
sends with what the daemon reads it, replies, envelopes, log records, and images with `apply`.

**Exchange** has one message on its way: encoded, possibly cut short, extended or changed in one byte,
or written by a peer that cuts no text, decoded, and, if it carries a reason or the source of an attestation,
planned into an image that `apply` decodes in turn. `encode_string_bounded` gets longer texts than it
keeps wherever the code passes it any.

The modules `MC...` give the constants of the others their values and start the daemon, the
agents and the operators from tables in which sites, path and capacity exist already. In `capacity`, `overbooking`
and `binding` the authority starts empty.

Definitions named `X_Something` are faulty variants of `X`, one for every property: replacing `X`
by its variant violates the property, which shows that the property depends on the code it is about.

## The runs

Deadlock is not checked: every modelled part may come to rest, because it stopped, has nothing to do,
or has used up the requests the bounds allow; that it rests only where it should is what the
liveness properties say. Times are with two workers and
coverage statistics, which take about half of them.

| run | states | what is checked |
|---|---|---|
| `capacity` | 360 k, 110 s | `NoOversubscription`, `FloorKeptForProtected`, `LedgerErrorBounded`, `UnavailableWithinUsable`, `ShedNewestFirst` |
| `overbooking` | 330 k, 85 s | `NoOversubscription`, `SharedRiskBounded` |
| `binding` | 600 k, 135 s | `TypeOK`, `AuthorisedBindingCurrent`, `TransitionsLegal`, `InvalidationNeverReleases` |
| `agent` | 260 k, 95 s | `SupersededChangesNothing`, `LeaseRefreshedByHolder`, `SupersededEnds`, `OrphanedLosesAuthority` |
| `restart` | 670 k, 55 s | `DurableMatchesMemory`, `LostSiteIdle`, `RestartNeverReleases`, `RestartsWhenSound`, `AmbiguousNeverAdvances` |
| `store` | 37 k, 14 s | `AcknowledgedSurvives`, `AppliedIsLogged`, `RefusedOnlyBuriedOrFull`, `ImplementsDurableLog` |
| `server` | 37 k, 9 s | `WorkersBounded`, `NothingRunsAfterStop`, `RejectedOnlyWhenFull`, `ShutdownCompletes`, `BacklogDrains` |
| `session` | 7.1 M, 80 s | `OneGrantPerProposal`, `OutcomesTrue` |
| `receiver` | 1.8 M, 12 s | `DeliveredIsPrefix`, `RefusedAtFirstFault`, `NothingLeftBehind`, `AcceptsText` |
| `operators` | 1.5 M, 125 s | `NoLostPolicyUpdate`, `ActsOnWhatItRead` |
| `messages` | 110 k, 70 s | `SurvivesRoundTrip`, `OneEncoding`, `UnreadableOnlyIfCut` |
| `v_failstop_unrecoverable` | | `Recoverable`, which is violated, see [below](#disagreements-with-the-documentation) |

**capacity.** Two grants of amounts 1 or 2 and either class on one path of usable capacity 2 or 4,
with two capacity generations, two path states and a policy that raises the protected floor. An
outage or a smaller attestation lowers it again, since the floor is cut to what is left.
The amounts fill the path exactly, overfill it by one, and fit only without the floor, so that each
term of the sum decides some reservation. Two grants are the fewest that compete, and the fewest
among which the newest is shed first. In every state the ledger is compared with what a reservation
would be granted; they differ by protected grants at most (see the [observations](#observations)).
Reconciliation to `ACTIVE`, which no check of capacity precedes, is kept out of this run and of
`overbooking`; what it leads to is the run that fails.

**overbooking.** Two paths in one risk domain, each of usable capacity 2, an authority to
overbook by 100 % that expires, and a policy that lowers what may be overbooked to 50 %; the
domain's concentration limit is 75 %. Ceiling and concentration bind at different sums. Operations
come at two times, before and at the expiry.

**binding.** One grant, and two values for everything it is bound to: epoch, incarnation of its
holder, policy, path and capacity generation; its site and its path go down. Bindings concern each
grant alone, so that one grant is enough; that others cannot interfere is part of what is proved.
The operations name the actor and generations, current or not, or nothing.

**agent.** Two runs of the agent of one site, each ending at any point, with a lease timeout of 100
and a clock of 1, 150 and 500: within the lease, after it, and after three times it. An epoch bump
and fencing arrive anywhere. Agents call up to time 150 (`Horizon`), so that
what remains afterwards is theirs no longer.

**restart.** Two requests for all of a path's capacity, expiring grants, one policy change
and reconciliations, with death or failure at every stage of every commit, any number
of times: before or after the intent is in the log, before or after it is in memory. Amounts that exclude each other make a release that is replayed wrongly visible. What a restart
could not decide stays marked, and `AmbiguousNeverAdvances` follows the mark through later operations.

**store.** Four intents, compaction from four records on, a limit of six records, every outcome of a
failed write, kills in every state, one shutdown marker. Four intents are enough for a compaction
between a completed and an open one, and six records for the log to fill up when a compaction
failed. `RefusedOnlyBuriedOrFull` names the two ways in which a start is refused for good.

**server.** Three connections, `max_connections` 2, a backlog of 2 and an accept loop that gives up
after its second error instead of its 65th.

**session.** Two proposals, two connections, three calls and one repeated frame: enough for an
answer to the first call to arrive during the second and for a retry on a new connection to
overtake the first attempt. Every reply may be above either bound, so that a call is told `LIMIT_EXCEEDED`
of a grant that exists, and its retry `DUPLICATE`.

**receiver.** Headers of 2 bytes, payloads of 0, 2 (the decoder's bound), 3 and 4 bytes, the sender's
own bound one more than the decoder's, chunks of up to 4 bytes, and three frames. Chunks may hold
two small frames or the end of one and the beginning of the next. Of strings, every one of up to four
of 17 bytes, those next to every boundary of the definition of UTF-8, and one of five bytes, which is
above the limit; each arrives whole or cut at every byte. Frames and strings share no state and are not
interleaved: a behaviour has steps of `Framing` or of `TextField`.

**operators.** Two operators, each with one command at a time and any number of commands in turn, in
four shifts: policies, attestations, oversubscription and path registrations against each other;
grant commands against epoch bumps and new runs of the site; what authorises a grant against
overbooking, epoch bumps and the loss of the site; acknowledgements and verdicts against the epoch and
the path. A shift bounds what is tried together, since all commands at once are out of reach; it
is a variable of `MCOperator` that no step changes. Generations and epochs are counted up to 3, which
leaves room for two operators that count from the same reading and a third value given explicitly.

**messages.** All 52 messages, payloads and images. Strings are empty or of the largest length (4),
longer than a reason may be (3); lists have no element or one; ordinals, booleans and bounded numbers
have their smallest or largest written value; all other fields differ from each other, so that fields
that are swapped or of the wrong width show. Each encoding arrives whole, cut at every byte, with a byte
more, and with every byte replaced by 127, which no boolean, ordinal or count
admits; messages with a text that the encoder may cut also arrive uncut, as another peer may
write them. Requests that carry a reason, and attestations and their images, also carry a text with a
character that the cut falls into and one with a character that it spares.

`SYMMETRY` permutes requests, and where nothing names one of them, sites and incarnations; it is used
only with invariants and action properties. In `operators` it permutes the operators, in `session` the proposals.

## Fairness

Safety properties assume none. Two modules have liveness properties.

- **Server**: weak fairness of the accept thread, every worker, the ticker and the main thread.
  The code justifies it: each blocking call in their loops has a time-out (`accept`, `recv_some` and
  `send_all` poll with bounds), commits end, and a worker rechecks `stopping_` after each frame.
  Nothing is assumed of peers, who may stay silent or never read, or of signals. So
  `ShutdownCompletes` depends on no peer, and `BacklogDrains` on no other thread than the acceptor.
  One thing is assumed of `commit_mutex_`: that it is fair. In `handle` a worker chooses late whether its request takes the mutex, so that
  it never waits for ever, while the ticker, which is stopped after the workers, commits again and again. The ticker sleeps between its
  commits, which leaves the mutex free for a waiting worker, but the standard does not promise that the worker gets it.
- **Agent**: weak fairness of the ticker (`Daemon::start` starts it with an interval), of time up to the
  last instant of the model, and of a refused heartbeat: an agent in its loop calls every few
  milliseconds, so that a refusal reaches it. Nothing makes an agent succeed, go on or end.

## The proofs

`tlapm` checks the eight proof modules to the last leaf. A theorem `Spec => []P` states, for every value
of the constants, the property `P` that a run checks on one instance.

| module | theorem | property | holds |
|---|---|---|---|
| AuthorityProofs | `TypeCorrect` | `TypeOK` | always |
| | `BindingsCurrent` | `AuthorisedBindingCurrent` | always |
| | `OutageBounded` | `UnavailableWithinUsable` | always |
| | `LostSitesIdle` | `LostSiteIdle` | always |
| | `OnlyLegalTransitions` | `TransitionsLegal` | in every step |
| | `InvalidationKeepsCapacity` | `InvalidationNeverReleases` | in every step |
| AllocationProofs | `FractionExact` | (a fact about `fraction_bps`) | for all arguments |
| | `NeverOversubscribed` | `NoOversubscription` | while steps are `Careful` |
| | `FloorKept` | `FloorKeptForProtected` | while steps are `Careful` |
| | `RiskBounded` | `SharedRiskBounded` | while steps are `Steady` |
| | `LedgerWithinBound` | `LedgerErrorBounded` | whenever `TotalsFit` |
| | `NewestShedFirst` | `ShedNewestFirst` | in every step |
| DaemonProofs | `DiskMatchesMemory` | `DurableMatchesMemory` | always |
| | `RestartKeepsCapacity` | `RestartNeverReleases` | in every step |
| | `LostSitesIdleAfterRestart` | `LostSiteIdle` | always |
| | `BindingsCurrentAfterRestart` | `AuthorisedBindingCurrent` | always |
| | `AmbiguousNeedsReconciliation` | `AmbiguousNeverAdvances` | if no reason is "reconcile" |
| | `SoundTablesRestart` | `RestartsWhenSound` | with checks on, and no policy that requires verification |
| ClientProofs | `BindingsCurrentWithAgents` | `AuthorisedBindingCurrent` | always |
| | `SupersededIsFenced` | `SupersededChangesNothing` | in every step |
| | `OnlyTheHolderRefreshes` | `LeaseRefreshedByHolder` | in every step |
| | `PolicyUpdatesKept` | `NoLostPolicyUpdate` | in every step |
| | `CommandsActOnWhatTheyRead` | `ActsOnWhatItRead` | in every step |
| StoreProofs | `AcknowledgedIsDurable` | `AcknowledgedSurvives` | always |
| | `TablesMatchLog` | `AppliedIsLogged` | always |
| | `OpensUnlessBuriedOrFull` | `RefusedOnlyBuriedOrFull` | always |
| | `StoreImplementsDurableLog` | `ImplementsDurableLog` | always |
| ServerProofs | `WorkersNeverExceedBound` | `WorkersBounded` | always |
| | `StopIsFinal` | `NothingRunsAfterStop` | always |
| | `TurnedAwayOnlyWhenFull` | `RejectedOnlyWhenFull` | in every step |
| SessionProofs | `ProposalGrantedOnce` | `OneGrantPerProposal` | always |
| | `ReturnsTrue` | `OutcomesTrue` | always |
| ReceiverProofs | `DeliversWhatWasWritten` | `DeliveredIsPrefix` | always |
| | `RefusesAtFirstFault` | `RefusedAtFirstFault` | always |
| | `LeavesNothingBehind` | `NothingLeftBehind` | always |
| | `TextAccepted` | `AcceptsText` | always |

They rest on the named assumptions of the modules, which TLC evaluates on every run: that `Nil` is
none of the identities and records it stands next to (in `Store`, no sequence of records; in `Ledger`, no
ledger; in `Daemon`, no pair of tables, `PendingAssumption`), that inputs are of their types and the arguments of a command what
the parser ensures (`Parsed` in `OperatorAssumption`), that strings are shorter than 2^31 bytes (`TextAssumption`,
`StringsAssumption`; a frame has 1 MiB), that there are finitely many requests, that `"ticker"`
is no connection (`ServerAssumption`), and that a chunk is no larger than a header with the largest frame
(`FramingAssumption`, see the [observations](#observations)). Sets of sites, paths, connections and inputs may
otherwise be of any size, finite or not, and limits may have any value.

### AuthorityProofs

The inductive invariant is

    IInv == TypeOK /\ ReferencesExist /\ AuthorisedBindingCurrent
                   /\ UnavailableWithinUsable /\ LostSiteIdle

None of the last three is inductive alone. What an operation does to a grant depends on the records
of its holder and path, which must exist (`ReferencesExist`: nothing is ever removed from a table,
and a proposal checks both) and have the fields of their types. The argument is by operation:

- *Registering a new incarnation, a new epoch*: every grant that is bound to the old one is downgraded,
  and `Downgraded` leaves no authorised state that is not proved current (`DowngradedFields`).
- *Policies, path registrations and attestations*: each grant on the path is shed or rebound to the
  new generations (`RebalancedCases`, `ReboundFields`); the proof uses nothing about *which* are shed, so
  that it does not depend on the sums.
- *Operations on one grant*: the guard of each that ends in an authorised state includes `BindingCurrent` and
  the states of site and path; the other grants are untouched (`SetGrantSafety`, `GrantStepSafety`).
- *Ticks and site states*: a site that becomes unable takes all its grants with it.

Each of these is a lemma per group of operations, once for types (`ConfigType`, `SiteType`,
`PathType`, `OversubscriptionType`, `GrantType`, `TickType`) and once for the rest (`...Safety`),
with a step per action under it.

The two action theorems follow from `IInv` and two descriptions of a step. `GrantMoves`: a request about a
grant proposes it, moves it along the table, or reconciles it. `RequestsInvalidate` and
`TickInvalidates`: any other request leaves a grant as it is, withdraws it, degrades it, or, for a
tick, lets it expire.

The lemmas are about `AnyRequest`, requests with any arguments of the right types, and `RequestIsAny` derives those of the model's
own inputs. A client computes its arguments from what it has read, so that the sets of inputs of a run do not contain them.

### AllocationProofs

`FractionExact`: for all amounts, ratios, scales and widths with `kScale * basis_points <= kAmountMax`,
`fraction_bps(value, basis_points)` is `(value * basis_points) \div kScale` over unbounded integers,
or the largest amount if that does not fit. For the code's 64 bits and scale 10 000 the condition is met by
every ratio a policy may contain. The argument splits the value into `q * kScale + r`; `SplitQuotient` shows that the
two partial results add up to the exact quotient, `WholesOverflow` and `WholesFit` that saturation
happens exactly when it should. `FractionMonotone` and `ExtensionMonotone` need no such condition: a larger ratio never
gives less.

The module has the facts about sums over finite sets that the ledger needs. The library
defines a sum by a recursion over an arbitrary order. Induction over sets is out of the provers' reach, so each fact is
shown by contradiction, from a smallest set for which it fails (`FiniteMinimal`, from the
well-foundedness of strict inclusion): such a recursion exists and is unique (`PartialSumsExist`,
`PartialSumsUnique`), any element may be taken out first (`SumTakes`), disjoint parts add up (`SumUnion`),
and a part or smaller values have no larger sum (`SumPart`, `SumMonotone`).

`NeverOversubscribed` and `FloorKept` come from one inductive invariant, `AllocInv`: `IInv`, attested figures and issued
ratios within the bounds their requests checked, and on every path (`Fits`)

    protected grants <= floor      and      general grants + floor + outage <= ceiling at time zero

over the authorised grants. `NoOversubscription` alone would not do: it adds the untaken part of the floor only, and a
protected grant may take that part later. A step preserves it in one of three ways: it authorises nothing and
moves no limit (`ShrinkStep`, `NothingNew`); it moves a limit and sheds until the new one is met (`ShedFits`, `FitsAfterShed`, which is
where `withdraw_to_fit` is shown to stop in time); or it is a reservation, whose check leaves room for
the grant it adds (`ReserveAllocated`). An outage that ends raises the floor by no more than it gives
back (`FloorFreed`).

The hypothesis `[][Careful]_vars` excludes two requests, both in the [observations](#observations), after which the
properties are false: a grant reconciled to `ACTIVE`, and an oversubscription authority that takes the place of
another under its identity. Everything else, in any order, is allowed.

`RiskBounded` has the same plan, over the paths of a domain (`RiskShared`, `SharesKept`, `ReserveShares`). Its hypothesis
`[][Steady]_vars` says which requests do not compare what a domain holds with its share: one that reconciles to `ACTIVE`, lowers the
limit, attests less or moves a path to another domain; and `ConcentrationOk` itself is skipped at a limit of 100 %, where an overbooked
path may exceed it.

`LedgerWithinBound` needs no history, only types, sizes (`SizesAlways`) and arithmetic: the
ledger and `allocatable` differ in how they count protected grants. `TotalsFit` is the part of `verify_invariants`
about overflow; without it `Authority::ledger` returns an error. `NewestShedFirst` holds after any
history as well: `Shed` takes a suffix of the grants of a class in the order of their arbitration (`ShedUpward`).

### DaemonProofs

    DInv == IInv, and the same of the tables replay gives (Sound), of each reading of a trailing intent;
            serving with no failed write, the disk matches the planned tables (Matches);
            with an intent in the log, its completed reading does;
            an ambiguous reading keeps every grant that holds capacity on disk (Keeps)

`IInv` of the planned tables is not enough, because a restart replaces them by what is on disk. `DiskMatchesMemory` adds
`MInv`, which relates them to memory: they are the same but between the intent and its application, and after a
write that failed; and what is in memory is the complete part of the log, or that with its trailing intent (`Shown`). The step that needs work
is `RecordIntent`: for every request of the authority, suppressing the releases among its changes must leave
sound tables that keep what was held, although the rest of the request (a new epoch, a lost
site) takes effect. `AmbiguousNeedsReconciliation` excludes operations whose reason is the word
"reconcile", which `check_binding` lets pass on a marked grant.

`SoundTablesRestart` needs more than `IInv` of the tables, since some parts of `verify_invariants` are not invariants (see the
[observations](#observations)): `Passes` has those parts, and

    RInv == a daemon that serves has tables that pass;
            those an open intent resolves to as ambiguous pass if the planned ones do;
            with no intent open, disk and planned tables agree

The property is about tables as planned, with an intent that is in the log applied whether or not memory had it: a daemon that
stops between the two has sound tables in memory and, possibly, an intent in its log that no start will accept.

TLC checked `RInv` on the instance of `restart` before it was proved. The work is again in `RecordIntent`. An intent that gives no
capacity back resolves to what the request made of the tables, and passes if they do (`IntentPasses`). One that does leaves policy, paths and
authorities alone, and every grant stays, is downgraded or gives its capacity back too (`ReleaseLeaves`); suppressing the releases
gives the tables from before the request, which passed, with some grants downgraded (`Settles`, `IntentSettles`), and a downgrade
disturbs no total, ceiling, floor, lease or binding (`SettledSums`, `SettledPasses`). The two hypotheses are needed. Without `verify_after_mutation`, the default, a daemon serves tables
that never passed; and replay takes away verification, so that under a policy that requires it no active grant passes.

### ClientProofs

`AgentSpec` and `OperatorSpec` are the agents and the operators over an authority that starts empty, with any other request,
with any arguments, in any of their steps. For agents there is one condition (`CallElsewhere`): nobody else registers their site or sends its
heartbeats.

*Agents*: `AgentInv` adds to `IInv` the types of what an agent remembers, and that it has a grant in the stages where it operates
on one. After its registration each call of an agent names its incarnation, and the guard of each planner but
`plan_reconcile_grant` compares it with the site's: a superseded agent's call is no step of the authority.

*Operators*: `OperatorInv` adds what a command knows, relative to what is current (`Knows`): the epoch and generations it read are not
ahead, and a policy or capacity of the same generation is the same policy or capacity. This is kept because
no request takes a generation back or changes anything under one (`Forward`, a step per operation). The
guards on generations, which compare for "newer", then suffice: a request with a number counted up from what was read is newer
only if nothing has changed since. For the oversubscription, put together from two reads, the ceiling has to exceed the plain capacity after
the step whatever was read.

### StoreProofs

    SInv == TypeOK /\ LogInOrder /\ Missing /\ InStep /\ OnlyMarkersBuried
                   /\ AcknowledgedSurvives /\ RefusedOnlyBuriedOrFull

`LogInOrder`: the readable part of every file is a well-formed log, in which only the last intent may be open.
`Missing`: the log is absent between the two renames of a compaction only, and then a complete snapshot lies
beside it. `InStep`: how tables, record count and files relate at each point of the process. `OnlyMarkersBuried`: behind
damage there is nothing but a shutdown marker. TLC checked `SInv` on the instance of `store` before it was proved.

The refinement is proved step by step: `Effective` reads the files as the next start would; each action
of the store either leaves the completed and the open intents of that reading as they are, or opens one intent, or gives the open one
its outcome (`LogStep`, `StepIsLogStep`), which are the steps of `DurableLog`.

### ServerProofs, SessionProofs, ReceiverProofs

*Server*: who owns each worker (`Owned`), what the counter counts (`Counted`), who holds `commit_mutex_` (`MutexHeld`), and the order of the
shutdown (`StoppedInOrder`). The bound on running workers counts the one that runs before it is registered.

*Session*: frames of a connection are numbered in order and every answer on its way is true of the
request with its number (`Numbered`, `FirstAnswerTrue`, `Settled`), up to where the client reads for the call that waits:
its answer, or a frame it cannot read (`Ends`). A call that returned keeps its outcome.

*Framing*: the bytes in the buffer behind the cursor and those in the stream are exactly the frames not yet delivered, from the next
one on (`Frames`), and a reader that waits has less than one frame in its buffer (`Waits`). That a chunk never overruns the buffer's bound
is where `FramingAssumption` is used.

*Strings*: `is_valid_utf8` and `WellFormed` are both recursive functions from a position to whether characters lead from there to the end.
Induction over the text is not needed: each is a scan (`IsScan`) for its own set of characters, positions with
lengths, and the two sets are the same (`SameCharacters`), so that the two functions are. That the sets are the
same is arithmetic on one to four bytes: the code computes a number and compares it, the table has ranges of bytes
(`OneByte` to `FourBytes`). `ScanExists` shows that there is such a function at all. `TextAccepted` requires acceptance of well-formed
texts only and allows the code's one hole beside them; that well-formed texts are valid (`WellFormedIsValid`) is
a scan for fewer characters (`ScanGrows`, by the last position that would contradict it). The rest is about the field: what `WriteU32` wrote is read back
(`LengthReadBack`), and a field that was cut is refused wherever it was cut (`StrReads`).

### What only TLC checks

- Liveness under fairness, which is beyond the prover: `ShutdownCompletes`, `BacklogDrains`, `SupersededEnds`,
  `OrphanedLosesAuthority`.
- `SurvivesRoundTrip`, `OneEncoding` and `UnreadableOnlyIfCut`: `Wire` encodes and decodes lists and nested bodies with recursive
  operators, about which nothing can be proved.

## Disagreements with the documentation

One run is expected to fail; TLC's trace shows what the code does.

- **`v_failstop_unrecoverable`** (`daemon.cpp:519`). When the check after a mutation fails, the intent is
  in the log. Replay applies it again and fails the same check: no restart succeeds.
  ARCHITECTURE.md:100 says mutations are refused "until it is restarted and recovered." The trace gets
  to such a mutation by `plan_reconcile_grant` (`authority_plan.cpp:1100`), which moves an eligible
  grant to `ACTIVE` after looking at its site and path, not at capacity: with another grant
  reserved on the path, the sum exceeds what is usable. README.md:90: "Capacity is never overbooked
  without explicit adjacent oversubscription authority". `RestartsWhenSound` shows the converse: if the tables with
  the trailing intent applied pass the check, the daemon comes up again, whichever step of a commit it stopped in. The same
  happens without a failed check, when the process dies after such an intent is flushed and before it is applied
  (`daemon.cpp:505`).

### Observations

Met while modelling. Each is a behaviour of the modelled code that a stronger formulation of a
property would trip over, as TLC shows when the property is so stated; none has a run of its own, and
where a property is stated more weakly because of one, its comment or this list says so.

Mutations that pass their planner and fail the check after it, and so end like the run above:

- A proposed or eligible grant keeps its policy generation when a policy is installed
  (`authority_plan.cpp:195`), though `requires_current_binding` includes both states and
  ARCHITECTURE.md:92 asks for it. `AuthorisedBindingCurrent` is about the authorised states.
- Protected grants being withdrawn still count as held, and exceed a floor that is lowered under them,
  or what an outage leaves of it (`authority.cpp:910`, ARCHITECTURE.md:91: "Protected obligations never
  exceed the policy protected floor"). `FloorKeptForProtected` counts authorised grants.
- Two proposals may name one lease (`authority_plan.cpp:700`, ARCHITECTURE.md:95: "lease identities
  are unique").
- A policy that requires verification may be installed over unverified active grants (`authority.cpp:974`).

Capacity:

- The ledger takes protected grants off the headroom of the floor, a reservation adds the whole floor to
  them (`authority.cpp:582` against 434), so that `allocatable`, "what a new grant may actually
  consume" (README.md:83), can be more than any grant gets. `LedgerErrorBounded` says by how much.
- Capacity held by a grant in withdrawal is available to new protected grants under the floor
  (`authority.cpp:582`, against `capacity.hpp:70`). `NoOversubscription` sums what is authorised, as the ledger does.
- Protected grants above the floor are shed first, and apart from the general ones, even where shedding
  a general grant would make room (`authority_plan.cpp:189`, ARCHITECTURE.md:78). `ShedNewestFirst`
  compares grants of one class.
- Issuing an oversubscription identity again with a smaller ratio leaves grants above the new ceiling
  (`authority_plan.cpp:631`, `capacity.hpp:56`); a smaller attestation can leave a domain above its concentration
  limit (`authority_plan.cpp:813`, `policy.hpp:52`). The instances of `overbooking` have one ratio and one attested size.

Restarting:

- Replay resets verification, so that a clean restart under such a policy is refused
  (`daemon.cpp:230`, TESTING.md:117). `DurableMatchesMemory` leaves verification out, and `restart` has none.
- The mark of an ambiguous grant is cleared by the next change to it followed by a restart, a mere rebinding
  included (`daemon.cpp:230`, README.md:112). `AmbiguousNeverAdvances` is about grants that keep it.
- A suppressed cancellation or expiry leaves the grant reserved or active rather than in withdrawal
  (`daemon.cpp:203`, PERSISTENCE.md:107).
- After a failed write the orderly stop still appends its clean-shutdown record behind the partial one
  (`daemon.cpp:325`); the next open finds damage that is not at the end and refuses the store, though the
  operator was told to "restart to recover" (`daemon.cpp:568`). `RefusedOnlyBuriedOrFull` has it as the first of two ways.
- The abort record of a start counts towards `max_records` (`store.cpp:726`, 757, PERSISTENCE.md:82); in a full log
  that has an open intent no start succeeds. It is the second way.

Agents, operators and messages:

- `plan_reconcile_grant` looks at no actor, so that a replaced agent's reconciliation takes effect
  (README.md:48). `SupersededChangesNothing` names the exception.
- A site that is draining or in maintenance is exempt from missed heartbeats; the grants of a dead agent
  stay there until they expire.
- The server compares a reply with its own frame bound, not the negotiated one (`server.cpp:184`,
  PROTOCOL.md:21): a client with a smaller bound refuses the reply. `Framing` therefore has separate
  bounds for sender and decoder. A reply above the server's own bound, which `server.cpp:38` lets be small, is replaced by
  `LIMIT_EXCEEDED` after the request was executed (`server.cpp:184`-199, 353), and one that the client's decoder refuses ends its call
  with the decoder's status (`client.cpp:147`): either caller may have its grant and not know. `OutcomesTrue` claims
  nothing of `LIMIT_EXCEEDED`; a retry is told `DUPLICATE`.
- A decoder bound below the receive chunk of 64 KiB can refuse intact frames that arrive together, and
  the buffer may hold twice a largest frame before it is compacted (`protocol.hpp:116`).
  `FramingAssumption` states the relation under which `RefusedAtFirstFault` holds; the defaults satisfy it.
- After one late answer every later call on a connection reads the previous answer and fails with
  `CONFLICTING`; `OutcomesTrue` shows that none is mistaken for success.
- The overlong check on two-byte sequences looks at the lead byte `0xC0` only (`wire.cpp:26`, `wire.hpp:35`: "no
  overlong forms", PROTOCOL.md:125): forms that begin with `0xC1` are accepted. `AcceptsText` allows that without asking for it,
  and shows that nothing else ill-formed is accepted.
- `bounded` cuts a reason at byte 512 (`authority_plan.cpp:26`), in the middle of a character if one is there. The
  image is logged and then neither `apply` nor any later start can decode it. The source of an attestation ends the same way: the
  decoder takes up to 4096 bytes of it (`model.cpp:261`), which this client never sends and another may,
  `plan_attest_capacity` keeps them all, and the encoder of the image cuts at byte 512 (`model.cpp:17`, 220).
  `UnreadableOnlyIfCut` shows that no other accepted request leads there.
- This client's encoder cuts an attestation's source at byte 512 without telling the caller, and the daemon refuses the request if
  that is inside a character (`client.cpp:273`). `SurvivesRoundTrip` says what arrives.
- Decoders accept texts of 513 to 4096 bytes in fields that the encoder would cut, so that a record encoded again is not always
  the bytes it came from. `OneEncoding` compares with the encoding that cuts nothing.
- `FabricClient::snapshot` accepts bytes behind the snapshot (`client.cpp:517`, PROTOCOL.md:129: "A decoder
  requires the payload to be fully consumed"). `OneEncoding` names the exception.
- `decode_mutation_report` admits the object kind 0, which nothing writes; `decode_request` and
  `decode_response` compare no protocol version, though `protocol.hpp` says that both do; `Writer::check_size`
  is never called, though `model.cpp:15` relies on it.
- `isfctl policy-install` resets `allow_partition_optimistic_recovery`, whatever was installed.
- Expiry of an oversubscription authority is ignored where the ledger is evaluated at time zero
  (`authority.cpp:862`); `NoOversubscription` uses the same time, as the daemon's check does.

## What is not modelled

- Checksums and chain hashes are represented by what they detect; that they detect it is assumed.
- Identities and randomness: identities are distinct model values.
- How read requests choose what to list, and the sums and counts of the status report: they take a lock and
  change nothing. The ledger and the encodings of their replies are modelled.
- In the authority's tables: names, reasons, provenance, advertised and observed figures, and the site's
  own copy of the epoch, which never exceeds the authority's. In `Messages` they are fields like the others.
- Wrap-around of 64-bit times and counters: `expires_at_ms` is an unchecked sum and can wrap with a
  client-supplied time; the model's times are unbounded naturals.
- The access to a connection's socket by `stop` while its worker closes it (`server.cpp:84`), which is
  not synchronised: shutting down may or may not wake a reader in the model, but the descriptor is not reused.
- The client's change of decoder after the handshake, and the sizes of replies: in `Session` any reply may exceed any bound.
- Parsing and printing at the command line, the commands that only print, tests, benchmarks, examples.

The bounds (`MaxSiteGeneration`, `MaxIntents`, `MaxShutdowns`, `MaxBacklog`, `MaxConnections`, `MaxCalls`,
`MaxResends`, `MaxFrames`, `MaxGeneration`, `Horizon`) are constants of the modules that use them, and appear in guards only.

## Plan

Done: the authority with its arithmetic, lifecycle and ledger, daemon, agents, operators, store with its
abstraction, server, session, framing and all codecs; every safety property proved, with the refinement of
`DurableLog`, but the three of the recursive codecs.

Next: times of fixed width with the wrapping sum of `expires_at_ms`; the
negotiated frame bound and the client's change of decoder in `Framing`; a composition of `Daemon` with
`DurableLog` in place of `durable` and `pending`; the codecs with lists and nested bodies as fields of bounded depth,
without recursion, so that their round trip can be proved.
