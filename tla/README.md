# Trellis: TLA+ models and proofs

Models of the concurrent and fault-tolerant parts of Trellis, the TLC
configurations that check them on small instances, and TLAPS proofs of the
properties that matter most for every instance. The reference is the source
code; each definition that stands for code is listed with its lines in the
`map` of `PROJECT.json`.

## The system and its parts

Trellis is a runtime and SDK for services that talk over NATS. Durable state
lives in JetStream streams, in KV buckets and in SQLite projections that are
derived from streams. The parts, and what of them is modelled so far:

| Part | Code | Module | State |
|---|---|---|---|
| Keyed job concurrency | `crates/trellis/src/jobs/keys.rs` | `JobKeyRecord`, `JobKeys`, `JobKeysCas` | modelled, proved |
| Job lifecycle | `jobs/projection.rs`, `jobs/events.rs` | `JobLifecycle` | modelled |
| Job submission | `jobs/manager.rs` | `JobSubmit` | modelled |
| Job references | `jobs/runtime_ref.rs`, `jobs/history.rs` | `JobSubmit` (wait, get) | partly: update streams are not |
| Job workers, cancellation, replay | `jobs/runtime_worker.rs`, `jobs/manager.rs`, `jobs/registry.rs` | `JobWorker` | partly |
| Jobs projector | `crates/jobs-runtime/src/projector.rs` | `JobsProjector` | modelled |
| Jobs administration | `crates/jobs-runtime/src/query.rs` | `JobWorker` (Cancel, Replay, Dismiss) | partly |
| Runtime leases, ownership | `crates/runtime/src/leases`, `ownership.rs` | `RuntimeOwnership` | modelled |
| Runtime supervisor | `crates/runtime/src/supervisor.rs` | `RuntimeOwnership` | partly |
| Service operations | `crates/trellis/src/service/operations.rs`, `operation_repository.rs` | `Operations` | partly: the provider, not the client's watch |
| Dead letters | `crates/events-runtime/src/dead_letters`, `runtime_facade.rs` | `DeadLetters` | modelled |
| Transport generations, own authority | `client/transport_generations.rs`, `client/authorization`, `client/connection.rs` | `TransportGenerations` | partly |
| Live observation sessions, data plane credit | `crates/trellis/src/live`, `data_plane` | | planned |
| Transfers | `client/transfer.rs` | | planned |
| Event log | `crates/events-runtime` | `DeadLetters` (management commands, dead-letter tables) | partly: the event projector is planned |
| Outbox and inbox | `ts/packages/trellis/service/outbox_inbox.ts` | | planned |
| Revocation, service updates | `crates/runtime/src/platform/auth` | | planned |
| Health | `crates/runtime/src/health` | | planned last |
| Protocol encoding, IDL, generators, CLI | `crates/protocol`, `idl`, `codegen-*`, `cli` | | not modelled: pure data, text translation, I/O |

The jobs subsystem is the core: a submitter reserves a place in a key record,
publishes lifecycle events to a stream, workers consume a work stream sourced
from it, take a slot of the key, run the handler and publish the outcome, and a
projector folds the same stream into the SQL view that operators see. The
runtime that hosts the projector (and the other built-in subsystems) owns them
by leases.

Beside the jobs stand three parts with the same difficulty, state that several
processes read, decide on and write without a lock between: durable operations
of a service, whose replicas fence each other by an owner epoch and a revision;
the dead letters of event consumers, a journal with an expected last sequence
that four kinds of task append to; and the transport generations of a connection, where
a worker, a refresher, a mirror supervisor, intake owners and callers share
sockets that come and go.

## The modules

**`JobKeyRecord`** holds the pure reducers of `keys.rs` (`AdmitJob`,
`AcquireActiveSlot`, `RenewActiveSlot`, `ReleaseActiveSlot`,
`RemoveQueuedEntry`, `RestoreReplaced`) and the terminal cleanup of
`runtime_worker.rs`. The record has the active slots and the queue in the order
of the code's vectors and the set of cleanup obligations. Timestamps are
abstract, but compared the way the code compares them: as strings. `LexRank`
gives their order, in which a whole second sorts after its own fractions.

**`JobKeys`** makes each coordinator operation one atomic action on the record.
Two history variables, `owner` (the job a token was made for) and `replacing`
(replacements that may still be rolled back), restrict callers to what the code
does: a worker renews and releases with its own token, a submitter rolls back
its own replacement.

**`JobKeysCas`** is `NatsKeyCoordinator::update_key`: read, reduce, write against
the revision read, read again on a mismatch, give up. It instantiates `JobKeys`
with `key <- entry.state`; the property `Atomic` is `JobKeys`' specification, so
the loop implements the atomic operations.

**`JobLifecycle`** has the lifecycle events, the legality table of
`is_legal_transition` and the reducer `ReduceJobEvent`.

**`JobSubmit`** is `submit_inner`: admit, publish Skipped for a replaced job,
publish Created, undo on failure. Several submitters run beside each other and
beside reduced workers. A publication succeeds, fails, or is taken by the stream
with its confirmation lost; a submitter can die at any step. `life` is the
workers' fold of the stream, `shown` the projector's, which treats a terminal
event without a job differently (`job_from_terminal_event`). One caller waits for
its job (`JobRef::wait`): it subscribes, reads the last terminal event of the
stream, follows live messages and gives up at its timeout; `wait` is its progress.

**`JobWorker`** is the worker loop and the attempt inside it. Every await in the
code is a step boundary (`pc` per worker): receive, read the lifecycle, acquire
or wait, publish Started, handler, guard, terminal publication, release,
cleanup, disposition. Beside it run the key heartbeat, the cancellation listener
with its pending set, deadlines, lease expiry, acknowledgement waits, crashes,
shutdown, cancellation by a caller that may hold outdated state, and replay and
dismissal by an administrator. The lifecycle stream is kept as its fold. Time is
kept as what it has done: a lease is fresh or past, a deadline has passed or not.
`keyed` says whether the queue has a key policy; it never changes.

**`JobsProjector`** is the pull consumer: collect a batch, project each event in
a savepoint, advance the checkpoint, acknowledge. The broker (marked external)
redelivers what is not acknowledged, after newer messages if there are some.
`Fail` stands for a crash, a transient store failure or a reopened pull.

**`RuntimeOwnership`** has runtimes that acquire their owner groups' keys in
order (rolling back on failure), verify them, start subsystems and renew each
lease in its own task. Time is discrete, with the bucket's ttl, the renewal
period, the jitter, the round timeout and the shutdown timeouts of the code.
Requests are prompt or slow; a slow one is served at any later time, also after
its sender gave up, and its answer may come late or never. Serving a request is
external (JetStream KV); expected revisions are those the code passes. A member
of `Runtimes` is one process run, since every run generates a fresh owner id.

**`Operations`** follows one durable operation of a service with replicas. `record`
is the KV entry; revisions are kept as `fresh`, whether anything was written
since an execution read it. An execution belongs to the epoch it claimed
(`exec[n]`), and its `pc` walks through `start_invocation`, `recover` and
`resume`: claim, admission, replacement and upload of a staged input, handler,
settlement. Callers start (also twice), cancel and signal; each write is begun
(`Begin`) and takes effect, fails or loses its answer later (`Exchange`,
`ExchangeFails`, `ExchangeLost`). The lease is kept as the set of replicas whose
clock has passed it. A provider's mutation gate is `GateFree`.

**`DeadLetters`** has the journal as a sequence of transitions and `append` with
its four ends (stored, already there, refused, unknown; in the last case the
broker may store it later, `late`). The management commands, the replay
dispatcher, the advisory loop and a participant's report each read, then append.
The replay Consumer (external) redelivers up to `MaxDeliver` times and then
emits an advisory. The projector applies what `project_dead_letter` accepts
(`Continues`) and is given again what it refused. The Events runtime stops as a
whole when one of its loops ends, and does not start before the projector has
caught up.

**`TransportGenerations`** has one record per generation (state, socket, fences,
intake handles by stage, leases) and the locals of `reconcile` in `worker`, with
a step boundary at each await: snapshot and classification, adoption, decision,
open, connect, install, barrier, publication in two steps, tracking, reap. The
reconcile mutex is `lock`; the state lock is held across the two steps of a
publication and of a promotion on a carrier, so others that need it wait for
`StateFree`. The refresher reads authority over a lease, prepares it on an admitted
carrier or a private stage and promotes it. A promotion writes the own authority and
then the installation; on a carrier it does so without the reconcile mutex, and
`own_transport_snapshot`, which `reconcile` calls without a lock, fails in between
(`Torn`, `Readable`). `reconcile` then acts as for a retired session (`Retire`). The
mirror supervisor opens application use once a snapshot was read over the
published generation; a caller is refused at once while the own authority is retired
or not covered by a mirror (`Refuse`), and waits otherwise. Auth and the sockets are external. `Loads` chooses one
situation per behaviour (what is granted before and after, who calls, what fails),
so that the faults of one situation are not multiplied by those of another.

`MC*` modules add symmetry sets and the constants of the runs. Operators marked
`Variant` in the modules are faulty variants that show that a property can fail; no
specification uses them.

## The runs

Passing runs:

| Run | Instance | What it shows |
|---|---|---|
| `keys` | 4 jobs, 3 tokens, 3 times, 2 slots, queue of 1 | slot limit, fencing, no displacement without an obligation, obligations leave only by settlement |
| `keys_cas` | 2 callers, 4 writes | the compare-and-swap loop implements `JobKeys`; a write that can go through was computed from what is in the bucket |
| `projector` | 3 events, batches of 2, 1 failure | an event is folded once; what is acknowledged is projected; every event is projected in the end |
| `worker_faults` | 2 workers, 2 jobs, 1 slot, displacement, 1 fault, 1 replay | work is acknowledged only when settled, the retry budget holds, no slot is orphaned, a displaced job keeps the message that settles its obligation |
| `worker_cancel` | 2 workers, 2 jobs, keyed and unkeyed, 1 cancellation from current or outdated state, 1 fault or stall | the concurrency limit holds for handlers, not only in the record; the first settlement stands against overlapping attempts |
| `worker_live` | 2 workers, 2 jobs, 1 fault, 1 deadline | every job settles |
| `submit` | 3 submitters, 1 slot, no waiting places, 1 waiting caller and 1 fault, or nobody waiting and 2 faults | accepted jobs settle; each fault costs at most one place; the projected view departs from the workers' only for replaced jobs; a waiting caller is told the state its job settled in, unless the job was replaced, and is answered or times out |
| `ownership` | 2 runtimes, 2 groups, ttl 15, period 5, jitter 0 and 1, 1 fault | a guard never changes another owner's lease; a renewal sent on time is over before the lease can expire; ordered handover; the runtimes do not all refuse each other |
| `operations` | 2 replicas, 1 fault; a plain operation with a signal, a stream and an upload started up to twice, each with a cancellation; 3 to 7 claims | one terminal outcome, which nobody writes over; a recorded cancellation wins; a superseded execution changes nothing; a handler starts only with its input whole; operations settle, up to the exemptions below |
| `dead_letters` | 2 entries, 2 commands (also one sent twice), 2 participants, 2 deliveries, 1 fault, in 5 situations | a command acts once; every transition is one the projection accepts; a replay is settled only after its end is in the journal; everything comes to rest (exhausted events recorded, replays ended, projection caught up), up to the exemptions below |
| `transport` | 6 generations, 2 grants, 1 caller, 1 owner, up to 2 losses and 1 failure, in 13 situations | no generation is forgotten; a generation being disposed of is never used again; accepted work is cut off only by loss, authority (or a misread of it) or close; only what authority covers is published; a resting manager has live intake; the connection comes to rest on what Auth grants |

One run ends in a counterexample, against a sentence of the repository (quoted in
`findings`): in `worker_stuck` a cancellation from outdated state is rejected by
the lifecycle and obeyed by the worker: the message is acknowledged and the job
never settles.

`TypeOK` of each module states the shape of its variables. That of `JobKeys` is
proved; TLC confirms the others on the instances above when they are added to a cfg. The runs do not list them: their properties say more.

Several passing properties have a premise, and each premise marks something the
code does not promise by itself:

* `Steady` (no lease and no acknowledgement wait ran out under a live worker):
  the terminal guard and the Completed event are two steps, so a lease that
  lapses between them lets the first worker complete a job whose slot is taken.
* `asked = 0` in `ObligationServed`: a displaced job that is then cancelled is
  acknowledged and leaves its obligation in the record.
* `run[j] = 1` in `HandlersBounded` (always so in `worker_cancel`, which has no
  replay; it marks where the property ends): a delivery read as settled before a replay
  removes the key entries by job id, and with them the replayed run's slot
  (`trellis-jobs.md:88` says such deliveries leave it alone).
* `faults = 0` in `HandedOver`: a lease task whose renewal failed releases its lease
  before the supervisor stops the subsystem, and another runtime may start it
  meanwhile (`observability-patterns.md:142` calls the loops singleton).
* `late` in `TtlCovers`: a round that starts late, because the one before it was
  answered late, still has the full timeout and may outlast the lease.
* the replaced job in `ViewHonest`: its Skipped event may precede its Created
  event; the view then says skipped and the workers run the job.
* `ignored` in `WorkSettled` and `EventuallySettled`: see `worker_stuck`.
* the replaced job in `WaitHonest`: `wait` takes every terminal event of the stream
  for an outcome, also one the reducer rejects.
* a first attempt's key in `EntryReady` and `Settles`: a pending upload uses the
  fixed key `operation-{invocation_id}`, so a replica that read the pending record
  and lost its lease may delete the object a later start has committed; the
  comment at `operations.rs:2699` excludes that for replacements, whose keys differ.
* `Stranded` in `Settles`: `recover` takes a cancelled stream for an upload
  (`operations.rs:936`), whose staging key is empty (`operations.rs:1111`).
  `settle_operation_upload` asks the object store about that key, which refuses an
  empty name; the error ends the recovery, and so it goes with each further one. The
  guide says "An interrupted requested cancellation is finalized on recovery"
  (`using-operations-rust/+page.md:59`); for a stream that was admitted before it was
  cancelled only a new start by its caller does that.
* `misread` in `WorkKept`: a read of the authority between the two writes of
  `promote_locked` fails, `reconcile` takes the session for retired and, without
  another read under the locks, closes every generation by force, also those that the
  old and the new authority cover. Its doc comment says "Closes generations current
  authority no longer covers" (`transport_generations.rs:2046`).
* `discarded` in `Converges` of `DeadLetters`: when the dispatcher's append comes
  between the read and the append of the report of an exhausted replay, the
  advisory is refused, taken for invalid and acknowledged, and the entry stays in
  replay (`trellis-auth.md:1154` says that Events journals such advisories).
* `Skipped` in `Converges`: a store failure on one transition followed by a success
  on another entry's moves the checkpoint past the first, which is then refused
  for good; Events cannot start again.
* retired sessions in `Converges` of `TransportGenerations`: nothing retries until
  somebody asks. Not stated there: that every disposal sweep ends. A generation
  lost after its intake was taken has no handles left to force, and its graceful
  sweep waits on. A call for what current authority does not grant waits for its
  deadline.

One thing the code does is in no property, because nothing can be said against it but
its comment: after a failed batch of the projector later messages come before the
redelivered ones, the checkpoint passes events that are not yet projected (the comment
at `projector.rs:176` says it does not), and the rows are not in stream order.
`NothingLost` and `EventuallyProjected` hold through it.

### Bounds

Every bound is a named constant in a guard. Two workers (or callers, or
runtimes) suffice for races between two actors; two jobs and one slot make them
compete; `MaxRuns = 2` gives one replay; one fault reaches each recovery path,
since recovery leads back to a state in which the next fault is the first again.
`JobWorker`'s `Tokens` need only outnumber the places a token can be
remembered in, because `NewToken` recycles tokens nobody mentions.
`MaxWrites` (ownership) stops the clock rather than the runtimes, so every step
that takes no time still happens; seven writes are an acquisition and
verification of both groups by one runtime and what the other does next.
`MaxStalls` counts leases and acknowledgement waits that run out under a live
worker. In `submit`, three submitters are the one replaced, the one that
replaces it and one that meets the rollback; a publication and its undo fail together
(`MaxFaults = 2`) only where nobody waits, since one fault is what a waiting caller
meets (`MaxWaitFaults = 1`). In `operations` each kind has the
claims it needs (`claims`): starts, a fault and listings made before an upload was
given up all cost claims, and with seven for an upload and four for a plain operation
every one settles, so that `Settles` needs no premise about the bound.
Only the recoveries of a cancelled stream
go on for ever; for it three claims are the first execution, a recovery and a
repetition. In
`dead_letters` two deliveries make a first, a repeated and an exhausted one; two
commands give two generations. In `transport` six generations are enough for all
thirteen situations: a seventh adds no state, so the bound cuts nothing off. Deadlock checking is
off where the system ends (all jobs settled, all runtimes gone, stream at its
bound); symmetry is used only in runs without liveness properties.

### Fairness

Weak fairness of each worker's loop (a task that is scheduled; handlers return;
a crashed worker is replaced by the next receive), of redelivery of messages
nobody holds and of the expiry of leases nobody renews (both are timers of the
broker and of the clock), of a submitter that has begun, of the projector's
steps and of the broker's deliveries. Faults, cancellations, replays and
publications have no fairness.

In `Operations`, replicas keep listing operations to recover and clocks go on (weak
fairness), and handlers return although they may call their control in between
(strong fairness of `Return`). In `DeadLetters`, one weak fairness covers all loops,
the restart of the runtime and redelivery; operators need not send anything, and a
late append need never arrive. In `TransportGenerations` each task is weakly fair on
its own; the two waits for the reconcile mutex are strongly fair because a tokio
mutex is a first-in first-out queue.

## The proofs

`JobKeysProofs` proves for any jobs, tokens, times, `max_active`,
`max_queued_per_key`, `when_full` and stale policy:

* `TypeCorrect`, `ConcurrencyLimit` (`SlotsBounded`), `Fencing`
  (`SlotsDistinct`, `TokensOwned`), `OneReservation` (`QueuedOnce`): invariants, of
  which `TypeOK`, `TokensOwned` and `QueuedOnce` are in no run's list;
* `DisplacementRecorded` (`NoSilentDisplacement`), `ObligationsPersist`
  (`ObligationKept`): action properties.

The inductive invariant is `TypeOK` with `WellFormed(key, owner)`: at most
`MaxActive` slots, pairwise different jobs, each token owned by the job of its
slot, and a queue without repetition. The limit alone is not inductive: a
takeover of one's own expired slot removes one slot and adds one, which keeps
the number only if a job has at most one slot, and that in turn needs the owner
of a token to be fixed. The argument is one lemma per reducer (what it returns
is well formed, what it keeps), resting on lemmas about removing and appending
in sequences; each action of `JobKeys` then follows from the lemma of its
reducer. Assumptions: `PolicyAssumption` and `BoundAssumption`.

`JobKeysCasProofs` proves `FreshWrites` (`WritesFresh`) and `CoordinatorAtomic`:
`JobKeysCas` implements `JobKeys`. Its invariant, `CasInv`, has the shape of
the entry and of the calls, and says that a call
in its write phase with the current revision holds the reduction of the current
record, that two calls never use one token or roll back one replacement, and
that what a caller was allowed to ask stays allowed; each Write then is the
`JobKeys` action of its request, and every other step a stutter or `Settle`.

Only model-checked: everything about `JobWorker`, `JobSubmit`, `JobsProjector`,
`RuntimeOwnership`, `Operations`, `DeadLetters` and `TransportGenerations`, and all
liveness, which is outside what the prover handles.

## What is left out, and why

* Payloads, schemas, progress, logs, waits and telemetry: no property depends on
  them.
* The broker's storage: a confirmed publication is durable.
* Deduplication windows of publications: a submitter publishes once per job.
* The worker host's own intake slots across transport generations: the owner of
  intake in `TransportGenerations` stands for any owner.
* `JobRef` update streams (read in the code, not checked by a run). Their list of terminal events leaves Stale out, so a
  follower of a stale job goes on waiting.
* In `Operations`, the client's wait and watch, and the progress of an upload beyond
  whether it is checkpointed. In `DeadLetters`, the correction of a delivery count:
  `max_deliver` is fixed when a Consumer is allocated. In `TransportGenerations`,
  `detach_intake`, hard authority deadlines, violation events and the rebinding of
  live sessions.
* Live sessions, data plane credit, transfers, revocation, the outbox and health:
  separate state machines that no module touches yet.
* Clock skew between hosts beyond a lease that lapses under a live worker
  (`LeaseLapses` with a stall).
* In `RuntimeOwnership`, start of several subsystems is one step, and a key that
  is exactly as old as the ttl still exists.
* Cryptography and wire encodings.

## Plan

1. Proofs: `ProjectedOnce` and `NothingLost` of the projector, `CommandOnce` and
   `JournalLegal` of the dead letters, `CancelWins` and `TerminalFinal` of the
   operations, `LeaseFenced` of the ownership.
2. Live sessions with credit over transport generations; the worker host's intake.
3. Outbox and inbox: at-least-once delivery with deduplication refines an effect
   that happens once.
4. Revocation and service updates.
