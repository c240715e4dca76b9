# A TLA+ verification project for libmcp

libmcp is a Rust library for MCP servers that stay up while the program behind
them changes or fails. A stable *host* process owns one public JSON-RPC session
(stdin and stdout). It runs the actual server as a *worker* child process, and
replaces that worker when it dies (recovery) or when a new release is published
(rollover), without the public client noticing more than latency. The library
also offers the pieces for replacing the host process itself (live handoff).

The models here are translated from the Rust source, function by function.
`PROJECT.json` maps every definition to the lines it stands for.

## The system

| Component | State | Operations |
|---|---|---|
| Recovery law, `replay.rs` | none (pure) | knowledge transitions, `ReplayAllowance`, `request_disposition` |
| Host session kernel, `host.rs` | public phase, initialization seed, pending invocations, queued frames, sequence counter | observe, queue, pop, begin dispatch, complete, requeue after worker loss, resolve probe |
| Snapshot validation, `host.rs` | a copy of the kernel | `snapshot`, `restore` |
| Snapshot capsules, `host.rs` | one private file per handoff in a directory shared by all hosts of a user | write (after pruning), load and unlink, drop |
| Supervisor, `supervisor.rs` | kernel, active worker, candidate, published catalog, internal requests, callbacks, journal, rollover phase, deadlines | one handler per event: client frame, worker frame, worker gone, tick |
| Session journal, `supervisor.rs` | compacted session transitions, pinned, checkpointed | `record` |
| Worker I/O tasks, `supervisor.rs` | pipes, a bounded mailbox per worker, one bounded event queue | `worker_io_loop`, `WorkerHandle::send`, `kill` |
| Effect contracts, `effect.rs` | none (pure) | catalog parsing, projection to replay and session-state contracts |
| Release runtime, `rollout.rs` | running generation, armed successor, settling fingerprint, gate socket | `observe`, `handoff`, `admit_successor` |
| Release loading, `rollout.rs` | files | `load_release`, `verify_release`, `StateCompatibility::accepts` |
| JSON-RPC framing, `jsonrpc.rs` | read buffer | parse, bounded frame reading, ids |
| Operational ledger, `health.rs` | counters for the session and by method, generation, last fault | `record_*`, `replace_worker`, snapshots |
| Telemetry log, `telemetry.rs` | a file shared by threads and processes, counters per instance | `record_tool_completion`, `write_hot_paths_snapshot` |
| Fault and value types, normalization, rendering, projection, derive macros, test kit | none | data conversions |

How they interact. The supervisor is one asynchronous task. It takes one event
at a time and runs its handler to the end; handlers end in calls of further
methods (`flush_queue`, `try_begin_restore`, `activate_candidate`,
`reject_candidate`, `handle_worker_loss`). It calls the kernel synchronously,
and the kernel calls the recovery law. Each worker has an I/O task of its own,
which writes the frames of the worker's mailbox to its stdin and turns its
stdout into events; the last one is `WorkerGone`. Workers and client run
concurrently with the host, so a frame may have been emitted long before it is
handled, and a mailbox may have closed before its end is noticed. Live handoff
is a protocol between two host processes over a private socket, each under
deadlines of its own; it shares nothing with the supervisor but the release
files, and is called by consumers that embed the kernel.

What is hard about it:

- **Repeated loss.** An invocation may be lost, requeued, lost again before it
  is redispatched, answered late, held for a probe, authorized and lost again.
  Nothing may be dropped, answered twice, reordered, or repeated beyond its
  contract and its budget.
- **Two workers.** A rollover prepares a candidate beside a serving incumbent;
  each can fail at any stage, and the answer of either can arrive at any time.
- **The fence.** New work is held back while old work drains; whatever ends the
  drain, or kills the reason for it, has to lift the fence.
- **Session state.** What the incumbent knows is rebuilt in the successor from
  a bounded journal, entry by entry, while the world goes on.
- **Errors that travel.** A `?` in a handler may end the host, the one thing
  that must not happen because of a worker.
- **Bounded queues in a ring.** Host, worker and the tasks between them wait for
  room in each other's queues; the capacities have to rule out a circle, and the
  end of a worker must not overtake what it has written.
- **Replacing the reader.** During a handoff two processes hold the public
  stream, and either can die or be late at every byte of the protocol.

## Modules

| Module | Models |
|---|---|
| `ReplayLaw` | `replay.rs`, as operators |
| `HostKernel` | the kernel of `host.rs`, one action per successful call |
| `InvocationLaw` | the abstract promise about one invocation; `HostKernel` implements it |
| `HostSnapshot` | the tests `restore` makes, as predicates of a kernel state |
| `EffectContract` | `effect.rs`, as operators: what a tool declares and the contract made of it |
| `Supervisor` | the host task of `supervisor.rs` over `HostKernel` and `EffectContract` |
| `SessionLaw` | the abstract promise about the session: authority, requests and session state; `Supervisor` implements it |
| `Handoff` | `ReleaseRuntime`, the gate protocol and the snapshot capsules |
| `FrameReader` | the frame readers and writers of `jsonrpc.rs`, byte by byte |
| `WorkerIo` | the client reader, the host's loop, `worker_io_loop` and a worker, with every queue between them |
| `OperationalLedger` | `OperationalLedger` of `health.rs` |
| `TelemetryLog` | several `TelemetryLog` instances of `telemetry.rs` on one file |
| `ReleaseWatch` | `ReleaseRuntime::observe` against whoever replaces the executable or moves the channel |
| `HostKernelProofs` | theorems about `HostKernel`, and that it implements `InvocationLaw` |
| `HostSnapshotProofs` | theorems about what `restore` accepts and the order of recovery; what each kernel operation does to the parts of the state its callers look at |
| `SupervisorProofs` | theorems about `Supervisor`: the catalog, the use of the kernel, the roles, effects and replies |
| `SessionProofs` | that `Supervisor` implements `SessionLaw`, what it may forget, and that the kernel's theorems hold in the host |
| `HandoffProofs` | theorems about who reads a session's stream, and with which state |
| `WorkerIoProofs` | theorems that an admitted request fits into the mailbox, and that no frame of a worker is missing or out of order |
| `FrameReaderProofs` | theorems about the frames a reader returns, and how much it holds |
| `OperationsProofs` | the theorems about the ledger's books, the telemetry file and its counters, and what is reported as a successor |
| `MCHostKernel`, `MCSupervisor`, `MCHandoff`, `MCFrameReader`, `MCWorkerIo`, `MCOperations` | instances for TLC |

`HostSnapshot` extends `HostKernel` extends `ReplayLaw`. `Supervisor` takes the
kernel as `K == INSTANCE HostKernel` over variables of the same names, so that
each of its actions is a conjunction of kernel actions and of what the handler
does itself; what is proved of the kernel therefore holds of the session the
host serves (`HostKeepsInvocations`).

### ReplayLaw, HostKernel, InvocationLaw

A Rust `Option` or `Result` that is absent is `None`. An attempt counter is a
`u8`: `AttemptLimit` is 255 and `HasNextAttempt` fails there, as `checked_add`
does. A kernel call that returns an error without touching the state is a
disabled action; a call that fails *and* changes the state is an action of its
own (`ProbeExhausted`). `RequeuePendingForReplay` is the whole function: every
pending invocation is judged, the replayable ones are ordered by sequence and
kept as far as the queue has room, the backlog follows, the rest is rejected.
Frames are records `[method, id, body]`; `body` stands for everything two
payloads can differ in. `started_at` and `tool_call_meta`, which no decision
reads, are left out.

`ledger` is history: for every sequence number the contract, the number of
dispatches, whether the last loss was followed by probe evidence, and the
outcome. No action reads it. It is what the properties speak of.

`InvocationLaw` has no ids, frames, queues or capacities: an invocation is
accepted, dispatched, becomes unknown when its worker is lost, may be replayed
by contract or by evidence, and settles once. The refinement
`ImplementsInvocationLaw` computes its state from `pending` and `ledger`.

### HostSnapshot

`snapshot` copies the kernel and `restore` checks the copy. The predicates are
those checks. That every reachable kernel passes them is a property of the
kernel: `restore` was written independently of the operations that produce the
states, and a host that is replaced at a bad moment has no second chance.

### Supervisor

`host.at` is the method that runs next. At `"Idle"` the next event is taken; a
handler that tail-calls another method leaves its name there, and the method is
the next host action. Everything between two suspension points that other
processes can observe is one action. Workers are records `[status, release,
owes, applied]`: `owes` are the requests they have received and not answered,
`applied` is their session state as the list of transitions that led to it. A
worker whose mailbox has closed can still have emitted answers; they are
delivered until its `WorkerGone` is handled.

A catalog is a model value; `Declared` says what each of its tools declares, and
`EffectContract` makes the contract of it as `parse_contract` does. Two catalogs
are the same or not. The body of a call is its tool and whether its arguments
hold the keys the contract points at (`keyed`).

Abstractions: a journal entry is its
compaction key; `pinned` and `checkpointed` journals, and one whose byte limit
is hit, are all `sealed`, which is all that `try_begin_restore` looks at;
deadlines are armed or not; the retry back-off is the freedom of `StartRecovery`
to wait. A request the host refuses at once, and a list it answers from the
published catalog, change nothing and are not actions. The client is assumed
not to reuse the id of a request it has no answer for (the kernel refuses that).

`left` bounds the environment: client frames, faults, callbacks, publications.

### SessionLaw

The abstract machine of `formal_semantics.md` ("Transition Rules") for one
session: requests are outstanding, dispatched or unknown, one generation serves
or none does, new work is fenced or not, and the session is a list of transitions
as long as it is `portable`. It has no workers, queues, handlers, journal or
candidate. Authority changes in three ways: `Lose` (no generation serves, what it
worked on becomes unknown), `Resume` (the same generation, the same session) and
`Cutover` (another one, behind the fence, with nothing dispatched, the session
portable, and the pair in `Accepts`).

`Supervisor!Law` says what these are in the host: the serving generation is the
release of the active worker, `dispatched` the kernel's entries in flight,
`unknown` its other pending entries, and the session is what the active *worker*
has applied or, without one, the journal. That the journal is the same as the
session of the worker is therefore something a step has to keep, not something
the mapping assumes.

### Handoff

One process per host; `SessionOf` is the public stream it inherited. An
incumbent goes through Serving, Captured (its capsule is written), Accepting,
AwaitingReady, AwaitingLive, and ends Relinquished, or Failing and then Serving
again after the kill. A successor goes through Starting, Hydrated, Connected,
Announced to Serving, or leaves. `gate[c]` is the set of bytes that have been
written on the socket of successor `c`. The order of calls is the one of the
crate's handoff fixture. `root` is the capsule directory, newest file first.

The window in which a successor's LIVE is written after the incumbent has given
up, and before it is killed, is in the model: the byte is then `"LateLive"`.

### EffectContract

A declaration is the part of a tool object that the host reads: whether there is
explicit metadata, its kinds and keys, the old annotation, the protocol's hints.
`Refused` is what makes `ToolCatalog::parse` fail (catalogs that are served have
none); `ParseContract` is the result otherwise; `ReplayContract` projects it to
the recovery law. `Supervisor!RecoveryOf` adds the two cautions of
`classify_request`: no probes, and no deduplication without the key.

### FrameReader

One stream, a writer and a reader. `sent` is all that was written, `taken` how
much of it has left the kernel's pipe; a read returns any part of the rest, up
to `ChunkSize`, so that a frame is cut everywhere. The timed reader keeps
`buffer` and `consumed` across calls; a time-out changes nothing and is no
action. `Exec` replaces the process image where `has_buffered_input` allows it:
the pipe survives and the buffer does not. For the streaming readers `buffer`
is the one of the `BufReader`, and `line` the frame being put together.
`FramesOf` says what frames a stream holds without reading it, by the positions
of its delimiters (`FrameEnds`) and the place each has among them (`Ordinal`);
it is the reference for both readers.

### WorkerIo

What `Supervisor` abstracts from: the tasks and bounded queues between client,
host and one worker. Whoever finds a queue full waits with one frame in hand
(`client.has`, `host.has`, `reader`, `writer`); the host waits inside a handler.
`handle` is whether the host still holds the `WorkerHandle`, `io` how
`worker_io_loop` stands or which of its three futures ended first; `Ends` is the
end of the `select!` together with `kill_worker_tree`. The mailbox is dropped
only when the task ends, after `WorkerGone` is in the event queue (`reported`).
The worker is the slowest one the code provides for: while it writes it reads
nothing. Frames to the worker are requests, which admission counts, or others;
frames of the worker are numbered, so that a gap shows. A pipe holds frames, not
bytes; the host has one worker at a time here.

`NothingMissing` is what lets `Supervisor` deliver `WorkerGone` after all frames
of a worker. It has two exceptions, which the code has too: a worker the host
retires, and a worker that dies while a write to it is under way, where the
broken pipe may end the loop before its output has been read
(`supervisor.rs:1579`; the comment at 1557 is about the other order).

### OperationalLedger, TelemetryLog, ReleaseWatch

Three surfaces a host keeps beside its session. They share no state, and their
names are distinct, so that `MCOperations` extends all of them and exercises one
per behaviour.

A ledger call works on a clone and assigns it when nothing has failed, so a call
that fails is no step; `CounterLimit` and `StreakLimit` stand for the widths of
its counters, and are reached. `Tally` is the pairing each call makes of a
method's counters and the session's.

A telemetry record is a row of cells, the last one its newline, and `write_all`
may put them in the file in several pieces. Instances in one process share
`TELEMETRY_WRITE_LOCK`, all share the lock on the file. Each file operation may
fail and each process may be killed, `Troubles` times. `begun` counts the records
an instance has started and bounds the run; `whole` is history.

`ReleaseWatch` counts time in ticks. Outside the host, a finished file may be
renamed onto the path, a file may be written there in pieces, the path may be
empty for a while, the old file may come back. That a writer pauses less than
the settling time is an assumption (`WatchAssumption`), and what
`SUCCESSOR_SETTLE_TIME` rests on. In a managed host the channel moves between
releases, of which some do not verify yet.

## What the runs check

`MaxSequence`, the queue and pending capacities, and `left` bound the runs; the
instances are small, and chosen so that each limit is hit.

| Run | Question | Bounds, and why they are enough |
|---|---|---|
| `kernel_recovery` | Is the kernel's accounting right under any order of calls? | Three ids, one of them an initialize, three invocations over a life, two queue slots, one replay: three invocations can be lost together with room for two, requeued twice, answered late; a fourth would repeat the third. Every contract is tried for every invocation. |
| `kernel_abandoned` | Does every live kernel pass its own `restore`? | Two initializes with different payloads and a call. Violated. |
| `supervisor_safety` | Do handlers, in any order and broken off anywhere, keep the two workers, the kernel and the client consistent? | Two starts: cold, with five client frames (the handshake, and work before and after), and three faults (a worker, its recovery candidate, and one more); and served, with three frames, two faults, one callback, one release whose catalog differs. Two worker tokens are enough: the host has at most two workers. |
| `supervisor_service` | Is every request answered, does service resume, do releases become active or refused? | Two starts: a served session of a stateless release, with two faults (the worker, and its first replacement); and one of stateful tools, with two publications (forward, and to releases the incumbent's state is not readable by), a journal of two transitions, changed catalogs, no faults. Three frames each. |
| `supervisor_stranded`, `_refresh`, `_restore`, `worker_backpressure` | See *Where the code disagrees with its documents*. | The smallest bounds that show it. |
| `handoff_service` | Is there always one reader, with the right state, and does every handoff end? | Three hosts of one session (a chain of two handoffs, or a failed one and a repetition) and a host of another session that prunes the directory. With `MaxFiles = 0` every write finds the directory full, as the 129th does in the program. |
| `frame_stream` | Do both readers return exactly the frames of the stream, whatever the cuts? | All streams of up to six bytes over a letter, CR and LF, a limit and a chunk of two bytes, compaction at two: a line at and over the limit, between others, split at every place, with consumed bytes below and above the compaction mark. |
| `worker_io` | Do the queues ever wait in a circle, is anything lost at a worker's end, can it always be retired? | One place in events and pipes, two in the mailbox, two admitted requests. Two starts: requests only, with a worker that dies or hangs and a retirement; and one with three other frames and two requests, enough to fill mailbox, pipe and the writer's hand. |
| `operations` | Do the ledger's books balance, is the log whole and bounded, is a replacement noticed when it is complete? | Counters up to three, so that each is exhausted; three logs in two processes, four records and a snapshot, one failure or kill, a file that holds two records; a path or channel that changes three times, files in two pieces, a pause one tick shorter than the settling time. |

Deadlock is checked in the kernel runs, where losing the workers is always
possible. The others say `CHECK_DEADLOCK FALSE`: there the system may stop,
because the environment may have used up `left`, the host may have ended on an
error (`FailedRestore`, `FailedCatalog`) or with its client, every process may be
gone, or the counters may be exhausted.

### Properties

Of the kernel: `NoSilentDrop` (an accepted invocation has exactly one pending
entry until it has an outcome), `AttemptsAreDispatches` (what the host believes
about attempts is what was dispatched), `BoundedDispatch`,
`AuthorizedRepetition` (a repetition has a contract or *fresh* evidence),
`SingleTerminalOutcome`, `OrderedRecovery`, `Restorable` (every state passes its
successor's validation, but for an abandoned initialize),
`ImplementsInvocationLaw`.

Of the host: `GenerationPinned` (what the kernel holds in flight is what the
active worker owes), `NoSecondReply`, `ForgottenAreLists` (only a `tools/list` can
be left with nothing that stands for it), `SessionPrefix` (the
journal is the worker's session state), `CatalogCoherence`,
`ConversationOwned` (the host waits for exactly the answers its roles call for),
`FenceHasCause`, `OnlyRepeatable` (what is sent again is declared repeatable),
`ImplementsSessionLaw`, and the liveness properties
`RequestTermination`, `ServiceResumes`, `RolloverProgress`. `HostSurvives` and
`NothingForgotten` are stated and violated.

Of the handoff: `OneReader`, `SessionContinuity`, `SessionSurvives`,
`HandoffEnds`.

Of framing: `Faithful` (both readers return what `FramesOf` says, and fail or
end only where it does), `RoundTrip` (what `write_frame` accepts comes back),
`BoundedMemory`, `StreamEnds`.

Of the queues: `RequestsFit` (an admitted request always finds room),
`NothingMissing` (all that a worker has written reaches the host, in order and
before `WorkerGone`), `RetirementCompletes` (even of a worker that hangs),
`RequestsProgress` (with requests only, what is admitted is answered, and the end
of the client is reached). `SendCompletes` is stated and violated.

Of the operational surfaces: `Balanced` and `Aggregated` (each invocation is in
flight or ended once, and the totals are the sums), `BoundedRecords` (no bytes of
one record between those of another, none cut short but by a failure, and the
file within its bound), `CountedAreWritten`, `ArmedIsComplete`,
`ReplacementNoticed`.

Every property of a passing run has a mutant: an operator kept just before the
definition it varies, marked "Mutant" with the mistake it stands for. Put in the
place of that definition, it makes TLC report the property as violated.

### Fairness

`Supervisor!Fairness`: the host task runs on, its ticks come, a worker that is
alive answers what it was asked (`formal_semantics.md`, A3 and A5), the end of a
worker is noticed (its I/O task awaits the pipes and the mailbox), and the
client answers what a worker asks it (A8). Catalog grace passes by itself; other
deadlines are faults, because a live worker answers in time. Nothing obliges the
client to send, a worker to fail, or a release to appear. Weak fairness is
enough: none of these steps is taken away once it is possible, except by a step
that is itself progress or uses up `left`.

`Handoff!Fairness`: a process inside `handoff`, or connected in
`admit_successor`, runs, and its read timeouts and accept deadline pass. A
successor that hangs before it connects is allowed.

`FrameReader!Spec`: a reader that is open reads on; nothing obliges the writer.

`WorkerIo!Fairness`: the tasks run when they can, and a live worker reads on and
writes what it has (A3, A5). The three senders into the event queue are given
strong fairness: a place in a full queue appears and is taken again, and tokio
hands the permits of a bounded channel out in the order they were asked for.
The client is not obliged to anything, and a worker that hangs to nothing.

`ReleaseWatch!WatchFairness`: time passes and the host goes on observing
(`CHANNEL_POLL`); nothing obliges anybody to finish a file.

## Where the code disagrees with its documents

- **An abandoned initialize** (`kernel_abandoned`). When the loss of its worker
  or a probe ends a pending initialize without a response, the phase stays
  `Initializing`: no later initialize is accepted, and `restore` calls the
  snapshot of such a kernel a contradiction. `Restorable` says that this is the only state
  it refuses.
- **The forgotten refresh** (`supervisor_refresh`). `reject_candidate` clears
  `refresh_request`; the `tools/list` it holds is never answered.
  `ForgottenAreLists`, which is proved, says that nothing else is forgotten.
- **The candidate's closed mailbox** (`supervisor_restore`). A candidate that
  dies just before its first journal entry ends the host.
- **The stranded session** (`supervisor_stranded`). `reject_candidate` restores
  the rollover phase only if there is an active worker. A recovery candidate
  that is rejected behind its own fence, because the journal is sealed or
  because it refuses an entry of it, leaves the host in `Draining` with no
  worker and no candidate; only `Recovering` starts another one, and client
  frames queue up without an answer.

- **The crowded mailbox** (`worker_backpressure`). The mailbox is sized so that
  "every admitted request" fits (`supervisor.rs:23-25`), which `RequestsFit`
  confirms. Notifications, cancellations and callback answers share it and are
  not admitted: with enough of them the host waits for the mailbox, the worker's
  reader for the event queue, the worker for its output, the writer for the
  worker. With a worker that hangs the same few frames are enough, and the host,
  waiting inside a handler, does not get to retire it.

Others were met while modelling and have no run of their own:

- A session without a catalog: if the worker is lost after the session is live
  and before its first catalog has arrived, no recovery candidate can match the
  absent catalog (`supervisor.rs:721`); each one waits for a refresh the client
  cannot give, and is dropped when the grace ends. `ServiceResumes` fails under
  `FairSpec` with the handshake, one call and one fault.
- The drain behind a callback: `route_callback_response` (`supervisor.rs:1293`)
  does not look at the fence again, and when a callback is the last obligation,
  nothing else does while new work is held back. `RolloverProgress` fails for a
  served session with one frame, one callback and one publication.
- The late callback: callbacks are counted when a restore begins; one that is
  issued while the journal is replayed dies with the incumbent
  (`supervisor.rs:786`, against `formal_semantics.md:456-457`).
- Pruning the capsule directory does not ask who owns a file (`host.rs:1287`),
  where `docs/spec.md:304` has cleanup remove "only the capsule owned by this
  handoff"; `handoff_service` runs with a host that prunes other sessions'
  capsules.
- A worker lost between the initialize response and the initialized
  notification ends the host if a `tools/list` is queued (`reply_catalog`:
  "public catalog is absent"; the step to `FailedCatalog` in `RouteFrame`).
- A LIVE byte that crosses the incumbent's deadline lets the successor read
  frames before it is killed; they are lost, and a successor that has by then
  handed off in its turn leaves two readers. `OneReader` and `SessionContinuity`
  hold in every state without such a byte, and are violated without that
  exception.
- A telemetry record that a failure cuts short has no newline, and the next
  record, whole as it is, shares its line, where `docs/spec.md:340` has each
  event "emitted as one intact JSONL record". An event whose snapshot fails is
  reported as failed though it is written and counted: a caller that repeats it
  writes it twice.
- A successor that was armed stays armed while another file settles at the path
  or while a release does not verify; `handoff` does not look at the observation
  (`rollout.rs:631`), so it rests with its caller to ask `rollout_ready` first.

The passing liveness run avoids exactly the states above: the session that has
faults has no session state and meets no release, and the one that has both has
no faults.

## Proofs

`HostKernelProofs` proves with TLAPS, for all ids, frames, capacities, budgets
and sequence limits that meet `FramesAssumption` and `LimitsAssumption`:

- `TypeCorrect`: `Spec => []TypeOK`. The inductive invariant `TypeInv` adds that
  the domain of `pending` is finite. It is needed because the order in which
  requeueing lists invocations is defined over `Cardinality` of sets of pending
  ids and of queue positions: only for a finite set is there a listing whose
  elements are all in the set, which makes the new queue a sequence of frames.
  `TypeOK` is not shallow here: that a pending entry sits under the id of its
  own frame is what later lets an id stand for an invocation.

From the same assumptions it proves that the kernel's accounting is right. The inductive invariant is `SafetyInv`, the conjunction of
`TypeInv`, `Accounted` and `Lawful`:

- `Accounted` ties the ledger to the state. The sequence numbers in use are
  those below `nextSequence`; one that is not in use has not been dispatched; a
  pending entry points at an open line of the ledger with its own contract; no
  two entries point at the same one; and an open line has an entry. None of
  this is said by `NoSilentDrop` alone, which is about the last of them: without
  distinct sequence numbers, completing one invocation could close another.
- `Lawful` ties what the kernel believes of an invocation to what has happened
  to it: attempts and knowledge to dispatches (`AttemptsAreDispatches`), and a
  scheduled replay to a contract or to evidence not older than the last loss.
  Only with it does the guard of a redispatch imply that the repetition is
  authorized and within its budget.

From it follow `NothingDropped` (`NoSilentDrop`), `AttemptsCounted`
(`AttemptsAreDispatches`), `DispatchBounded` (`BoundedDispatch`), and the action
properties `RepetitionAuthorized` (`AuthorizedRepetition`) and `OutcomesFinal`
(`SingleTerminalOutcome`). Each operation of the kernel has a lemma per part of
the invariant; the one for worker loss is the long one, since it rewrites every
pending entry at once. TLC checked the invariant before it was proved.

The refinement is proved there too: `KernelImplementsLaw`
(`ImplementsInvocationLaw`). Beyond `SafetyInv` it needs that a line of the
ledger not in use is blank and that a pending entry is in flight or, if it is
scheduled, unknown (`LawInv`). The abstract stage of an invocation is chosen
among pending entries, so the proof first shows that there is one candidate
(`StageRead`). Then each operation of the kernel is an action of `InvocationLaw`
for one sequence number, except worker loss, which is `Lose` for all of them at
once.

`HostSnapshotProofs` proves `KernelRestorable` (`Restorable`) and
`RecoveryOrdered` (`OrderedRecovery`), from the same assumptions. `QueueValid`,
the test of `restore`, is nearly inductive as it stands; `SnapshotInv` adds the
capacities, that only a request with the probe contract is held, and how an
initialize, pending or queued, stands to phase and seed. The order of recovery is
a fact about `Listings` of a finite set by distinct keys, and sequence numbers
are distinct by `Accounted`. Its last section states, operation by operation, what happens to
the ids the kernel holds, to the invocations in flight and to the phase; the
proofs about the host use the kernel through these lemmas only.

`SupervisorProofs` first proves, for every catalog that meets
`CatalogsAssumption`, that journaled tools are repeatable
(`JournaledIsRepeatable`) and that a call is classified as convergent only by a
declaration that says so (`ClassifiedByDeclaration`). Then it proves the host's
invariant for all frames, workers, releases, catalogs, capacities and bounds of
the environment, from `RolesAssumption`, `CatalogsAssumption`,
`BoundsAssumption` and `KernelAssumption` (the kernel's own two). The argument
has three parts.

- *The kernel.* A handler makes at most one call of the kernel (`HostCalls`), so
  the proved invariant of the kernel holds of the kernel in the host;
  `HostUsesKernel` states it as `Spec => K!Spec`. The host adds one obligation,
  which is where the types come in: it may only pass frames and contracts the
  kernel knows, also those it took out of a queue three handlers earlier.
- *Types* (`Typed`), which are not shallow for the sessions of workers: a journal
  without duplicate keys, and every worker's session with it, is what compaction
  has to preserve (`CompactedSession`).
- *Roles* (`Coordinated`). None of the checked properties is inductive. Together
  with the following they are: the process of each role is alive or its end is
  on the way (`Processes`); which methods may be next with which candidate,
  stage and rollover phase (`Fences`); every request of the host's own belongs to
  the active worker or the candidate, and is of the kind the stage calls for
  (`Owners`, `Conversation`); from the first replayed entry to activation nothing
  is in flight and the journal is not sealed (`Quiescence`); and a candidate's
  session is a prefix of the journal, empty before the first entry, and complete at
  activation (`SameSession`). The last is the reason for much of the others: the
  journal must not move under a candidate that replays it, and it does not
  because only an answer to an invocation in flight moves it.

`HostInv` is `Typed` and `Coordinated`. From it follow `HostTypeCorrect`
(`TypeOK`), `InvocationsPinned` (`GenerationPinned`), `CatalogsCoherent`
(`CatalogCoherence`), `FenceCaused` (`FenceHasCause`), `ConversationsOwned`
(`ConversationOwned`) and `SessionsReplayed` (`SessionPrefix`). Two more
invariants rest on it: `Contracted` (an invocation is pending as convergent only on the word of some
catalog) for `RepeatedAreRepeatable` (`OnlyRepeatable`), and `KeptOnce` (a
request is in the kernel, in hand, or the refresh that waits, in one of these
only) for `NotAnsweredTwice` (`NoSecondReply`), which alone would not survive the
step that answers one of two copies.

`SessionProofs` is about the session as a whole, from the same assumptions. It
first splits the steps of the host: the `Eventful` ones receive, answer, send,
publish or hand over, and the `Quiet` ones do nothing of the kind
(`QuietOrEventful`).

- `OnlyListsForgotten` (`ForgottenAreLists`). What the host holds of requests is
  in three places: the kernel, the frame in hand, and the refresh that waits, which
  is a `tools/list` by its type. All steps but one carry over what is in the
  first two, or answer it (`Carried`); that one is a queued list that meets no
  catalog (`RouteRemembers`).
- `HostImplementsSessionLaw` (`ImplementsSessionLaw`). `HostInv` says which
  conversations a candidate is in, and not *which* candidate it may be, so that
  a further invariant is needed (`Succession`): a candidate for recovery is of the
  generation to be recovered, one for a rollover reads the state of the incumbent,
  only a live session is sealed, and what is about to be activated is behind the
  fence with an unsealed journal, or the session has not begun. Activation comes many
  events after its release was chosen, and by then nothing else says why it may
  take over. Then each eventful step is one
  action of the law: client frames and flushes are `Accept`, `Dispatch`,
  `Replay`, `Answer` or `Fence`, answers are `Respond` or `Learn`, `LoseActive`
  is `Lose`, `ActivateCandidate` is `Cutover`, or `Resume` after a loss as `StartRecovery` is
  in a cold session, and a quiet one at most moves the fence. The step for answers is where the journal's
  compaction has to be the one of the law (`WithoutIsCompacted`).
- `HostKeepsInvocations` and `HostImplementsInvocationLaw`. The steps of the host
  are steps of the kernel (`HostUsesKernel`), so that the kernel's theorems, of
  invariants, of steps and of its refinement, hold in the host. The host thus
  implements both laws, `SessionLaw` for the session and `InvocationLaw` for
  each invocation in it.

`HandoffProofs` proves `SingleReader` (`OneReader`), `ReaderUpToDate`
(`SessionContinuity`) and `SessionKept` (`SessionSurvives`) from
`HostsAssumption`: finitely many hosts, each with a session and a release. The
argument is about the *holder* of a session, the process that reads its stream or
will again if the handoff it is blocked in comes to nothing. `Lineage` orders
the hosts of a session by who spawned whom; `Protocol` ties the phase of an
incumbent to the phase of its successor and to the bytes on the socket between them;
`Capsules` and `Hydration` tie the file of a handoff, and what was loaded from it,
to the state of the process that wrote it. Then `OneHolder`, `HolderCurrent` and
`SomeHolder` are inductive. The exception of a LIVE that crosses the deadline
is the one the properties have, and it is needed in every case where an incumbent
takes the stream back.

`WorkerIoProofs` proves `AdmittedRequestsFit` (`RequestsFit`) from
`CapacityAssumption`. The claim is about the mailbox, and the reason is elsewhere:
nothing in the mailbox's own bookkeeping keeps its requests below its capacity.
The inductive invariant is therefore a conservation law over the whole ring.
While the host has the worker, the requests in its hands, in the mailbox, with
the writer and in stdin, the one the worker is at, and the answers in stdout,
with the reader and in the event queue are together no more than `pending`, and
`pending` is no more than `PENDING_CAPACITY`. It starts with lemmas about
counting the frames of one kind in a queue (`CountAppend`, `CountTail`); each step
then moves a frame from one place to the next, or loses some.
On top of it the module proves `FramesInOrder` (`NothingMissing`). A frame's
number is its rank among the frames that are handled, queued, with the reader and
in the pipe; each step keeps the ranks (`EventAppended`, `EventGone`). What has to
be added (`TaskOver`) is that the task is over before it says so and takes the
worker with it, so that no frame is read behind WorkerGone and none is written
once the output is at its end.

`FrameReaderProofs` proves four theorems from `FramingAssumption`, for streams of
any length; the run has six bytes.

- `ReaderTyped` and `MemoryBounded` (`BoundedMemory`). The invariant is the type
  and the bound together: a timed reader reads only when it has less than a line
  (`Pending`), and compacts first, so that what is left in front of the new chunk
  is a line and less than the compaction mark.
- `FramesFaithful` (`Faithful`). The invariant (`FrameInv`) speaks of one place in
  the stream, `Position`. What a reader holds, in whichever of its fields, is what
  lies between there and what it has taken (`Held`), so that compaction, reading
  and a new process image leave the place where it is. The place is a boundary
  of lines, and what has been returned is the frames that end up to there, each
  at its place (`Covers`); or the stream has ended behind a last frame without a
  delimiter (`Rests`); or the reader has failed, in front of more than a line
  without a delimiter (`Stuck`). What is written later changes none of that
  (`CoversStays`), and a line taken moves the place to the next boundary
  (`CoversLine`). Neither the frames nor their order is defined by recursion, so
  that no induction over the stream is needed.
- `FramesRoundTrip` (`RoundTrip`). The same notions describe what the writer has
  written (`Recorded`): `write_frame`'s checks make each payload a line that reads
  as itself. So what is written is `FramesOf` the stream, and the first theorem
  says that this is what is returned.

`OperationsProofs` has the theorems about the three operational surfaces, each
from the assumption on its own constants.

- `BooksBalance` (`Balanced`), from `LedgerAssumption`. The bound on the mean is
  the step that needs care, as it is not linear (`MeanBelowMaximum`). That the
  counters are numbers is part of the invariant.
- `TotalsAggregate` (`Aggregated`), for any set of methods. A sum is the number of
  times that a method has counted (`Counted`), so that a call which raises a
  counter adds one element to a finite set (`OneMoreCounted`), and no induction
  over the methods is needed.
- `RecordsBounded` (`BoundedRecords`) and `CountsWritten` (`CountedAreWritten`),
  from `LogAssumption`, for any number of logs, processes, events, failures and
  kills. Who works on the file has it locked as long as its process runs
  (`FileOwned`); the record under way has been put as far as the end of the file
  says, and its rest has room (`RecordUnderWay`). A write then makes no cell
  torn (`WriteKeeps`), and another step at most one, the last, if it is a
  failure or a kill (`FileKept`). The proof uses the lock on the file only: the
  mutex of the process is not what keeps records apart. `CountersFollow`
  strengthens `CountedAreWritten`, which alone does not say that an event whose
  flush failed is not counted.
- `ReadyIsWhole` (`ArmedIsComplete`), from `WatchAssumption`. A file that is
  written to grows, and no inode comes back but that of the executable that was
  started; so a candidate that is still the file at the path has been so since
  the last write, and is no older than the pause of the one that writes
  (`CandidateKnown`). Here the proof needs `MaxPause < SettleTime`, and nowhere
  else: it is what the settling time rests on.

Left to TLC: liveness and the fairness it needs, as there is no prover for
`ENABLED`. Every invariant, action property and refinement of a passing run is
proved. `NothingForgotten` and the other properties of the violated runs are false
of `Supervisor!Spec`, and what is true in their place is a theorem where it is a
matter of safety.

No module declares a recursive operator.

## Not modelled

- **Cancellation routing** that succeeds changes no state of the host. `ClientEnd`
  is in `WorkerIo`; in `Supervisor` a client may fall silent but does not leave.
- **Release files, manifests, digests, permissions**: whether a release can be
  read and verified is a choice of the environment.
- **JSON parsing and classification of one payload, normalization, rendering,
  projection, derive macros, value types**: sequential data conversions, in which
  no order of events plays a part. A model of one would restate it.
- **Reports**: health snapshots, the contents of telemetry records and the ranking
  of hot paths, which are computed from the state that is modelled.
- **The journal's byte limit**: a journal that reaches it is sealed, as one that
  reaches its limit of transitions is.

## Plan

1. Done: `ReplayLaw`, `HostKernel`, `InvocationLaw`, `HostSnapshot`,
   `EffectContract`, `Supervisor`, `Handoff`, `FrameReader` and their runs.
2. Done: type correctness and the safety theorems of the kernel.
3. Done: `WorkerIo`, the ring of queues between client, host and worker, and the
   theorem that a mailbox as large as the pending limit has room for requests.
4. Done: `OperationalLedger`, `TelemetryLog` and `ReleaseWatch`, and the theorem
   about the ledger's books.
5. Done: the refinement of `InvocationLaw`, what `restore` accepts, the order of
   recovery, the theorems about the handoff, and the invariant of the supervisor
   with the theorems that rest on it.
6. Done: the theorems about the telemetry log and the watch for a successor.
7. Done: the order of a worker's frames and what the frame readers return, stated
   without recursion, and the theorems about both.
8. Done: the same for the ledger's totals.
9. Done: `SessionLaw`, that the host implements it, what it may forget, and the
   theorems of the kernel in the host.
