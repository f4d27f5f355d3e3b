# Workshop Terminal: verification project

Workshop Terminal (WT) is one app instance per workshop attendee.  It runs the
attendee's coding-agent terminals and captures what the attendee did.  Control
Tower (CT), a separate service, polls every instance, commits the captured
outputs on its side and acknowledges them; at the end of a workshop it closes an
instance and asks for a sealed inventory.

This project specifies in TLA+ what must not lose, double or reorder captured
output (the journal, delivery, closeout), and what keeps an instance running (the
supervisor, the event's deadline, the terminals and what survives a restart of
them, the Omnigent host and the token it authenticates with, the reconciler that
hands the attendee what their agents made), how CT's policy for the models reaches the
agents' files, and how a call for help reaches CT.  TLC checks it on
small instances; TLAPS proves the central safety properties for every instance.

Contents: [components](#components), [modules](#modules), [the capture
journal](#the-capture-journal), [event delivery](#event-delivery),
[closeout](#closeout), [the container](#the-container), [the Omnigent
host](#the-omnigent-host), [the entitlement reconciler](#the-entitlement-reconciler),
[the help outbox](#the-help-outbox), [runs](#runs), [proofs](#proofs), [disagreements with the
source](#disagreements-with-the-source), [limits](#limits), [plan](#plan).

## Components

Everything is under `server/` unless a path says otherwise.

### Capture journal (`capture_journal.py`, `capture.py`, `capture_io.py`) - modelled in part

State on storage: immutable operations `<revision>.json`, each with the hash of
its predecessor, a JSON patch and the digest of the state it leads to; optional
checkpoints.  Storage only offers list, read and create-if-absent; a create that
meets an existing object is the only way one container learns about another.
State in the process: `_state`, `_durable_state`, `_revision`, `_head_hash`,
`_pending`, two locks (`_lock`, `_flush_lock`), a flusher thread.

Operations: `transaction` (accepted in memory at once), `transaction(durable=True)`
(answers only once retained), `flush`, `close`, `read`/`peek`, `audit_snapshot`.
Producers call `transaction`; every barrier in the system is a `flush`.

Hard: storage I/O outside `_lock` while producers accept; two containers during a
redeploy; creates whose outcome is unknown; reads that fail half way; crashes.
Correct: the retained history can always be read back; an accepted change is
retained exactly once or its loss is visible; nothing published is lost.

### Event delivery (`event_emitter.py`, two endpoints of `admin.py`) - modelled in part

State: the `insight` part of the journal's state: stream id, sequence number,
events, keys, acknowledged prefix, issues; a bounded unacknowledged backlog.
Operations: `emit_transaction`, `collect`, `acknowledge`, `delivery_status`, and a
push mode (`drain`).  Interacts with CT over HTTP, and with storage through the
journal's barriers.

Hard: CT reads, commits and acknowledges in three unrelated requests, any of which
can be lost; the process may die, or another container take over, in between.
Correct: a delivered sequence number keeps its content; nothing is released
unread; an acknowledged prefix is not delivered again; an empty page is honest.

### Closeout (`closeout.py`, `closeout_guard.py`, `closeout_outputs.py`) - modelled in part

State: the `closeout` part of the journal's state: phase (OPEN, CLOSING,
INCOMPLETE, SEALED), reserved writers, drain deadline, the finalizer's lease,
manifest.  Operations: `begin`, `advance` (drain, claim, final outputs, audit,
seal, release), `status`, `entries`; `WriterTicket` reserve/finish;
`authorize_mutation` on every transaction.  Hard: CT drives it by repeated
requests against any container; leases expire during a long audit; producers are
still finishing.  Correct: a sealed manifest describes exactly what is retained,
one finalizer at a time changes content, no new producer gets in after `begin`.

### Help outbox (`help.py`, two endpoints of `admin.py`) - modelled in part

State: the `help` part of the journal's state (sequence, outbox, history,
acknowledged prefix) and one shared in-flight flush barrier.  Operations: the
attendee's requests (raise, lower, message, vote, ask for a person), CT's replies,
presence and acknowledgement; each changes memory and then gives the journal a bounded
time.  Hard: requests that share a flush begun before them, a store that fails or hangs,
answers and acknowledgements lost on the way, crashes that take numbers back.  Correct: who
is told "retained" is; nothing leaves the outbox unread; CT reads everything, even from
memory that no store takes.  Its messages carry no key, which is why an ambiguous
create can double them (see below).

### Terminal sessions (`sessions.py`, `session_store.py`, `ws.py`) - modelled in part

State: the registry (one slot), each session with its PTY's descriptor, process,
reader thread, exit flags and lifetime ticket; the sockets' bounded queues; the
journal of session metadata on disk and the ghosts read from it at startup.
Operations: create, attach with replay, the reader, terminate (by a request, the
reaper, the drain or the reader), the reaper's and `update_project`'s refreshes,
`acknowledge_prior`, `configure_store`.  Left out: input and prompt delivery,
resizing, how the scrollback is trimmed, failed journal writes (fail-soft),
the rate limit on kill notices, the verification loop of `drain_for_closeout`.

Hard: three threads end one session while a descriptor number is reused; output is
read before the loop delivers it; a refresh measures before a close removes; the
server may die between any two steps.  Correct: a session is torn down once and its
own PTY is closed, each output is shown once, the lifetime ticket ends, what was
live at a crash is shown as ended, and what was closed is not.

### Supervisor (`supervisor.py`) - modelled in part

State: the child, the restart and shutdown timers, the deque of restarts, the count
of quick deaths, the pending signals.  Operations: the loop (`run`), spawn, the
answers to SIGCHLD and to a stop, the deadline.  Left out: the forwarding of other
signals and of the sender's description, logging, how `classify_sender` reads
`/proc`.  Correct: a crash loop is given up, isolated crashes are not, a stop ends
in time, nothing inside the app stops the app.

### Recovery and event deadline (`event_deadline.py`, `selfheal.py`) - modelled in part

`event_deadline.py`: an override on disk, written by CT's extensions, in memory, and
bound to the deadline of the deployment.  `selfheal.py` appears as the `Recover` of
the token mirror, without its cooldown.  Correct: an answered deadline is never
undercut, by a crash, a failed write or a deployment.

### Credentials and on-behalf-of tokens (`obo.py`, `credentials.py`, the writers of `cli_config.py`) - modelled in part

`obo.py`: tokens arrive with requests in any order; the newest is the record and is
mirrored to a file, and whoever writes it notifies the Omnigent worker.  Left out of
it: the creation of the home (`user_ready`), the watcher, health and telemetry.
`credentials.py`: the app's own bearer.  State: the bearer held, its health and when it
was validated, the thread that probes it, the lock around a probe, the attendee's token
file with the revision that orders its writes.  Operations: the thread's heartbeat, a
probe (acquire, force a mint, validate, adopt, fan out), `token()` of a request with its
emergency PAT, and the writes of requests (`update_tokens`, `configure_all`).  Hard: who
writes the file last.  Correct: the agents never read an expired bearer.  Left out: how
the app's identity is set up and the identity endpoints are read, alerts, status, and the
agents' other configuration files.

### Omnigent host supervision (`omnigent_remote.py`) - modelled in part

State: a worker thread, its wake event, the host process and where it is published,
the flags of `stop()`.  Operations: `notify`, the worker's loop (token check, spawn,
run, stand down, backoff), `stop`.  Left out: process groups and the drain of the
output pipe, readiness, an unexpected exception in the worker.  Correct: a fresh
token brings the host up, a stop that reports success left nothing behind.

### Entitlement reconciler (`entitlements.py`) - modelled in part

It hands resources that the app's service principal made over to the attendee.
State: the schedule (`_next_attempt_at`, the backoff, idle), a cache of lists per
adapter with invalidations and retry times, baselines of the adapters that cannot
tell when a resource was made, a ledger of what was handed over, failures per
adapter.  Operations: `start`, `wake`, the loop, `reconcile`, one pass at a time.
Left out: the grants to the apps' own principals and `attendee_app_group.py`, the
catalog's grants one by one, several attendees, `stop`, status and telemetry.

Hard: wakes land while a list is in flight or while the pass chooses its next time;
callers queue behind a pass that is told to hold back; lists and grants fail one by
one; permissions are taken away and resources deleted meanwhile.  Correct: a cached
list is not older than the last wake of its adapter, a backoff is a floor for all,
a wake is served, nothing from before the run is granted, and what the run made is
granted in the end.

### Model policy (`model_policy.py`, `admin.py`, the writers of `cli_config.py`) - modelled in part

State: the retained policy (its revision), `PolicyStore._snapshot`, the configuration file
of each agent with the policy it follows, `cli_ready`.  Operations: CT's put with its
refresh of the files that exist, `configure_all` and the first-run writes of
`update_tokens` by requests that prepare a launch; each works on one snapshot
(`read_operation`) and fails, clearing `cli_ready`, if the policy changed meanwhile.

Hard: a refresh and several launches write the same files; the put is retained but its
refresh fails, or its answer is lost, and CT repeats it; the server dies between the two.
Correct: what CT was told is verified is what ready agents are configured by.  Left out:
journal faults within an operation, the refusal while the workshop closes, the local cache
file of the policy, a second container, several attendees, and what a policy says beyond
which agents it serves.

### Not planned

Identity and attendee state, discovery and telemetry, wizard and
projects, readiness and diagnostics, bootstrap and content installation, routes,
the frontend, scripts.  They are request-local decisions, formatting, network or
file I/O, or producers whose output is an arbitrary member of a set in the
delivery model.  `attendee_state.py` (read-modify-write under a file lock) and
the wizard's revisioned save may get small modules later.  `PROJECT.json` lists
the reason for each.

## Modules

| Module | Models | Extends |
| --- | --- | --- |
| `CaptureLedger` | what retained capture promises its readers: the abstract specification | |
| `CaptureJournal` | the journal over its store, any number of containers | |
| `CaptureJournalInv` | the inductive invariant of the journal | `CaptureJournal` |
| `CaptureJournalProofs` | theorems about the journal | `CaptureJournalInv` |
| `LedgerProofs` | no loss, once, and the journal implements the ledger | `CaptureJournalProofs` |
| `EventDelivery` | emission, collection and acknowledgement over the journal's interface | |
| `Closeout` | the guard, the writers' tickets, the closeout manager and its final outputs, over the journal's interface | |
| `Supervisor` | the parent of the server process: restarts, signals, the shutdown deadline | |
| `EventDeadline` | the override of the event's deadline, on disk and in memory | |
| `TerminalSessions` | sessions, their threads, sockets and journal | |
| `ModelPolicy` | CT's policy for the models, and the configuration files that follow it | |
| `HostProcess` | one container: the four above, and what a crash or a deployment does to them | `Supervisor`, `EventDeadline`, `TerminalSessions`, `ModelPolicy` |
| `OboMirror` | the attendee's token: record and mirror | |
| `OmnigentHost` | the worker that runs the Omnigent host while the mirror is fresh, and `stop` | `OboMirror` |
| `Entitlements` | the entitlement reconciler, its passes and its schedule | |
| `HelpOutbox` | raise-hand and its messages, from a request to CT, over the journal's interface | |
| `Credentials` | the app's own bearer, from the SDK to the attendee's token file | |
| `ServerWorkers` | what works in the background of one server process | `OmnigentHost`, `Entitlements`, `HelpOutbox`, `Credentials` |
| `Induction` | induction over the natural numbers, for what functions compute | |
| `DeliveryProofs` | theorems about event delivery | `EventDelivery`, `Induction` |
| `CloseoutProofs` | theorems about the closeout | `Closeout`, `Induction` |
| `HostProofs` | theorems about the container | `HostProcess`, `Induction` |
| `BackgroundProofs` | theorems about the Omnigent host with its mirror, and about the reconciler | `OmnigentHost`, `Entitlements` |
| `WorkersProofs` | theorems about the help outbox and the bearer; what holds of one worker holds of the server | `ServerWorkers`, `BackgroundProofs` |
| `MCCaptureJournal`, `MCEventDelivery`, `MCCloseout`, `MCHostProcess`, `MCServerWorkers` | values of the constants for TLC | the module they check |

`CaptureJournal` implements `CaptureLedger` (`ImplementsLedger`).  `EventDelivery`,
`Closeout` and `HelpOutbox` take the journal at the interface `CaptureJournal` justifies: what is pending is
retained in order, as a prefix; an unconfirmed create leaves it pending; a process
whose history another one extended replays what is pending on top; a crash leaves
what is retained.  Composing the two state machines in full would multiply a
million journal states with the delivery states and would show nothing more: the
delivery protocol and the closeout do not see revisions, plans or checkpoints.

Definitions whose comment starts with "Mutant of" are faulty variants of the
definition after them.  No specification uses them; each shows that one property
is sensitive to a plausible bug.

## The capture journal

### State

| Variable | Code |
| --- | --- |
| `store`, `checkpoints` | operation objects and checkpoint objects |
| `seen[p]` | `_revision` + 1 (0 before the first load), with `_head_hash` |
| `live[p]`, `durable[p]`, `pending[p]` | `_state`, `_durable_state`, `_pending` |
| `closed[p]` | `_closed` |
| `pc`, `goal`, `tries`, `steps`, `done` | where the holder of `_flush_lock` stands: its durable mutator, loop counter, `_append_steps` plan and progress |
| `accepted`, `refused`, `lost`, `published` | ghosts for the properties |

A *change* is a call of `transaction`.  The JSON state is the sequence of changes
that took effect, a patch the suffix it adds, a state digest the state itself.
`Keyed` changes find their own effect and do nothing the second time (emitted
outputs); the others do not (help messages).  `Closing` and `Control` stand for
what `authorize_mutation` tells apart.

### Actions

| Action | Code |
| --- | --- |
| `Load` | `_ensure_loaded`, `_refresh` from a checkpoint or from revision 0 |
| `Accept` | `_transaction_in_memory` |
| `FlushBegin`, `FlushSnapshot`, `FlushReturn`, `FlushContention` | `flush`, one iteration of `_flush_locked`, its return and its retry limit |
| `AppendCreate`, `AppendFails`, `AppendConflict`, `AppendDone` | `_append_steps`: one create, a failure, an occupied revision, the end; `Commit` is its `finally` |
| `RebaseLoad`, `RebaseReplay`, `RebaseDone` | `_rebase_locked` |
| `DurableBegin`, `DurableLock`, `DurableRefresh`, `DurableCreate`, `DurableConflict`, `DurableContention` | `transaction(durable=True)` and `_transaction_retained` |
| `Close` | `close` |
| `Crash` | the container dies; a fresh one starts |

What runs under `_lock` and meets storage is several steps only where other
containers can interfere: `Locked(p)` keeps this container's producers out
meanwhile.  A create and its readback (`_create_resolved`) are one step with the
four outcomes the pair can have: created, refused, failed without an effect,
failed with the object in place.  A refresh is one step that may stop after any
operation, because `_refresh` advances `_revision` and `_state` one at a time.

### Properties

- `HistoryReplays`: every retained operation's patch leads from its predecessor's
  state to the state it was committed with.  Breaks when two containers' operations
  interleave wrongly, or memory is ahead of the revision it claims.
- `CleanOrBehind`: memory is the retained revision plus what is pending, or the
  process is behind the store, so its next create is refused.  This is what saves
  the history from a half-finished refresh.
- `NeverHeld` (proved, not in a run): no load and no durable transaction meets a digest that fails, which
  holds capture for good.
- `NoSilentLoss`: an accepted change is retained, pending, refused by a foreign
  history that closed the workshop, or went down with its process.
- `KeyedAppliedOnce`: a keyed change accepted by both containers, rebased, or
  retried after an unconfirmed create takes effect once.
- `ImplementsLedger`: retained history only grows at its end, nothing but control
  follows a close, and what a barrier let a caller publish is retained, whatever
  crashes.
- `AcceptedSettles` (liveness): what is accepted is retained, refused or lost with
  its process, also under contention and after failed creates.

## Event delivery

### State

| Variable | Code |
| --- | --- |
| `retained`, `live` | the `insight` state in storage and in memory: stream, events by sequence number, acknowledged prefix, issues |
| `pending`, `replay`, `behind` | the journal's pending mutators, those a rebase still has to replay, whether storage has operations not loaded |
| `get`, `page`, `ack` | a collection request, its answer on the way, an acknowledgement request |
| `ct`, `delivered` | CT's cursor, and what it committed (external) |
| `released`, `accepted`, `attempted` | ghosts |

One container is modelled in full; `Foreign` is another one during a redeploy that
retains an output first.  An output is an envelope without its time; `KeyOf` gives
its logical key, and two outputs may share one, as a revised summary and the
summary it contradicts.

### Actions

`InitializeStream` (`_initialize_stream`), `Emit` (`emit_transaction`, with the
refusals it records as issues), `Retain`, `RetainUnconfirmed`, `Rebase`, `Replay`
(the journal), `GetBegin`/`GetFlush`/`GetCollect` (`collect_insight_events`: the
request, its barrier, and `collect`, which are separate steps because producers run
between them), `PageLost`, `CTCommit`, `AckBegin`/`AckApply`/`AckAnswer`
(`acknowledge_insight_events`: `acknowledge`, then the barrier), failures of either
request, `Crash`.

CT is modelled from how the endpoints are meant to be used (their docstrings and
the validation they do): it asks from the cursor of the pages it committed,
forgets the cursor when it is refused (422), and acknowledges positions it
committed, possibly late.

### Properties

- `FlushedStays`: an event committed from below its collection's barrier keeps its
  stream, position and content for ever.
- `ReleasedWasDelivered`: each acknowledged position was committed by CT, and with
  the content storage holds when it was read below the barrier.
- `AnsweredAckStays`: an answered acknowledgement survives every crash and rebase,
  when all that memory acknowledged at that moment had been read below the barrier
  (`ack.sure`).  The proof needed this premise: it is not enough that the acknowledged
  prefix itself was read below the barrier, at instances larger than the run's.
- `BacklogBounded` (proved, not in a run): the backlog never exceeds `max_buffer`, in memory or storage,
  also when a rebase moves pending events over another container's.
- `EmptyPageIsComplete`: an empty page means CT has committed every output
  attempted before it asked; a refused output turns the page into a 503.
- `AcceptedIsDelivered` (liveness): every accepted output reaches CT, through lost
  pages, failed requests and unconfirmed creates.

The first three are restricted to what was read *below the barrier* because the
code does not give them for the rest: see `NeverReissued` below.

## Closeout

### State

| Variable | Code |
| --- | --- |
| `retained`, `live` | the journal's state in storage and in memory: the `closeout` record (phase, reserved writers, failed writers, the finalizer's claim, manifest, `outputs_complete`), the prepared final outputs, the captured outputs, whether an acknowledgement has advanced |
| `pending`, `behind` | mutations accepted but not retained; whether storage holds operations not loaded |
| `adv[p]` | where `advance` stands in container p, and its locals: `drained`, `claim_id`, `result`, `audited_state` |
| `lease`, `drainLeft` | time left of the retained claim (`expires_at`) and of the drain (`drain_deadline`) |
| `writer[w]` | where a producer stands, and the container it runs in |
| `answered`, `lost` | ghosts |

`Initial` is the state before any closeout; a capture's content is the set of its
outputs.  The two deadlines are timers that one `Tick` counts down together, so
that each may run out between any two steps.

### Actions

| Action | Code |
| --- | --- |
| `Reserved`, `Produce`, `FinishWriter` | `WriterTicket`: reserve, an output under the ticket, `finish` |
| `Begin` | `begin`, first or repeated |
| `AdvanceBegin`, `Resume`, `Drain`, `RecordDrain`, `TakeClaim` | `advance` to the claim, one action per durable transaction and per read of memory |
| `PrepareFails`, `PrepareFinal`, `EmitFinal`, `FinalizeDone` | `finalize` |
| `Audit`, `Renew`, `Seal`, `Release` | the rest of `advance`, with the `finally` that releases the claim |
| `DurableFails` | a durable step of `advance` raises; what it was to retain landed or not |
| `Flush`, `FlushUnconfirmed`, `Ack`, `Crash`, `Tick` | the journal's flush, `acknowledge`, a container that dies, time |

`Admits` is `authorize_mutation` with the mutators' own refusals.  It is asked when
a mutation is accepted, against the memory of its container, and again when a
rebase replays it over what another container retained (`Replayed`); the claim of a
finalizer is also compared with the clock each time.  What the drain of local
processes finds is a free choice (`closeout_writers.py` stops processes and reads
`/proc`).  `Quit` is an exception: through `Release` when a claim is held.

### Properties

- `SealedMatchesContent`: the manifest of a sealed closeout lists exactly the
  retained outputs, with nobody admitted, nobody failed, and all final outputs
  there.  It breaks, for example, when a lease expires between the final outputs and
  their flush (the replay refuses them) and the seal does not look at the lease.
- `SealIsFinal`: only acknowledgements change a sealed state, whichever containers
  repeat requests, flush late or still run a finalizer.
- `FinalOutputsAgree`: all final outputs come from the one retained preparation,
  also when a container lost its claim with its own preparation still in memory.
- `ContentIsFenced`: after the close, storage takes content only from writers it
  knows as admitted and under a retained claim.
- `SealedCoversAnswered` (one container): a sealed inventory leaves out nothing a
  producer was told is accepted, but what was in memory when the container died.
- `CloseoutDecides` (liveness): a closeout that began becomes SEALED or INCOMPLETE,
  also when the finalizer dies with its claim or a storage call fails.

With two containers `SealedCoversAnswered` does not hold, and is not claimed: a
writer reserved only in the memory of the other container is unknown to storage
when the close begins; the rebase refuses its reservation and its outputs, and its
ticket can no longer be finished.  Nor does it hold without `Prompt`: what a finalizer emits
after a flush that landed unconfirmed is refused by the replay once its lease is over.

Every rebase is replayed as a whole (`Applied`, `Replayed`): it runs under `_lock`, and a
mutation that is refused leaves the state as it is.

## The container

`HostProcess` composes the supervisor, the deadline, the terminals and the model policy:
the supervisor's child is the server; when it ends (`ServerDies`), what the deadline,
the terminals and the policy keep in memory ends in the same step, and what they keep on
disk or in the journal does not.  The next server reads it back (`Startup`, `DeadlineLoad`).  When the supervisor
ends the platform deploys again over the same disk (`Deploy`), perhaps with another
deadline.

### State

| Variable | Code |
| --- | --- |
| `status`, `child`, `uptime`, `restartIn`, `deadlineIn`, `killed`, `quickDeaths`, `restarts` | the locals of `supervisor.run`, absolute times as time left |
| `stopSignal` | the kernel's pending SIGTERM or SIGINT, with its sender |
| `record`, `loaded`, `override`, `applying` | the deadline's file, `_loaded_key`, `_event_ends_at`, an `apply` between the file and memory |
| `registry`, `session[s]` | `_sessions`; a `Session` with the threads that create, read and terminate it |
| `owner[d]` | the kernel's descriptor table: whose master is behind a number |
| `persister[p]` | a refresh of the session journal under way: the reaper's, `update_project`'s |
| `sock[q]`, `ready[q]` | a socket, its queue and its pump; the event loop's callbacks that put into it, in order |
| `journal`, `ghosts` | `session_store`'s entries on disk, `_prior` |
| `stored`, `recalled`, `snapshot` | the policy in storage, in the journal's memory, in `PolicyStore._snapshot` |
| `file[a]`, `cliReady` | the policy that agent a's configuration file follows; whether `cli_ready` names anybody |
| `writer[t]` | a request: where it is in its read operation, its snapshot (`base`), the files it has still to do, what it puts |
| `stopAge`, `deaths`, `promised`, `blind`, `owed`, `acknowledged`, `settled`, `told`, `undone` | ghosts for the properties |

### Actions

| Action | Code |
| --- | --- |
| `Spawn`, `SpawnFails`, `HandleChild`, `HandleStop`, `HandleDeadline`, `Tick` | the supervisor's loop |
| `ServerExits`, `SendStop` | the server's death, a stop from the platform or from inside |
| `DeadlineLoad`, `DeadlineLoadFails`, `ApplyWrite`, `ApplyFinish`, `ApplyFails`, `ApplyAgain` | `_load_locked`, `apply`: the file, then memory; the chmod that fails between |
| `Create`, `CreateMeasure`, `CreatePersist`, `CreateAssign`, `CreateStart` | `create`: the slot and the PTY under the lock, then the journal, then the reader thread |
| `ReadOutput`, `DispatchOutput`, `LoopPut` | `publish_output` under the session's lock, the hand-over after it, the loop's `put_nowait` with its overflow signal |
| `OpenSocket`, `Attach`, `SendReplay`, `SendMessage`, `Disconnect` | the terminal socket: lookup, `attach_with_replay`, the replay, the pump |
| `Claim`, `MarkExited`, `FanOutAndKill`, `JoinReader`, `RemoveRecord`, `ReportExit`, `FinishAfterExit` | `terminate`, one action per lock section |
| `ReadEnds`, `ReaderCloses`, `ReaderFinishes` | the end of `_reader` |
| `ListLive`, `SkipExited`, `Measure`, `Upsert` | the reaper's and `update_project`'s refresh |
| `LoadPrior`, `AcknowledgePrior` | `configure_store`, `acknowledge_prior` |
| `Put`, `ApplyPolicy`, `PutFails`, `Relearn` | CT's put and `PolicyStore.apply`: stale, repeated or new; a transaction that fails, perhaps after its create landed; the journal's memory catching up |
| `Ensure` | `ensure_user_credentials`: `configure_all`, or the missing files of `update_tokens` |
| `Open`, `Resolve`, `Write`, `MarkReady`, `Check` | a read operation: its snapshot, the look at it for each file, the file, `cli_ready` (twice in a launch: `update` after Codex's file, `add` after Omnigent's), the comparison at the end; `Raises` is the decorator's `except` |
| `PolicyStops` | the server ends; `configure_capture` of the next one |

### Properties

- `RestartsBounded`: no window holds more than `MAX_RESTARTS` deaths answered by a
  restart, whatever was pruned from the deque before.  It counts deaths, not spawns:
  a delay may move a spawn into a later window.
- `EndsForAReason`: the supervisor ends only on the platform's stop or with a
  window's restarts used up.  `EndsWhenItShould`, which the run checks, is this and
  the one before.
- `StopIsBounded`: an accepted stop ends within the grace and the kill's grace,
  however often it is repeated.
- `ServerComesBack` (liveness): a dead server is restarted, or the supervisor ends.
- `DeadlineNotLowered`: a deadline that was answered is never undercut in memory or
  on disk, as long as no process failed to read it (`blind`).
- `DescriptorsAreOwn`: the number of a session whose master is not closed is its own
  PTY, and no reader reads from a number closed under it.
- `NoGapNoRepeat`: what a terminal has shown and what is on its way to it are all
  outputs since its replay, once and in order, or it is told to reconnect.
- `NobodyStaysBehind` (liveness): a terminal that lags, or shows a session that
  exited, catches up or closes.
- `GhostsCoverCrash`: a session live and recorded when the server died is shown as
  ended by the restart, until it is dismissed.
- `ClosedStaysClosed`: a session whose record was removed, with no refresh of it
  under way then, is never such a ghost.
- `VerifiedIsInForce`: with no request under way, ready agents are configured by the policy
  that CT was last told is verified, or a later one.  Excepted is a file that an older
  operation wrote over and gave up on before the launch whose file it was had marked its agents
  ready for the last time, until that file is written again (`undone`), see
  [below](#disagreements-with-the-source).  An older operation that writes over it and is still
  under way, or fails after the last mark, is not excepted.
- `LifetimeTicketEnds`: when the reader and the thread that terminated a session have
  both passed the point where they end its ticket, one of them has.

## The Omnigent host

### State and actions

| Variable | Code |
| --- | --- |
| `record`, `written`, `mirror` | `_ObUser.token`, `written_token`, the token in the file (any at the start: it outlives the process) |
| `writer[w]` | a request between `capture`'s reading of the clock, the manager's lock, the locks of the write, and `notify` |
| `worker` | where the thread is in its loop; `wake` its event |
| `stale`, `proc`, `published` | `stale_since`, the process, whether `stop()` would find it |
| `stopping`, `stopped`, `stopper`, `target`, `issues` | `_stopping`, `_stop_finished`, where `stop()` stands, what it took, what it will report |

| Action | Code |
| --- | --- |
| `Arrive`, `Decide`, `WriteMirror`, `WriteFails`, `Recover` | `obo.capture`, `_capture`, `_write_user`, its failures, `selfheal.recover` |
| `Notify` | `RemoteHostManager.notify` |
| `CheckStopping`, `ClearWake`, `CheckToken`, `CheckTokenAgain`, `Wakes` | the head of the worker's loop: the event is cleared before what it announces is looked at |
| `PrepareFails`, `BeginSpawn`, `Popen`, `PopenFails`, `Publish`, `Cleanup` | provisioning and `_spawn` |
| `Watch`, `StandDown`, `ClearStood`, `CheckStood`, `Backoff`, `Resume`, `HostExits` | the run loop, the stand-down on a stale mirror, the restart delay |
| `CloseCapture`, `StopBegin`, `StopCollect`, `StopKill`, `StopJoin`, `StopFinish` | the closing of capture, `stop` |

### Properties

- `MirrorAdvances`: once this process has written the mirror or tried to, the file
  only changes to the newest token held, whichever request's thread writes it.
- `StopIsHonest`: a stop that reports itself complete has left no host process and no
  worker that could spawn one.
- `FreshTokenRunsHost` (liveness): a fresh mirrored token brings the host up, whatever
  the worker was doing when it came.  Its premise `mirror = written` leaves out a
  write that failed after the file was replaced: nobody is notified of that one.

## The entitlement reconciler

`Entitlements` is one manager in one process.  `ServerWorkers` puts it beside the
Omnigent host's worker and the help outbox: the server starts both workers
(`main.py:348`, `:370`) and serves the requests of the third, and they share
no variable, so a step of one leaves the others' state alone.  `WorkersAreEach` proves
that this composition allows each nothing new.

### State

| Variable | Code |
| --- | --- |
| `made`, `granted` | the workspace: resources that exist, resources the attendee can manage |
| `nextIn`, `deferred`, `idle`, `ok` | `_next_attempt_at` as time left, `_deferred_reason`, `_idle`, `_ok` |
| `cache`, `cacheLeft`, `retryIn`, `invalid` | `_enumeration_cache` (the lists, and the time left of each), `_cache_retry_at`, `_cache_invalidations` |
| `ready`, `baseline`, `ledger`, `errors` | `_baseline_ready`, `_baseline`, `_ledger`, `_adapter_errors` |
| `caller[c]` | a thread between the first check of the backoff and the lock |
| `pass` | the holder of `_reconcile_lock`: its place, the adapters it still has to visit, its list request (what was there when it began, its age, whether its adapter was invalidated since), what `finish` compares |
| `noted`, `floorIn`, `raised` | ghosts: resources that existed at a wake of their adapter, the time left of the last backoff, whether the last pass ended in an exception |
| `bounds`, `used` | the environment of a behaviour |

### Actions

| Action | Code |
| --- | --- |
| `Wake` | `wake`: pops what it invalidates, and makes an attempt due unless a backoff is on |
| `LoopAttempt`, `Request`, `Enter`, `EnterFails` | `_loop`, `reconcile` up to its lock, the second check of the backoff, no attendee or bearer |
| `ListBegin`, `ListEnd`, `ListFails`, `ListLimited`, `ListCached`, `ListHeld` | `_enumerate_resources`: the request, its response and its failures, a cached list, an adapter that is held back |
| `TakeBaseline` | `capture_baseline` and `_capture_missing_baselines` |
| `Catalog`, `CatalogFails` | the catalog's grants and their verification, as one step |
| `HandOff`, `HandOffLimited` | `_handoff_resources` for one list: what was granted before is verified, what is eligible granted, the rest left alone |
| `SweepLimited`, `SweepEnds` | the end of the adapters, with the failures of those that were not visited |
| `Defer`, `Record`, `Schedule` | `finish`: `_defer_backoff`, or `_record` and then `_schedule_pending_wake`, between which wakes come |
| `PassRaises` | the `except` of `reconcile` |
| `StartFails`, `Started` | `capture_baseline` without a bearer, `start` |
| `Make`, `Drift`, `Remove`, `TimePasses` | the workspace and the clock |

A list may hold anything that existed while it was requested, and has what existed
all the time.  The order of the adapters is arbitrary; a grant and its verification
are one step with the outcomes the pair can have.  The server wakes the reconciler
only for session starts (`main.py:1880`); `notify_resource_created` is an operation of
the manager that nothing calls, and is modelled too.

### Properties

- `CacheIsCurrent`: a list that a sweep may take from the cache has everything that
  existed when its adapter was last woken, also when the list was in flight then.
- `BackoffIsAFloor`: no pass runs before the delay chosen after a rate limit is over (what
  the platform asked for, cut at the cap, `entitlements.py:1926`), neither a caller queued behind the limited pass nor a wake.
- `WakeIsNotLost`: when no pass runs, the next attempt is due no later than the first
  invalidated adapter may be asked again, whenever in a pass the wake came.  Excepted
  are a backoff, and a pass that ended in an exception.
- `Converges` (liveness): again and again everything the run made is granted (or a
  late baseline took it for old) and the reconciler reports healthy; what somebody
  took away is granted again, and a failure does not outlive its cause.
- `OldStaysUngranted` (proved, not in a run): what was there before the run is not
  granted, however late a baseline is taken.

## The help outbox

`HelpOutbox` is one server process with its journal, and CT.  The journal is taken at its
interface: changes count as pending in memory until one flush at a time has written the
state it looked at.

### State

| Variable | Code |
| --- | --- |
| `help` | the help state in memory: `history`, whose length is `seq`, and `acked_through`; the outbox is what lies between |
| `kept`, `unkept` | the same in storage, and `pending_operations` |
| `flight` | the holder of `_flush_lock` and what it writes |
| `barrier` | `_barrier`: none, its thread flushing, or done |
| `flusher`, `flushError` | `_flush_loop` and `flush_error` |
| `asker[c]` | a request: where it stands in `flush_help_persistence`, what for, what memory held when it began, whether it was told `True` |
| `offered`, `filed`, `acks` | external: a presence answer on its way, what CT has read, acknowledgements on their way |
| `reissued` | ghost: numbers that CT had read or was offered and that a crash took back |
| `left` | the environment: what is left of its bounds, and whether the store is down |

### Actions

| Action | Code |
| --- | --- |
| `Post`, `Amend` | a request that adds an entry (`_enqueue`), and one that only changes the thread |
| `Ack` | `ack_outbox`, with its 422 for a number that was not given |
| `Poll`, `Respond` | `presence`: it flushes, then shows the first page of the outbox, whatever the flush came to |
| `Look`, `Timeout`, `BarrierDone` | a round of `flush_help_persistence`, its time running out, the shared flush returning or raising |
| `FlushLook`, `FlushLands`, `FlushFails` | `_flush_locked` by the barrier or the flusher |
| `FlusherWakes`, `FlusherNotes` | a round of `_flush_loop` |
| `Collect`, `LoseAck` | external: CT files a page and acknowledges its last number; an acknowledgement is lost |
| `HelpCrash` | the process dies, the next one loads what storage holds (`configure_capture`), possibly with the write under way |

Every answer and acknowledgement may be lost, and one that CT gave up waiting for may still
arrive later, after a crash too.

### Properties

- `ToldIsRetained`: a request that is told its change is retained has it in storage with
  everything before it, although it may have joined a flush that looked before it came.
- `DroppedIsFiled`: no entry leaves the outbox before CT has read it, whatever order
  polls, acknowledgements, flushes and crashes come in; excepted are numbers in
  `reissued` (see [below](#disagreements-with-the-source)).
- `HelpIsHeard` (liveness): as long as CT polls, it has read every message again and
  again, also when the store never takes one: no request waits for the store.

## The app's own bearer

`Credentials` is one server process and one attendee.  The SDK, the workspace and the
clock are external.  A tick is the time within which the thread's heartbeat comes round
and the probe it may begin ends (`patience`): the thread is never starved for longer.

| Variable | Code |
| --- | --- |
| `held` | `_token`, `_last_successful_at`, `_health` (what `_rotating` and `_source` say follows) |
| `expires` | external: `exp` of each bearer minted; `_expires_at` is that of the one held |
| `forcedAt`, `probedAt` | `_last_forced_refresh`, `_last_probe` |
| `rotation` | the maintenance thread: asleep, waiting for `_refresh_lock`, probing, or still the probe of `start()` |
| `probe` | the holder of `_refresh_lock`, how far its probe is and with which bearer |
| `client[c]` | a request: where it stands in `token()` and in the write, what it got, its revision |
| `attendee` | registered, `cli_ready`, `_credential_revision`, the token in the file |
| `excused` | ghost: an outage that is not over; a file that was left behind |
| `credit` | the environment: what is left of its bounds, whether there is a PAT, and who asks |

| Action | Code |
| --- | --- |
| `Heartbeat`, `RotationEnters` | `_tick`: on the slow cadence, or each time once expiry is near |
| `Authenticate` | the SDK's bearer, and `_refresh_if_near_expiry` with the forced mint and its failure |
| `AuthenticateFails`, `EmergencyProbe` | no app identity: the PAT, or nothing is held |
| `Validated`, `Rejected`, `NoAnswer` | the verdict on the bearer: `_adopt_oauth`, clear, `_keep_last_good` |
| `Fanout`, `FanoutFails` | `_fanout` of a changed bearer, and its write failing |
| `Ask`, `Rotates`, `Looks`, `Emergency` | `token()`: fresh, a probe of its own, stale but not lapsed, the PAT |
| `Updates` | `update_tokens`, under the attendee's lock |
| `Configures`, `AgentsReady`, `Commits` | `configure_all`: it takes a revision, configures, and writes if no later revision was taken |
| `SdkMints`, `Tick` | external: the SDK rotates in its own time; time passes |

`FileIsNeverExpired`: a token file never holds an expired bearer, whenever the SDK mints
and however a request that configures the agents meets a fan-out, also again after
outages that are over.  Its excuses are outages (an outage ends with a bearer that is held and need
not be replaced at once, in the file if it changed) and files left behind, see
[below](#disagreements-with-the-source).  It holds of windows that fit each other
(`WindowsFit`), as the code's do when the thread comes round within 100 seconds of when it is
due (a heartbeat of 30 and its probe).  A tick is that delay.  The force window is then 3 ticks;
were it 2, the thread could come round when the bearer has no time left for its fan-out.

## Runs

| Run | Bounds | Shows |
| --- | --- | --- |
| `journal_safety` | 2 containers; calls `emit` (keyed), `message`, `close` (durable, closing); 1 storage failure (read or create), 1 stop; 2 pending; revisions 0..3; 2 retries; checkpoint every 2 | the safety properties, `ImplementsLedger` |
| `journal_live` | as above, create failures only, no stop, revisions 0..6 | `AcceptedSettles` |
| `journal_exactly_once` | create failures only | violation, finding 1 |
| `journal_revision_state` | read failures only | violation, finding 2 |
| `delivery_crash` | 3 outputs, 2 with one key; backlog 1, page 1; 3 emissions; 1 crash, 1 foreign operation, 1 loss | the safety properties of delivery under crashes |
| `delivery_steady` | backlog 2, page 1; 4 emissions, 2 losses, no crash | `EmptyPageIsComplete`, `AcceptedIsDelivered` |
| `delivery_reissue` | 1 crash | violation, finding 3 |
| `closeout_safety` | 2 containers, 1 writer, 1 final output, 2 observations, 2 claims; lease 1, drain 1; no crash or failure | the safety properties of closeout but one |
| `closeout_live` | 1 container, 1 writer, 3 claims; lease 2, drain 1; 1 crash, 1 failed storage call | `SealedCoversAnswered`, `CloseoutDecides` |
| `closeout_orphan` | as above, no failure | violation, finding 4 |
| `host_process` | window 3, 2 restarts, grace 2; 2 sessions, 2 descriptors, 2 sockets, queue 1; deadlines 2 and 3 over a base of 0 or 1; 2 requests that prepare a launch, CT's, policies 1 and 2, the second without Codex; eight environments, below | all properties of the container |
| `server_workers` | 3 tokens, 2 requests at a time, any file to start from; 2 adapters (one with a baseline), 3 resources (one from before the run), 1 request thread, interval 1, idle interval 2, lifetimes and backoffs of 1 or 2; 2 help requests at a time, page of 1; bearers that live 5 ticks, probes every 2, windows of 4, 3 and 1; environments below | all properties of the mirror, the host, the reconciler, help and the bearer |

Why the bounds suffice to reach the interesting cases: two containers and three
calls make an append meet a foreign operation, a split burst stop half way, a
rebase drop, keep and duplicate a change, and a close overtake a pending change.
One failure is enough for each single ambiguous outcome and each partial read; the
history reaches its capacity (`MaxOps`) and passes a checkpoint.  A backlog of one
fills with the first event; three emissions allow a refusal, a repeated key and a
contradiction.  In `closeout_safety` a lease runs out at any moment of either
container's work, claims are taken over, and a container still holds a reservation,
an output or a preparation in memory when the other one begins, claims or seals; a
container that stalls past its lease stands for one that died.  `closeout_live` adds
the crash, the renewal and the failed calls.  `journal_safety` and `closeout_safety`
use symmetry between containers (the second also between claims and between
observations): their properties do not tell these apart and they check no liveness.
The liveness runs use none.

`host_process` and `server_workers` each check several environments in one run.  The
variables `scope` and `bounds` (never changed), `left` and `credit` (counted down) are chosen at
the start; they say what a behaviour may use (which sessions, sockets and refreshers there are, how many deaths, stops,
deployments, faults, requests, outputs).  A product of all of it would not be finite
work, and nothing is lost by the split: the parts meet only in a crash and a
deployment, which every environment that needs them has.

| Environment | What happens in it |
| --- | --- |
| `Restarting` | 4 deaths and 2 stops from either sender, at any age of the server: the window of 2 restarts fills, empties and overflows, a stop meets each state |
| `Extending` | 1 death, 1 stop, 2 deployments over bases 0 and 1, 1 fault, extensions to 2 and 3: each step of an extension is cut by a death or a failure, a record survives a deployment it belongs to or not |
| `Crashing` | 2 sessions one after the other and 1 death: closing against creating, a descriptor number used again while the first session is still torn down |
| `Recording` | 1 session, both refreshers, 2 deaths: measuring against closing, a second crash before or after the ghosts are dismissed |
| `Showing` | 1 session, 1 socket with a queue of 1, 3 outputs: overflow, and reconnecting in the middle of it |
| `Sharing` | 2 sockets at one session |
| `Revising` | 1 request thread with 2 launches, 2 policies in 3 puts, 1 failed put, 1 death: puts that are lost, repeated, stale or fail in their refresh, against each step of a launch |
| `Preparing` | 2 request threads with 3 launches, 1 policy in 2 puts, 1 failed put: launches that overtake each other and the refresh, and fail before, between and after the two marks of another |
| `Capturing` | no host; 4 requests, 2 ticks, 1 fault: tokens overtake each other, expire on the way, a write fails before or after the file is replaced |
| `Hosting` | 2 requests, 2 ticks, 1 fault, no stop: notifications against every step of the worker |
| `Stopping` | 1 request, 1 tick, closing and `stop` against every step of the worker |
| `Waking` | the reconciler alone; a resource made in the run, 1 wake (all adapters or one): a wake against every step of a pass |
| `Missing` | a resource made in the run, 1 failure: a failed list, baseline or grant |
| `Retrying` | 1 wake, 1 failure: a wake before, during and after a pass that fails |
| `Limiting` | 1 request on demand, 1 rate limit, at any request of a pass or of the start: queued callers against the backoff, a baseline that is taken late |
| `Holding` | 1 wake, 1 rate limit: wakes before, during and after a backoff |
| `Drifting` | a resource made in the run, 2 events: permissions taken away, resources deleted, before, during and after a list |
| help, `Crashing` | 2 entries, 1 crash: with a write under way or not, before or after CT has read them |
| help, `Losing` | 1 entry, 1 crash, 1 loss: of an answer, of an acknowledgement, or of the answer to one |
| help, `Sharing` | 1 entry, 1 change, 1 round of the flusher: requests join a flush at each of its steps |
| help, `Failing` | 1 entry, 1 failed write, of the barrier or of the flusher, 1 round of the flusher: backing off |
| help, `Down` | 1 entry, 1 change; every write fails or never ends |
| bearer, `Rotating` | 1 request, 1 mint of the SDK at any time, 6 ticks: a request at each place against a mint, a validation and a fan-out |
| bearer, `Configuring` | 2 requests, 5 ticks: both configure the agents, or one finds them configured by the other |
| bearer, `Interrupted` | 3 outages, 7 ticks: mints, validations and writes that fail, validation going out of date |
| bearer, `FallingBack` | 1 request, 1 outage and a PAT: the fall back meets the thread's probes |
| bearer, `Static` | a PAT, 2 outages |

Intervals of 1 and 2 order all timers in both ways; a third tick would only keep
everybody waiting.  The workers' environments are alternatives, since no property
is about two of them and no state is shared.  A page of one entry with two entries makes CT
collect and acknowledge twice.  The bearer's windows keep the order of the code's: a probe
window above the force window, which is above the probe interval and the margin; the validation
age is shorter than a bearer's life.  TLC evaluates `WindowsFit`, and 3 is the least force window it
allows.  Five ticks are a life, so that the first bearer lapses if nothing replaces it.

Every run but these two checks for deadlock.  A container really stops (the
supervisor has ended and nobody deploys again), and so does an instance whose
requests are over and whose host is stopped.

### Fairness

`journal_live`: weak fairness of each container's worker (a started call goes on:
it is a running thread) and of its flusher while something is pending
(`_flush_loop` waits with a timeout, so it runs without being woken).  `AcceptedSettles`
excludes a closed process because `close()` stops the flusher.  Its failures are
bounded by `MaxFaults`: storage that fails for ever retains nothing.  Nothing is
assumed of callers.

`delivery_steady`: weak fairness of the flusher, of the stream's initialisation
when capture is configured, and of CT's collection steps (CT polls every instance
periodically; a collection it started ends).  Producers need not emit and CT need
not acknowledge.  The losses are bounded.

`closeout_live`: weak fairness of time, of the flusher, and of `advance` (CT polls
`/capture-closeout/status`, which advances, and a started request runs on).  Writers
need not finish: the drain's deadline decides.  `Prompt` assumes that a live finalizer
ends or renews within its lease.  The code renews during the audit, but not while
`_prepare` observes and harvests: an instance where that always takes longer than the
lease's 120 seconds would claim, be refused and release for ever.

`host_process`: weak fairness of the supervisor's loop with its clock (a process of
its own that only waits in `sigtimedwait`), of the startup of a spawned server, of
the threads of each session (creation, reader, teardown: started threads), of the
event loop's callbacks, and of each socket's handler, a browser that stays open being
one that takes what it is sent.  Nobody has to open, type, close, refresh or extend
anything, and no server has to die or to live.

`server_workers`: weak fairness of the host's worker (a thread; its waits without a
timeout are enabled only by `wake`) and of the requests that have begun (they write, and
notify; one fairness for all of them, as there are finitely many).  No token has to
come, and a host may exit again and again.  For the
reconciler: time passes, and the loop and the pass under way go on (`Reconcile`: the
loop looks at the clock at least once per heartbeat, a pass is a running thread whose
HTTP calls have timeouts).  No caller has to ask, no wake has to come, and failures,
limits and drifts are bounded.  Fairness is of `Reconcile` as a whole, since one pass
runs at a time.  For help: `Collection`, as one: CT polls every instance, and a request under
way goes on, because each of its waits has a timeout.  Nothing is assumed of the flusher,
of a flush or of the store, and crashes and losses are bounded.

## Proofs

`CaptureJournalProofs` proves, for any set of containers and changes, any subsets
keyed, durable, control and closing (with the closing ones durable control
changes, `ChangeAssumption`), any positive limits and any failure bounds
(`LimitAssumption`):

- `InductiveInvariant == Spec => []IInv`
- `TypeCorrect == Spec => []TypeOK`
- `RetainedHistoryReplays == Spec => []HistoryReplays`
- `MemoryCleanOrBehind == Spec => []CleanOrBehind`
- `LegalRunsAreNeverHeld == Spec => []NeverHeld`

`HistoryReplays` is not inductive: that an append preserves it depends on what the
appended operation was computed from, several steps earlier.  `IInv` adds:

- `CheckpointsSound`: a checkpoint is the state of a retained operation;
- `Positioned`: no process claims a revision that is not retained;
- `Settles`: a process with nothing pending has the state of its revision, however
  its last refresh failed;
- `WorkerSound`, by the worker's place: an append's plan is chained from the
  durable state to memory (`Chained`), its created part is in the store right after
  the revision (`Planned`), or nothing of it is created and the process is behind;
  a rebase has something pending and is behind; a replay's memory is the loaded
  state plus the replayed changes; a durable transaction has nothing pending;
- `CleanOrBehindAt`: the per-process form of `CleanOrBehind`.

The argument: the store only grows, so a fact about a revision that is retained
stays true (`StateStays`, `RelyProcess`); a step of one process therefore only has
to re-establish its own part (`StepKeepsIInv`).  The heart is `FreeIndex`: if the
next index is free, the process is not behind, so all it planned is chained from
the end of the history, and its create extends the history correctly.  Each action
has one lemma (`...Sound`); `NextSound` combines them.  The lemmas on sequences at
the start of the module say what concatenation and prefixes do.

`LedgerProofs` builds on it, for the same instances:

- `AcceptedIsNotLost == Spec => []NoSilentLoss`
- `KeyedTakesEffectOnce == Spec => []KeyedAppliedOnce`
- `JournalImplementsLedger == Spec => ImplementsLedger`, the refinement of
  `CaptureLedger`: the initial state maps to its initial state, and every step to
  one of its steps or a stutter.

Over `IInv`, `LedgerInv` adds: `Nested` (every retained state has all its entries in
the newest, which spares an induction over the history: each append is compared
with the newest state only), `LegalStore` and `LegalProcess` (in no retained state and
no memory is a keyed change twice, or anything but control after a close), and that
what was published is retained.  `StoreSteps` says that a step appends at most one
operation, chained from the newest state; from it `RetainedGrows` gives the ledger's
step, and `LossSound` accounts for each pending change that leaves memory: it was
committed (`CommitKeeps`), or a replay found it retained or noted it as refused
(`ReplayKeeps`).

`DeliveryProofs` proves of event delivery, for any outputs and keys, any backlog and
page limits and any number of crashes, losses and foreign operations:

- `DeliveryInvariant == Spec => []IInv`, `DeliveryTypeCorrect == Spec => []TypeOK`
- `FlushedEventsStay == Spec => []FlushedStays`
- `NothingReleasedUnread == Spec => []ReleasedWasDelivered`
- `BacklogStaysBounded == Spec => []BacklogBounded`
- `AnsweredAcksStay == Spec => []AnsweredAckStays`

`Extends(s, t)` orders insight states.  `MemoryInv` chains what is retained, pending and
live by it; so storage only extends, and memory extends or is loaded from storage
(`StepExtends`).  `Firm(e, n)` says that both hold the same first `n` events of stream
`e`: a passed barrier gives it (`BarrierFirm`) and every step keeps it (`FirmStays`), for
a request, a page on its way and what CT committed (`ReadInv`).  `CoverInv` says of every
acknowledgement, wherever it is, that CT committed something at each position below it.
`AckInv` follows an acknowledgement from memory through a flush or a rebase: it is
`Owed`, and its replay is not refused because it is firm (`ReplayOwed`).

`EmptyPagesAreComplete` is about one container that does not die: `ASSUME MaxCrashes = 0,
MaxForeign = 0 PROVE Spec => []EmptyPageIsComplete`, the setting of `delivery_steady`.  A crash
loses accepted outputs that nobody attempts again, so that without the first premise the
property is false; the second leaves the redeploy to TLC's other run.  Everything else stays:
outputs with one key, refusals, lost pages and failed requests, and unconfirmed creates, after which a
rebase replays what storage has already.  That case is the proof: `Has` says that everything
attempted is an event in memory or an issue, `Pends` that the states the pending mutators
lead through are a run from a retained base, and that storage holds one of them.  While a replay is
under way memory is one of the run's states too (`Replays`): the first mutator moves it to the next,
or, if memory is further, changes nothing (`Absorbed`), because states of a run only grow
(`RunGrows`, by induction over the run).

`CloseoutProofs` proves of the closeout, for any containers, writers, final outputs, observations
and claims, any lease and drain, and any number of crashes and failures:

- `CloseoutInvariant == Spec => []CloseoutIInv`, `CloseoutTypes == Spec => []TypeOK`
- `SealCertifiesContent == Spec => []SealedMatchesContent`
- `FinalOutputsFromOnePreparation == Spec => []FinalOutputsAgree`
- `SealForever == Spec => SealIsFinal`, `ClosedContentIsFenced == Spec => ContentIsFenced`

`SealedMatchesContent` is far from inductive: the seal trusts an audit, the audit a drain and
final outputs, and those a claim that may have run out since.  `CloseoutIInv` adds:

- `Shapes`, the types;
- `ClosedFirst`: whoever has a claim has seen the close; nobody sees a close that is not
  retained; and memory that is not behind is what is retained and mutations after it (`Beyond`,
  which says what no mutation does: it leaves the phase, the claim and the manifest alone, and after
  the close admits nobody new);
- `OneUser`: a claim is used by one container, in its advance or in what it has pending;
- `OnePreparation`: what a finalizer has pending is of the preparation in its memory, and that
  is the retained one, or the one to be retained, for the holder of the retained claim;
- `FinalsDelivered`: as long as the lease runs, each final output in the holder's memory
  is retained, or pending behind a preparation in an order in which a rebase accepts it.

The retained state changes only by the durable steps and by flushes (`TurnsKeep`), and these
keep what a seal certifies: a durable step fences itself by the claim, and a flush that
has not seen the seal is replayed on it, where everything but acknowledgements is refused.  A
replay is a recursive function over what is pending; that it only goes `Beyond` its base, and
delivers the holder's outputs, is an induction over it (`NatInduct`).

For one container with `Prompt`, and any lease, failures and deaths, it also proves

- `SealLeavesNothingOut == ... Spec => []SealedCoversAnswered`

The invariant, `Covers(p)`, says what p's memory may have over storage while a flush that landed
unconfirmed, or a durable step that failed, has left p behind:

- while p holds the retained claim its lease runs, and p has seen the close if storage has;
- `AdmissionsKept`: a writer that memory knows as admitted is retained or has its reservation pending,
  which happens in OPEN only; a pending finish is of a writer no longer in memory, so that no
  replay takes away one that is still at work;
- `OutputsKept`: an output of a writer that is not retained is pending in an order in which a replay
  accepts it (`Enters`: in OPEN, or before its writer's pending finish), and a final one has the holder of
  the claim, so that `FinalsDelivered` has it retained;
- `AnswersKept`: what was answered is in memory or was pending at a death.

`FlushCarries` is the heart: an induction over the replay (`Carried`) by which a flush retains every
output and every admission of p's memory.  With nothing pending, memory then has nothing over
storage (`NothingPending`), and a seal is taken only then.

`BackgroundProofs` proves of the Omnigent host, for any tokens with any times, any writers and any bounds:

- `OmnigentInvariant == Spec => []IInv`, `OmnigentTypeCorrect == Spec => []TypeOK`
- `CompleteStopIsHonest == Spec => []StopIsHonest`
- `MirrorOnlyAdvances == Spec => MirrorAdvances`

`IInv` adds to `TypeOK`: `ProcessHeld` (a process that runs is published,
or the worker is just about to publish it), `StopPhases` (what
`stop()` has seen at each of its places is still true: the worker only moves towards
its end once `stopping` is set), and `RecordLeads` (once this process has written
the file, neither its token nor the written one is newer than the record, which makes
the next write an advance).

Of the reconciler it proves, for any adapters, resources, callers,
intervals, lifetimes and delays:

- `EntitlementTypeCorrect == EntitlementSpec => []EntitlementTypeOK`, with `Lists`, where
  a pass is with an adapter;
- `CachesCurrent == EntitlementSpec => []CacheIsCurrent`, with `FlightIsCurrent`: a list
  in flight whose adapter was not invalidated has what was noted, so the response it
  gets has it too;
- `BackoffHeld == EntitlementSpec => []BackoffIsAFloor`, with `Floored`: the floor never
  exceeds the time to the next attempt, and `deferred` stays set until then;
- `WakesKept == EntitlementSpec => []WakeIsNotLost`; it is inductive with the fact that
  nothing is woken before the start, because `Schedule` looks at what is invalidated in
  the step that ends the pass;
- `OldUngranted == EntitlementSpec => []OldStaysUngranted`, with `OldKnown`: a baseline
  that counts as taken has all old resources there still are, because a list in flight
  has those that were there when it began.

`WorkersProofs` proves of the help outbox, for any requests, page size and bounds:

- `HelpTypeCorrect == HelpSpec => []HelpTypeOK`
- `ToldStaysRetained == HelpSpec => []ToldIsRetained`
- `DroppedWasFiled == HelpSpec => []DroppedIsFiled`

Neither property is inductive: a page, an acknowledgement and a flush carry what was
true several steps before.  `HelpIInv` adds `Chained` (what storage holds, what a flush
writes and what memory holds follow each other, and nothing pending means that memory is
in storage), `Informed` (what a request began with is in memory) and `ReadSound` (every
number below an acknowledgement was read, wherever the acknowledgement is; a page follows
what is acknowledged without a gap and shows what memory holds, or a number in
`reissued`).  Each step but the crash shows `Sound`, that is: memory and storage grow, the
requests move as `AskersMove` allows, and `ReadSound` holds again; `SoundStep` concludes from it.

Of the bearer it proves `CredentialTypeCorrect == CredentialSpec => []CredentialTypeOK`, for
any requests, windows and bounds: nothing is held, probed, served or written that was not
minted.  The type's parts that name bearers are kept apart (`CredentialParts`), because
they follow what is minted.

`FileStaysFresh == CredentialSpec => []FileIsNeverExpired` needs `WindowsFit` beside the
constants' types.  That the file's bearer has time left follows from nothing the file shows; it is
owed to a thread that will come round and find something to replace it with.  `BearerIInv` says so:

- `MintedInTurn`: later bearers lapse later, and the last forced refresh parts those that were about
  to lapse from those it and later mints brought.  So the cooldown never stands in the way of a
  refresh that is needed.
- `Cadence`: where the thread stands bounds how long ago it last probed; `LockHeld`: who has the lock
  and how far its holder is; `NobodyYet`: no request is served before the thread has started.
- `InTime`: with no outage, the bearer that is held lasts a force window less what may pass
  until the thread has come round, and so does the SDK's last, which would replace it.
- `FileInOrder`: what the file holds, and what the one request that may still write it will
  write, is the bearer that is held or, during a fan-out, one that lasts until the fan-out has ended.

`InOrderIsFresh` concludes from the last two.  TLC checked the invariant before it was
proved: with one request in all 16 million states, with two in the first 24 million.

Of the server it proves `WorkersAreEach == WorkersSpec => Spec /\ EntitlementSpec /\ HelpSpec /\ CredentialSpec`,
by which each of these theorems holds of the server, and `WorkersTypeCorrect`.

`HostProofs` proves of the container, for any delays, limits and deadlines:

- `DeadlineNeverLowered == Spec => []DeadlineNotLowered`: with `DeadlineIInv`, what
  memory and the record say of the promise at each place of an extension;
- `StopEndsInTime == Spec => []StopIsBounded`: with `StopTimes`, the age of the stop
  and the time left of its deadline add up to at most the grace, before the kill and
  after it;
- `OnlyThePlatformStops`: the part of `EndsForAReason` about an ordinary end
  (`StopReasons`);
- `SupervisorEnds == Spec => []EndsWhenItShould`: with `DequeInv`.  The deque is pruned only
  when another server dies, so between deaths it holds more than the window does; the deaths
  that count are what it would be if it were pruned now, `Within(restarts, Window)`.  That
  needs it sorted by age (`Descending`), because pruning stops at the first restart that is
  recent enough, and that pruning late is as good as pruning each time (`WithinOlder`);
- `ContainerTypes == Spec => []TypeOK`, from the invariants of all the parts.

Of the terminals it proves, for any sessions, sockets, descriptors and
refreshes:

- `LifetimeTicket == Spec => []LifetimeTicketEnds`
- `OwnDescriptors == Spec => []DescriptorsAreOwn`
- `RestartGhosts == Spec => []GhostsCoverCrash`
- `ClosedIsNoGhost == Spec => []ClosedStaysClosed`
- `OutputsInOrder == Spec => []NoGapNoRepeat`

The argument is per session.  `RecordSound(r)` says what the places of a
session's three threads imply of its flags, `PlaceSound(s)` that a session in the
registry is used, not claimed and not exited; both are kept by whatever updates one
record (`UpdateSound`), so that each action is one short case.  `Owners` adds that
the number of a session whose master is not closed is its own, so that closing it
takes nobody else's.  `Restarts` relates the session journal to the registry and to the
refreshes under way: as long as a session is in the registry whoever writes it writes
it as live (`Registered`); once it is settled nobody is left who would
(`Settled`); what a death owes the next server stays on disk until that server has read
it (`Owed`); and ids are not used twice (`Known`).

`OutputsInOrder` rests on `Streams`, about one socket at a time: a reader has an output in its
hands for a socket only while it publishes, and only for a socket that shows that session
(`StreamSound`); whoever does not show anything yet, or any more, has nothing on its way.
`InFlight(q)`, the socket's queue, the loop's callbacks for it and what the reader holds, is
then one line, and four lemmas say what becomes of a line that continues what was shown:
another output joins its end (`AddNext`), the exit joins it anywhere (`AddExit`), a callback
moves an entry inside it (`Moved`), and its first output is the next shown (`ShowFirst`).

Of the model policy it proves `VerifiedPolicyInForce == Spec => []VerifiedIsInForce`, for any
threads, policies, lost puts and deaths.  `PolicyIInv` says that what is told is retained and known to the journal's memory
(`PolicyOrder`); that a launch finds the files it has written as new as it left them, or an
operation with an older snapshot under way, which will clear `cli_ready` (`Followed`, for each
policy up to the launch's, `LaunchesStand`); and, for ready agents, that each file so follows what was
told or a request is under way that will write it (`Covered`).  The first is what makes
either mark of a launch sound: a mark sets `cli_ready` whatever cleared it, so what it vouches for
must hold before it.  A failure takes its own operation out of `Followed`, and the files that
nothing else covers are those that it adds to `undone` (`RaiseSound`); a write covers its file
again up to any policy (`CoveredByWrite`).

`Induction` proves `NatInduct`, induction over the numbers with the predicate as a set: the
library's theorems take an operator as a parameter, which the provers cannot instantiate, and its
fact that `Nat` is well-founded under `<` does not.  With it the proofs reach what recursive functions
compute (`Replayed` of the closeout, the runs of delivery).

Only model-checked: liveness, which is beyond the prover (`AcceptedSettles`, `AcceptedIsDelivered`,
`CloseoutDecides`, `ServerComesBack`, `NobodyStaysBehind`, `FreshTokenRunsHost`, `Converges`,
`HelpIsHeard`).  Every safety property of the passing runs is a theorem.  No module declares a
recursive operator.

The leaves are small: each module is still proved with a quarter of the provers' usual time.

Only proved, because no run is needed for what holds at every instance: the `TypeOK` of
`CaptureJournal`, of `EventDelivery`, of `Closeout` and of the server's workers, `BacklogBounded`,
`NeverHeld`, `OldStaysUngranted`.

## Disagreements with the source

1. `journal_exactly_once` (`capture_journal.py:1183`).  A create lands but its
   response and readback fail; the flush raises and the changes stay pending; the
   next flush builds a new operation, meets its own earlier one as if it were
   foreign, and replays the mutators over their own effect.  Mutators without a key
   (help messages) are retained twice, against the comment in `_create_resolved`
   (`capture_journal.py:707`).
2. `journal_revision_state` (`capture_journal.py:1020`).  A read that fails in the
   middle of the first load leaves `_revision` ahead of `_durable_state`; the
   process is then never reloaded, and its flushes rebase over the wrong base and
   raise.  The history stays intact (`CleanOrBehind`), the process retains nothing
   any more.
3. `delivery_reissue` (`admin.py:637`).  An output accepted between the flush and
   the read of a collection is delivered although it is not retained; after a crash
   its sequence number is given to another output.  With the wrong luck CT then
   acknowledges the new output unread, or gets a 422 for its own cursor.
4. `closeout_orphan` (`closeout_guard.py:116`).  A writer's reservation is accepted in
   memory and retained by a later flush, on purpose (comment at line 75).  When the
   container dies before, nobody remembers the writer and the closeout seals as
   complete, against `docs/wt02-sealed-workshop-closeout.md:73` (an orphaned accepted
   writer remains held) and `:86` (admission tickets persist before the work).

Seen while reading, without a run: `docs/admin-api.md:560` and `:584` describe an
older delivery (collection acknowledges by itself, the cursor restarts with the
process); a rebase that drops an accepted change only logs it; the size probe of a
flush measures the patch without the envelope of its record.

In the modules of the container and the host:

- `sessions.py:902`, `:556`: a refresh that measured a session before `terminate` set
  `exited` may write it after `terminate` removed its record; the closed session is
  then a ghost after a restart, against the comment at `:635`.  `ClosedStaysClosed`
  leaves these out (`settled`), the model does not.
- `sessions.py:556-561`: a `terminate` between the registration of a session and the
  assignment of its reader closes the master before the reader starts (`early`);
  between the assignment and the start, `join` raises, the record stays and the
  ticket is never finished (`raised`).
- `event_deadline.py:90`: after a read that fails, a later and smaller extension may
  lower the deadline on disk, against the docstring (`blind`); `:152`: a chmod that
  fails leaves the disk ahead of memory (`ApplyFails`).
- `supervisor.py:268`: a pending stop from inside swallows the platform's SIGTERM, as
  the kernel keeps one of each signal.
- `omnigent_remote.py:700-717`, `:895`: a `stop()` between the worker's look at
  `_stopping` and its `wake.clear` loses its wake-up; the worker then waits without a
  timeout and `stop()` reports it as pending, which is true.  A spawn that ends after
  `stop()` has listed the processes and before it sets `_stop_finished` is left
  running, again reported.
- `cli_config.py:332-334`: an operation that finds the policy changed clears `cli_ready`, so
  that "a next launch must redo the whole config operation".  Two operations are not ordered, though:
  a launch with the older policy writes a file over a newer launch's, fails and clears
  `cli_ready`, and then the newer one marks its agents ready, with the stale file among them.
  It does so twice: after Codex's file (`:1214`), and after Omnigent's (`:1219`), where `add` alone
  makes `cli_ready` count again (`credentials.py:903` asks only whether it is empty).  So the failure
  may also come after the first mark: policy 1 is told, a launch M begins with it and stalls before
  Claude's file; policy 2 is told; a launch L with it writes Claude's and Codex's and marks them; M
  writes Claude's, fails at Codex's and clears `cli_ready`; L writes Omnigent's, marks it and passes its last
  comparison.  `VerifiedIsInForce` excuses the file (`undone`), the model does it: without the
  excuse, or with one that ends at the first mark, `Preparing` finds it.
- `obo.py:273`: `status()` may call a mirror fresh whose write is pending or failed.

In the reconciler:

- `entitlements.py:2001`: after a session start has invalidated every adapter, a pass
  that fails before it visits them (no bearer, no attendee) leaves the invalidations
  without a retry time, and `_schedule_pending_wake` makes the next attempt due at
  once, again and again, against its docstring (`:2006`).  `EnterFails` with something
  in `invalid` does this in the model.
- `entitlements.py:1281`: before the first full pass, a targeted pass that succeeds
  turns `ok` true although no other adapter was visited, against the comment there;
  and a rate-limited pass restores `_adapter_errors` (`_defer_backoff`), which drops
  the failures that other adapters had in that pass.
- `entitlements.py:1013`: the `except` of `reconcile` records a failure without the
  backoff observed in the same pass and without `_schedule_pending_wake`
  (`PassRaises`; `raised` excepts it from `WakeIsNotLost`).
- `entitlements.py:1971`: each failing pass on demand moves the next full sweep by a
  whole interval; an adapter's failure makes every narrow pass of another one fail; and
  a deleted resource in a cached list keeps the reconciler unhealthy until the entry
  expires.

In the help outbox:

- `admin.py:973-976` says that a sequence that falls behind after a crash "neither loses nor
  duplicates a message".  A message that a presence answer showed before it was retained is
  filed by CT; the process dies; the next message gets the same number; an acknowledgement
  of the first one that arrives only now drops the second unread.  `DroppedIsFiled` leaves
  these numbers out (`reissued`), the model does not.

In the maintenance of the bearer:

- `credentials.py:902-906`, `cli_config.py:1253`, `:1207`: a request gets a bearer from `token()`
  and takes its place among the writes only afterwards.  A new bearer that is fanned out
  between the two is overwritten by the old one, against the comment at `cli_config.py:1203`
  (`configure_all` "is forbidden from rolling them back"); `_adopt_oauth` fans out only a
  changed bearer (`:786`, `:794`), so the file keeps the old one until the next mint and may
  expire before it, against `credentials.py:453-456`.  Another request repairs it.
  `FileIsNeverExpired` excuses it (`"behind"`), the model does it.
- `credentials.py:874`: the same follows a fan-out whose write fails: it is logged, and this
  bearer is not written again.
- `credentials.py:363`: `token()` validates the emergency PAT outside `_refresh_lock` and then
  clears a bearer that the thread may have adopted meanwhile; the thread no longer knows that
  expiry is near (`:459`) and probes again only a whole interval later, which may be after
  the bearer in the file has expired (counted as an outage).

## Limits

- Record and state sizes are abstract: any burst of two or more changes may be too
  large for one record, a single change never is.
- A process that held capture for good (`_fault`) stays held in the code; the model
  shows that legal runs never get there on a load or a durable transaction
  (`NeverHeld`), and lets a rebase that meets such a digest raise.
- Closeout: `entries` (a read), refused requests, the reconciliation of failures that
  the history proves harmless, the limit of 256 writers and the validation of the
  retained record by `status` are left out.
- Clocks: the flusher's delays and backoff are replaced by fairness.
- The file lock between workers of one container is absent: the modelled processes
  are different containers.
- The container: time is in ticks; a signal's sender is given, not derived; an
  output is a number, and a replay ends with the newest one however far back it goes.
  The loop's callbacks of one socket are in order; those of different sockets never meet
  and are not ordered among each other.
  A start of the server that fails after `configure_store` (`main.py:331`) has read and cleared
  the journal of sessions is left out: `LoadPrior` and serving are one step.
- The model policy: Omnigent is offered (without it a launch has one mark).
- The reconciler: one attendee; time in ticks; a tick may come at any time, so an HTTP
  call may take as long as it likes; deleted resources are not made again; the platform
  answers from the state of the moment, without the delay of its own caches.
- The Omnigent host: one process stands for the group; a wait with a timeout may end
  at any time.
- Help: the journal's `health()` answers (one that raises counts as retained in the code, `help.py:85-89`);
  one process, so no foreign operation and no rebase; the contents of the thread, the
  deduplication of replies, votes and requests for a person, the direct push to CT and the
  retry limit of a flush are left out; a number is an entry's place in the history.
- The bearer: one attendee, whose file does not outlive the process; a policy change that clears
  `cli_ready` and `stop()` of the thread are left out; a failed validation of the PAT is an
  outage like any other.
- CT, storage, the kernel's descriptors and the platform that replaces containers are
  external.

## Plan

What is left, most important first:

1. The reconciler's grants to the apps' own principals and its attendee group.
2. The wizard's revisioned save, `attendee_state.py`: small modules.
