# A verification project for xus-miner

xus-miner is a desktop miner for the SOV chain. A GUI process supervises an
isolated engine process; the engine mines either directly against one SOV node
over JSON-RPC or through a Stratum pool. This directory holds TLA+ models of the
parts whose correctness depends on the order in which threads, processes and
messages act, the TLC runs that check them, and the theorems TLAPS proves about
them. `PROJECT.json` maps every definition to the source lines it models and
lists the runs, mutants, hazards, findings and theorems.

To repeat a check: `tlc -workers 2 -config MCDirect.cfg MCDirectMining`, and
likewise for the other configurations; `tlapm DirectMiningProofs.tla` for a
proof.

## Inventory

Paths are relative to the repository's `src/` directory.

| Part | State it keeps | Operations | Hard behaviour | Correct when |
|---|---|---|---|---|
| Work slot: `State.job`, `State.generation` (main.rs) | the published job, behind a lock; a counter, read without it | install, clear, teardown; the workers' reload | writers and readers take two steps each | a worker that finds its counter current mines the published job |
| Direct session: `run_rpc_session` | `chain_height`, time of the last refresh, the endpoint in `State` | poll, fetch and validate a template, install, tear down | the node's tip moves between any two calls, calls fail | workers end up on work for the tip; only the requested account is paid; teardown ends |
| Workers: `worker_loop`, `worker_supervisor` | copy of the job, remembered counter, nonce | reload, hash, submit, count, clear, restart after a panic | a submission answers late, never, or after the session moved on | every submission is counted once; accepts are blocks of the chain |
| Stratum session: `run_session`, `handle_message`, `Connection` | connection, shares awaiting an answer | login, job push, share, answer, reconnect | a worker holds a connection the session has given up | the number of outstanding shares is right; work belongs to the connection |
| Round statistics, `reporter_loop` | hashes and hazard of the round | credit a batch, replace the round, snapshot | a batch ends after its round | hashes are credited to their own round |
| Job and template parsing, compact targets | none | `Job::from_rpc`, `Job::from_stratum`, `target_from_compact` | boundaries of 256 bits | what is accepted is what the node means |
| Memory preflight: `RandomxMemoryGate` | what was approved | approve before the first job, on a profile change | a probe that fails | nothing is allocated beyond the reserve |
| RandomX dataset manager (pow.rs) | the shared dataset or its outcome, the light cache, a VM per worker | share, build, drain, promote, release, fall back, retry | handles of one dataset on many threads, allocations that fail | two full datasets never coexist; a VM reads the memory of its key; fast mode returns |
| Block feed (blockflow.rs, main.rs) | `TipWatch`, `RecentBlocks`, `SealedBlocks` | baseline, announce, gap line, backfill, reorganisation, attribution | bounded memories with different rules; the chain moves under a loop of calls | no height passes silently, none is announced twice, YOURS is true |
| Mempool projection (blockflow.rs) | none | pack a histogram into blocks | caps and saturation | totals agree with the histogram |
| JSON-RPC transport (rpc.rs) | one socket and its deadline | send, read header and body, decode | a node that trickles | no call outlives its deadline |
| GUI engine supervisor (gui.rs) | child, quarantined child, pending exit, recovery budget, phase | start, stop, observe, drain, restart | the exit, the last output, a stop and a restart in any order | one engine at a time; stop means stop; recovery is bounded |
| GUI telemetry view (gui.rs) | what the dashboard shows | apply an event, reset, age | events queued before a stop or of a jobless interval | the dashboard shows what the engine does |
| GUI settings file (gui.rs) | one file, on Windows a backup | load, save, replace, recover | a crash between two file operations | some complete settings file is always found |
| Account syntax (wire.rs) | none | the account grammar | separators at the edges, lengths | it is the chain's grammar |
| Diagnostics log, crash reports (diag.rs, gui.rs) | one log file per process, a report per crash | open, prune, write; write, sync, rename | several processes prune one directory | the directory is bounded, a live log is kept, an announced report exists |
| Rendering and input, command line, CI scripts | none that matters here | | | |

How they interact. The session thread (direct or Stratum) writes the work slot;
the workers read it, hash with the VM the dataset manager gives them, and submit
through the endpoint or the connection the session published in `State`. The
direct session also drives the block feed, whose attribution uses what the
workers recorded in `SealedBlocks`. All of them emit JSON lines on standard
output, which the GUI's reader threads queue and its frame loop applies to the
telemetry view; the supervisor starts and stops the engine process and decides
on restarts from its exit. `RandomxMemoryGate` stands between a parsed job and
its installation.

## Modules

| Module | Models | With |
|---|---|---|
| `WorkSlot` | what the work slot promises, abstractly | its proof |
| `DirectMining` | session, workers and node in direct mode; implements `WorkSlot` | `MCDirectMining`, `DirectMiningProofs` |
| `FastDataset` | pow.rs: dataset manager, light cache, the workers' VMs | `MCFastDataset`, `EnginePartsProofs` |
| `PoolMining` | session, workers and pool in Stratum mode; implements `WorkSlot` | `MCPoolMining`, `PoolMiningProofs` |
| `BlockFeed` | the feed and strip part of the direct session; `TipWatch`, `RecentBlocks`, `SealedBlocks` | `MCBlockFeed`, `BlockFeedProofs` |
| `EngineLease` | what the window promises about the engine, abstractly | |
| `EngineSupervisor` | the supervision of the engine process by gui.rs; implements `EngineLease` | `MCEngineSupervisor`, `EngineSupervisorProofs` |
| `TelemetryView` | the threads that tell of the engine, the pipe, `apply_telemetry` | `MCTelemetryView`, `TelemetryViewProofs` |
| `SettingsFile` | settings and crash reports as file-system calls | `MCOperatorHost`, `OperatorHostProofs` |
| `MemoryPreflight` | the window's memory scans, its gate and the engine's | `MCOperatorHost`, `OperatorHostProofs` |
| `DiagnosticsLog` | opening and pruning logs (diag.rs) | `MCOperatorHost`, `OperatorHostProofs` |
| `NodeCall` | one RPC call and its deadline (rpc.rs) | `MCNodeReplies`, `EnginePartsProofs` |
| `StreamLines` | the three bounded readers of a stream | `MCNodeReplies`, `EnginePartsProofs` |
| `JobIntake` | template and pool-job parsing, compact targets, account grammar | `MCNodeReplies`, `EnginePartsProofs` |
| `MempoolView` | the histogram from the reply to the panel | `MCNodeReplies`, `EnginePartsProofs` |

`MCOperatorHost` and `MCNodeReplies` compose parts that share no state: a
behaviour exercises one of them and leaves the others at rest, so that one run
is the sum of their state spaces and not the product.

A definition whose header comment calls it a *variant* is a plausible mistake in
the definition that follows it. No action uses one. `PROJECT.json` ("mutants")
says which property refutes it in which run: every property of every passing run
is refuted by at least one.

A property of the later runs is often a conjunction of named parts (`HoldsWhatIs`,
`DashboardTrue`, `SettingsKept`, `PreflightSound`, `LogsKept`, `CallSound`,
`StreamsWhole`, `JobSound`, `PanelsTrue`, and for liveness `ComesToAnEnd`,
`CatchesUp`). Each part has its own comment beside its definition and, in
"mutants", a mistake that the part refutes when it is checked by itself. Types
are part of those conjunctions; for `direct`, `dataset` and `feed` the type
invariants are theorems and the runs do not repeat them.

### WorkSlot and DirectMining

`State::install_job` writes the slot under its lock and increments the
generation afterwards; `worker_loop` loads the generation first and reads the
slot afterwards. `WorkSlot` states this protocol for any set of writers, with
`owing` for the writers between their two steps; its promise `Coherent` says
that a worker whose counter is current holds the published job unless a writer
owes its increment. `DirectMining` is shown to implement it: `slot` is
`State.job`, and a writer owes an increment while the session is at `"bump"` or
`"dropBump"`, or a worker is inside `clear_job_if_current`.

A step of `DirectMining` is the code between two points where another thread can
see the difference: an atomic load, a lock taken or released, a call sent or
answered. Variables and code:

- `spc` is where `run_rpc_session` is: `poll` (`sov_health`), `fetch`
  (`sov_getBlockTemplate`, `Job::from_rpc`, the coinbase check and the memory
  gate), `install` and `bump` (`install_job`), `drop*` (the teardown after the
  loop). `health` is the height of the last poll and `chainHeight` what the code
  calls `chain_height`: the height it had *before* it asked for the template.
- `wpc[w]` is where worker `w` is: `loop`/`read` (head of the loop), `hit`
  (the generation is compared once more), `submit`, `call` (`sov_submitBlock`,
  the endpoint's read guard held), `clear`/`bump` (`clear_job_if_current`).
- The node is external: `tip` has a height and a version, so a chain replaced at
  the same height differs; `requests` holds submissions it has not processed,
  also those the miner has given up on; `Answer` may lose the reply.
- `Wins` says which nonces meet the target. It is a constant: TLC explores all
  orders of the threads for a fixed outcome of the hashing.

`sealed` is `State.sealed_blocks` seen as the set of seals it was told of;
`announced` and `cleared` are the ids of emitted `job` and `job_cleared` events.

Not in this module: hash counters, the statistics of the round, the optional
calls that only fill dashboard events, the re-announcement rules of log lines.

### PoolMining

The pool's session and the same workers, once more over `WorkSlot`: the writer is
only the session, which owes an increment at `"bump"` (`install_job`) and at
`"clearBump"` (`clear_connection`). Variables and code:

- `spc` is where `run_session` is: `connect`, `login` (a login that cannot be
  written returns *before* `clear_connection`, so `State` keeps the dead
  connection), `read` (one message at a time), `bump`, `clear`/`clearBump`. A
  message of the pool is modelled where the session reads it: a job (also the one
  in the login reply), the answer to a share of this connection, an answer to
  none. `handle_message` tells answers from other replies only by
  `FIRST_SUBMIT_ID`, so a pool that answers twice frees a place too many
  (`StrayAnswer`).
- `connection` is `State.connection`, `pending[c]` the counter of each
  `Connection`, `nextRequest` numbers the shares.
- `wpc[w]` is where worker `w` is: `loop`/`read`, `hit` (the generation is
  compared once more), `take` (the read lock of `State.connection`,
  `reserve_share`), `write` (`write_json`), `count`. From `write` on the worker
  holds the read guard (`HoldsConnection`), so that the session can neither
  replace nor clear the connection; the write may block on a pool that does not
  read until the socket's write timeout ends it (`WriteFails`).
- A share may be answered before its sender has counted it, and a share of an
  old job may go out over a new connection: both are behaviours of the model.

Line framing, the contents of a job and the reasons for which a message ends the
session are abstracted to a message that is read or a session that fails.

### FastDataset

`manager` is `SharedDatasetState`: kind (`SharedDatasetOutcome`), the key it is
filed under, the dataset and the key of a draining predecessor. `arc[w]` is the
`Arc<Dataset>` worker `w` has in its hands or in its VM, so
`Arc::strong_count(&previous) > 1` is `StillOwned`. `wpc[w]` follows
`randomx_hash`: `ask` (`shared_fast_dataset`), `build` (the allocation, which
takes seconds with the mutex held and is therefore two steps), `attach`
(`Vm::fast`), `release` (`release_fast_dataset_if_unused`), `light`
(`build_light_vm`). Times are booleans: `manager.waiting` is `now < retry_at`,
`overdue[w]` is `now >= retry_fast_at`; they change in actions of their own, at
any moment. Allocations of a dataset, a VM or a light cache fail whenever
`UpsetBound` allows.

### BlockFeed

One step is one call of the session to the node together with what the code
decides from the reply, so the chain moves between any two calls. `PollBaseline`,
`PollAdvance` and `PollUnchanged` are the three results of
`TipWatch::observe_tip`; `FeedFetched` and `FeedFailed` the loop over the
reported heights; `BackfillFetched` and `BackfillFailed` the strip's backfill;
`EmitFlow` the `block_flow` event with its tiles; `NextSession` a session that
fails and the next one's `begin_session`. `TipWatch` is `lastTip`,
`needsBaseline`, `reported`; `RecentBlocks` is `cache`; `SealedBlocks` is
`sealed`. A block is a number and its hash is that number; `discloses` is chosen
at the start, since the node may not disclose hashes at all. `answers` holds
accepting replies on their way to the worker, so a block may be seen on the chain
before `record_sealed_block`, or never be recorded. The variables marked
*history* only record what was printed.

Assumption on the node: it answers a height it does not have with an error, as
the repository's own test node does. `rpc.rs` lets a `result: null` through as a
reply; a node that answered that way would mark the height as fetched with its
hash undisclosed.

### EngineSupervisor and EngineLease

`EngineLease` is the promise: at most one engine, launched only while the
operator wants one, replaced a bounded number of times until it has proved
itself. `EngineSupervisor` is the code, and `LeaseSpec` says that it implements
the lease, with `alive` the processes that have not ended, `wanted` the
operator's last word and `spent` the automatic launches since the last Start or
renewed budget. Variables and code:

- `proc[e]` is the operating system's: a process that runs, that was killed and
  has not ended yet (`"dying"`), or that ended with a code nobody has waited for.
- `child`, `quarantined` are the two `Child` handles of `MinerApp`;
  `pendingExit`, `pendingFailure` an end that waits for the last output;
  `requestedStop`, `fatalSeen` and `recovery` the fields of those names.
- `queue`, `readers` are the `sync_channel` and the two threads that fill it.
- `step` is where a frame is. `poll_process` is split into `DrainOne`/`DrainEnds`
  (`drain_process_messages`), `Observe` (`try_wait`), `Settle`
  (`finish_exited_child`, `finish_observation_failure`, the quarantine),
  `Watch` (a reader that ended while the child lives) and `Relaunch`, because the
  process and the readers move in between. `Start`, `Stop` and `Close` are the
  operator's, between two frames.
- Every call of the operating system that the code handles the failure of may
  fail: spawn, kill, wait, `try_wait`, the pipe readers' threads.

Times are three values (`never`, `lately`, `long ago`) that clocks advance. The
exit codes are the classes the code tells apart, per platform.

### TelemetryView

Both ends of the pipe: what the session, the workers and the reporter do to the
engine's shared state, and what each event does to the dashboard. An event is
composed and written in two steps wherever the code reads shared state before it
takes the lock of stdout (`TellsShare`, the reporter's `SampleRound`,
`SampleSlot`, `EmitMetrics`); it is one step where the event is written under the
lock of the slot (`PublishJob`, `ClearsJob`). `pipe` stands for the pipe, the
reader thread and the window's queue together, a bounded FIFO; `Show` applies one
event by `Apply`, which has one operator per event as `apply_telemetry` has one
arm. `view` holds the fields of `MinerApp` that telemetry writes. `done` is a
history: the hashes that were really made for jobs of each height.

### SettingsFile, MemoryPreflight, DiagnosticsLog

`SettingsFile` takes one action per file-system call of `load_settings_at`,
`save_settings_at`, `replace_settings_file`, `recover_windows_settings` and
`write_crash_report_at`, for any number of windows. `dir` is the directory as
processes see it, `past` the directories a power loss may leave (those since the
last directory sync), `data` whether a file is complete, and complete on disk. A
content is the number of the file it was written to. `Crash` kills a process,
`PowerLoss` the machine, `CallFails` fails any call.

`MemoryPreflight` follows a scan of the memory through the window (a background
scan every ten seconds, a synchronous one before each start), the confirmation
that stands in for an unavailable scan, the command line, and the engine's own
gate (`RandomxMemoryGate`, `resolve_headless_memory`). On macOS a scan is a
process: `scan` and `child` are where `query_memory_counters` is, for each of
three threads. Memory is counted in units and read anew by every scan.

`DiagnosticsLog` has one action per call of `init`: list, remove one, open; and
the lines that keep a log recent.

### NodeCall, StreamLines, JobIntake, MempoolView

`NodeCall` is one `rpc::call`. `now` is the time since it began and `wake` when
the system call in progress returns at the latest: `DeadlineStream` gives every
read and write what is left until the deadline. The reply is not chosen
beforehand; every read returns some piece of it, so the peer may trickle, stall,
close, or send lines of every kind the parser tells apart, in any order and
number. `InTime`, `Bounded` and `Framed` are proved as well.

`StreamLines` has the window's reader of child output, the pool session's reader
of JSON lines and the reader of memory_pressure, over a writer that writes any
bytes in pieces of any size. Bytes are the four classes the readers tell apart.

`JobIntake` decides every template and pool job in one step; the work is in its
operators. Offers are honest ones over all compact bits and all short accounts,
and an honest one with one or two of its fields changed in every modelled way
(`Deviations`), so that each comparison of `Job::from_rpc` is for some offer the
only one that stands between a lying node and a job. `CompactExact` compares
`target_from_compact`, which works on bytes, with the number the compact form
means; the digits are of base 4 and a target has four of them, the arithmetic is
the code's.

`MempoolView` compares the packing of the histogram, which the code does bucket
by bucket with a cap and saturation, with a reference that deals out single
transactions, and follows the event to the panel's states, the backlog trend and
the block-time bars.

## Runs

| Run | Instance | Shows | States |
|---|---|---|---|
| `direct` | 2 workers, both winning, 1 tip move, 1 upset | `WorkSlotSpec`, `Coherent`; no job is hashed before its event; a late answer never takes current work away; every submission counted once; accepts are blocks of the chain; only the requested account is paid; no submission outlives its session | 1.2 M |
| `direct_live` | as above, one winner, `FairSpec` | a teardown ends although the node may never answer; all workers end up on work for the tip | 0.8 M |
| `direct_block_found` | 1 tip move | **violation**: an accepted block without its `job_cleared` event | |
| `dataset` | 2 workers, 3 seeds, 2 changes, 2 failed allocations, `FairSpec` | at most one dataset; VMs read the memory of their key; no idle dataset; fast mode returns | 1.6 M |
| `feed` | limits of 2, 7 blocks, 1 of ours, 1 failure, `FairSpec` | no silent height; a height is announced again only once the chain grew past it by the whole memory; YOURS is true; feed and strip agree; the strip fills | 1.1 M |
| `feed_reorg` | depth 3 | **violation**: a replaced block stays in the strip | |
| `pool` | 2 workers, 2 connections, 2 jobs, 2 shares, 1 upset, `FairSpec` | `WorkSlotSpec`; the counter of outstanding shares; submitted shares and answers agree; no work of a session that is gone; a failed session gives its connection up and its workers leave its work | 1.6 M |
| `pool_share_each` | 1 connection, 3 shares | **violation**: one worker with two outstanding shares | |
| `supervisor` | 2 process names, 1 restart, a queue of 1, 1 message a frame, Unix and Windows, `FairSpec` | the lease; one engine; nothing left behind an offered Start; a stop that silences only its own engine; exits told after the last output and with the right reason; a stop and a recovery that come to an end; no engine outlives the window | 0.6 M |
| `telemetry` | seven engines, each with room for one kind of trouble, `FairSpec` | live work is shown and dead work cleared; an accepted block is told as found; workers, phase and health agree; hashes stand beside their own height; nothing bridges two sessions; counters catch up | 0.8 M |
| `host` | settings: 3 files, 2 windows on Unix or 1 on Windows, 1 failed call, 1 crash; memory: 2 workers; logs: a limit of 3, 8 logs | no torn, lost or resurrected settings; crash reports kept; the two memory gates agree; scans answer; logs bounded and the live one kept | 0.6 M |
| `replies` | call: deadline of 3, 4 header and 1 body pieces; streams: lines of 3, 6 bytes; targets of 4 digits; histograms of 3 buckets | calls in time, bounded, framed; lines whole; jobs are what the header says; packing, depth, trend and block times are exact | 0.5 M |

In the direct runs an *upset* is a failed poll or template, a panic, a request
that reaches the node after its call has ended, or a timer refresh of work that
is still current; in the pool's, a panic or an answer to no share.

### Why the bounds are enough

- Two workers are the least that race with each other and with the session for
  one slot; the theorems cover any number.
- One tip move and one upset let a session fail while a submission is in flight
  and the next session meet its answer, or let a template be replaced while a
  worker still holds the old one. `NonceBound` of 1 leaves each worker one nonce
  per template, which both may win.
- Three seeds and two changes give `ready -> releasing -> retarget -> promote`;
  two failures give a dataset that is built but attached by nobody. Two handles
  are enough for two datasets to coexist if the manager let them.
- The feed's limits are scaled down, keeping their order `MAX_GAP_BLOCKS <=
  RECENT_DEPTH <= MAX_REPORTED_TRACKED`, so that seven blocks overflow each of
  them, and the chain may be rebuilt below the memory and regrown: the model
  reaches a second announcement (it does not with six), so `AnnouncedOnce` is not
  vacuous. One block of ours does not overflow `SealedBlocks`; that a forgotten
  seal makes no false claim is covered by the theorem `HonestAttribution`.
- Two connections let a worker hold one while the session is on its way to the
  next; with two shares and a limit of two, a place that is not given back is one
  that is missing, and one answer too many is enough to free a place that is
  taken.

- Two process names are enough to refute `OneEngine` and the lease: a second
  engine beside one that could not be killed. One restart and one message a frame
  leave room for a budget that is spent and for output that outlasts an exit; a
  queue of one makes the readers wait, which is when an exit and its last output
  part.
- The engines of `telemetry` (`MCScopes`) each combine the bounds that one
  property needs: two sessions with two jobs, three jobs at two heights with a
  hash in hand, two shares of one worker and of two, two troubles of two workers.
  A pipe of two lets an event be overtaken by the state it was composed from.
- Three settings files are the old one, the one being saved and a third of another
  window or a second save. Two windows on Windows are left out of the run on
  purpose, see *Observations*.
- In `replies` a header budget of four pieces holds a status line, two further
  lines and the end, so a length may come twice, or be followed by a forbidden
  line; lines of three bytes and six bytes written give an overlong line with one
  after it, with a return, a newline or a wide character at the limit. Base 4 and
  four digits have mantissas that are short, negative, zero, cut off at either end
  and too large. Three buckets and a cap of one or three blocks let a bucket span
  blocks and a tail be merged.

### Fairness

- `direct_live`: weak fairness of the session thread's steps and of each
  worker's. Both loops have no exit and every call has a deadline
  (`DIRECT_RPC_TIMEOUT`), which is the disjunct `Deadline` of `CountRejected`.
  Nothing is assumed of the node. The failure of a poll is not a fair step.
- `dataset`: weak fairness of each worker's steps and of the two delays
  (time passes). Failures are not fair.
- `feed`, `feed_reorg`: weak fairness of the session's steps; a failed call
  is a step of the session, and `FailBound` says how many calls fail that would
  have been answered.
- `pool`: weak fairness of the session thread's own steps and of each worker's.
  A write ends, if in nothing else, in its timeout (`set_write_timeout`), so
  `WriteFails` is among the fair steps and `Write`, which needs the pool to take
  the share, is not. Nothing is assumed of the pool: it may never push a job,
  answer a share or close the connection. A worker's read guard delays the
  session by one write at a time; the code's `RwLock` is the standard library's,
  which lets a waiting writer in. In the model the bound on shares is what ends
  such contention.

- `supervisor`: frames are drawn (the window repaints on a timer while an engine
  is active), its clocks go on, a pipe whose writer is gone ends, a kill the system
  accepted takes effect, and the engine's watchdog, which writes every two
  seconds, ends it when the pipe is broken. One strong fairness: a quarantined
  process that has ended is seen to have ended at some frame, since every frame
  asks again. Nothing is assumed of an engine that runs.
- `telemetry`: the reporter goes on and frames are drawn. Nothing is assumed of
  sessions and workers.
- `host`: scanning threads run and their deadlines pass. Nothing is assumed of
  the scanned child, which may hang for ever.
- `replies`: the call's own steps happen, time passes, and a system call returns
  when its timeout does. Nothing is assumed of the peer.

The first eight runs check for deadlock. The last four say `CHECK_DEADLOCK FALSE`:
a closed window, an ended session, a returned call or an exhausted bound is where
these behaviours stop.

## What is proved

With TLAPS, for every value of the constants that satisfies the module's
`ASSUME` (any number of workers, any targets, seeds, limits and bounds):

**`WorkSlot`**: `SlotCoherent`, from the invariant that nobody remembers a
generation that has not been announced yet.

**`DirectMiningProofs`**: type correctness, the refinement `ImplementsWorkSlot`
(and from it and `SlotCoherent`, `Coherent`), and the safety properties of the
runs. `Coherent` is not inductive in `DirectMining`; going through the
refinement needs only the type invariant. The inductive invariant of the others
adds: a seal recorded as ours was accepted by the node, a positive reply that
has arrived is true, an accepted seal's tip has been left, a worker inside a call
or a clear keeps the endpoint up, work in any hand was announced and pays the
requested account. The counters need one more: `sealed` is finite and `accepted`
is its cardinality. A positive reply is about a seal that is mined and not yet in
`sealed` (`ReplyTrue`), and stays so because the node accepts a seal only while
its parent is the tip: a mined seal has left the tip (`MinedLeftTip`), so a second
copy of it is refused.

**`PoolMiningProofs`**: types, the refinement, and the run's safety properties,
for any number of workers and any pool. That a counter stays within the limit is
part of the type invariant. `WorkIsLive` follows from `SlotCoherent` through the
refinement, with the invariant that the slot is empty from the moment a
connection is given up until the next one has logged in (`SlotJobLive`).
`PendingAccounts` and `AnswersAccounted` compare counters with cardinalities;
they are inductive together with `SharesDistinct`: a share is known by its id and
its sender, and one being written is not in flight yet, so that every step moves
exactly one element between the sets counted.

**`EnginePartsProofs`, the dataset**: `OneDataset`, `EngineMatchesKey`, `NoIdleDataset` and
types. The key is the ownership invariant `Managed`: every dataset a worker has
is the manager's. So a manager without one means there is none (`BuildAlone`
adds that the manager is empty during an allocation), and a worker's handle has
the seed the manager filed it under (`FiledRight`). `NoIdleDataset` needs what a
worker holds at each place of `randomx_hash` (`Hands`) and that a light-only run
never reaches the manager.

**`BlockFeedProofs`**: the four safety properties and types, for any limits with
`MaxGap <= RecentDepth <= MaxReported`. The argument is that the feed forgets the
lowest heights first: a height it knew and no longer knows is outnumbered by
`MaxReported` remembered heights above it. That makes a second announcement
imply a chain that grew past it by that much (`NoRepeatedLine`), and keeps a hash
the cache still has from being forgotten and learnt anew as unknown
(`FeedAgreesWithStrip`). Attribution needs that recorded seals are accepted
blocks and that cached hashes were disclosed.

**`EnginePartsProofs`, the call**: `InTime`, `Bounded`, `Framed` and types of a call, for any
deadline, budgets and peer. `InTime` needs only that a system call in progress
ends at the deadline (`InCall`). `Bounded` needs that the call ends with the
piece that exceeds a budget, and that a body read in progress has room
(`Budgets`). For `Framed` the invariant says what the lines read so far can have
been at each stage of the parser (`Heard`).

**`EnginePartsProofs`, the jobs**: `JobIsSound`, for any base and number of
digits, any offers of the modelled kinds. What `target_from_compact` computes
byte by byte is the number the compact form means, or no target exactly when its
sign bit is set or it needs more than `Width` digits (`CompactIsExact`, through
`PlacedIs`, `EndingIs` and `OverflowsIs`). That rests on arithmetic of digits: the
leading digits of a number are its quotient by a power of the base (`LeadingIs`),
and the digits of a number spell it (`ValueOfDigits`). These are inductions. The
library's induction theorem takes an operator, which the provers cannot
instantiate; `Induct` and `Iteration` take a set and a function instead, and
follow from the least element of the set of counterexamples (`WFMin`).

**`EnginePartsProofs`, the streams**: `StreamsAreWhole`, for lines and streams of
any length, any bytes and pieces of any size. Each reader is always in a line
that begins after some byte `p` of what was written (`InChildLine`, `InPoolLine`;
`CommandInv` for the reader that takes the whole output), and what it holds of
that line is the line so far or, once too long, a beginning of it with the mark.
The lines handed on are the lines that are complete up to `p`, each as the limit
leaves it (`HandedOnRight`): a newline that is read completes exactly one line
(`CompleteNext`), a byte that is none completes nothing, and a line once complete
stays what it is however much follows (`CompleteGrows`, `CompleteAppend`).

**`EnginePartsProofs`, the panels**: `PanelsAreTrue`, for any width of the
counters, any caps and limits, any reply of the modelled kinds and any number of
samples and bars. The invariant (`PanelInv`) says what is on its way and what is
shown: the event is that of the last reply, a view without an event on its way
is too, and the samples are those of this session, oldest first (`Observed`). The
rest is what the operators compute:

- `ViewIs`: a reply parses exactly when it is sound (`SoundIsParsed`), and what
  the engine sends of it the window parses whole.
- `PendingIs`: the packing. A turn of `packed_pending_blocks` keeps `Packings`
  (`TurnKeeps`): every block holds the next `capacity` transactions and the rates
  they span, but for the last, which has room left or, at the cap, all of the
  tail. Each turn leaves a bucket behind or places a transaction, so after as many
  turns as there are of both everything is placed (`PackedIs`).
- `DepthIs`: the depth is the number of blocks the packing would have without a
  cap, so its headline and the drawn blocks agree.
- `BarsAre` and `SortedIs`: the bars are the newest pairs of parent and block and
  the sorted intervals are all of them, because ranks in a total order of a finite
  set are the numbers up to its size (`RankIs`, an injection of a finite set into
  one of its size). The n-th interval therefore has n of them at or below it and
  the rest at or above, which `MedianOfBars` and `MeanOfBars` need, with a division
  that rounds towards zero (`QuotientBetween`).

The chains an event carries are those of `Chains` (five blocks, a gap or none,
any declared times); what is used of them is only that heights descend (`IsChain`).

**`EngineSupervisorProofs`**: `HoldsWhatIs` (`SupervisorHolds`), the action
property `EndIsTold` (`ExitIsTold`) and the refinement
(`SupervisorImplementsLease`), for any number of processes that could be engines,
any queue, frame and restart budget, on every platform. The inductive invariant
has three parts, and none of the properties is inductive without them:

- `Handles`: an open window holds every process that is not reaped (`OwnsAll`),
  there is never a second one (`AtMostOne`), and the child, the quarantine and the
  two ends still to be reported exclude each other (`OneHandle`). `OneEngine`
  follows; it alone says nothing of a process that was killed and lives on.
- `Output`: output is read and a link shown only of an engine whose end is not
  told yet (`Heard`), and a frame that found the output at its end has all of it
  (`TailRead`). This is what lets `finish_exited_child` decide on a restart.
- `Plans`: a restart is planned only for an operator who wants one, and
  `attempts` counts the launches and the planned one (`Planned`).

The refinement maps a Start to `Give`; a Stop, a Close and a window that dies to
`Revoke`; `Relaunch` to `Replace`, whose bound is `launches + 1 = attempts <=
MaxRestarts`; the message that gives the budget back to `Renew`; the end of a
process, or losing sight of one, to `End`; every other step is a stutter.

**`TelemetryViewProofs`**: `DashboardIsTrue`, which is `DashboardTrue`, for any
number of workers, heights, sessions, jobs, hashes, shares and troubles, and any
pipe. What is shown lags behind the engine by what is still in the pipe, so the
invariant says what the view will be when the first n events have been read:

- the link, and whether a worker is ready and whether it has failed, are switches
  that some events turn on and some turn off (`Latch`); read to the end, those of
  a worker are its own state;
- a job announced stays on display from its own event on (`Stays`); the one
  sample that was composed before the job was installed is the first that follows
  it, and cannot take it off;
- between two block flows of different sessions lies a `session_error`
  (`FlowsKnown`);
- every round told or to be told has its hashes made at its height (`RoundsMade`),
  and an engine that could not start has told of nothing else (`Unborn`).

A step writes an event, reads one or is silent. Each part is kept when one is
written by what the writer knows of the state (`Moves`), and when one is read by
what it makes of the view (`ShownAs`); both are established once for every step.

**`OperatorHostProofs`**, for any number of windows, files and logs, any memory
and any needs of RandomX:

- `AcknowledgedIsKept`: the types of `SettingsFile`, `NeverTorn`, `SavedSurvives`
  and `ReportKept`, without a hypothesis. A file is complete on disk before a name
  that matters shows it, and a file that is being written belongs to one window
  (`DiskInv`).
- `SettingsAreKept`: all of `SettingsKept`, under `Lone`: the platform is Unix or
  there is one window. `FoundAgain` and `Recoverable` are false of two windows on
  Windows (see *Observations*): between the two renames of one of them the other
  finds no settings. The invariant `LoneInv` says where the last and the last but
  one file are at every step of `recover_windows_settings` and
  `replace_settings_file`.
- `PreflightIsSound`: `PreflightSound`. What the engine was started on was safe
  when it was decided, and a confirmation stands beside the count it was given
  for.
- `LogsStayBounded`: types and `LogsBounded`. A process that is between its
  listing and its own log owes removals: for every set of processes about to open
  a log, those that will remain and the set itself fit in `Retained +
  |Processes| - 1`. The bound on the directory is the case of everyone having
  opened.
- `LogsAreKept`: all of `LogsKept`, under `OneRun`: one window at a time, which
  writes a line about each engine it starts, and more than two logs retained. Each
  of the three is needed: a second window's engines, or a window that is silent
  under `XUS_MINER_LOG=error`, prune a log that is still written to.

Only model-checked: every liveness property (`TeardownCompletes`, `FreshWork`,
`FastAgain`, `StripFills`, `WorkersFollow`, `StopCompletes`, `Recovers`,
`NoOrphan`, `DeadWorkCleared`, `CountersCatchUp`, `ScansAnswer`, `CallEnds`),
since fairness and ENABLED are beyond the prover, and that the violations are
reachable. Every invariant and action property of the passing runs is a theorem.

## Findings

1. **An accepted block without BLOCK FOUND** (`direct_block_found`). The GUI's
   confirmation hangs on `job_cleared`, which `clear_job_if_current` emits only
   while the slot still holds the accepted job. If the session polls the new
   height and installs the next template before the worker has read the node's
   reply, the block is counted but not confirmed on screen (README.md:90-91).
2. **A replaced block stays in the strip** (`feed_reorg`). `refresh_targets`
   names only heights that are not cached and the feed fetches only heights above
   the last tip, so a cached block that is replaced at or below the tip is never
   fetched again (blockflow.rs:622-623, CHANGELOG.md:147-148).
3. **One worker may use up everybody's shares** (`pool_share_each`). A comment
   says that each worker has at most one share awaiting a response
   (main.rs:1744-1745); the counter and its limit are one per connection, so one
   worker may have all of them and another's first share is dropped.

## Observations

Behaviours met while modelling that contradict no sentence of the repository, or
only a comment about another program, and so are no findings:

- *Stop during a pending exit.* `stop` while an exit waits for its last output
  shows Stopping but leaves `requested_stop` unset, so a queued `job` event may
  show Mining again until the queue is drained.
- *Phase after a failed cleanup.* A stop whose quarantined process cannot be
  ended leaves "Reconnecting" on screen, and nothing changes it when that process
  is reaped later (gui.rs:2109-2130). `NothingBehindStart` therefore speaks of
  what is offered and not of every phase.
- *Stop and exit code 1 on Windows.* The comment at gui.rs:659-662 says that
  TerminateProcess fails for a process that has ended. The standard library's
  `Child::kill` returns `Ok` for it, so an engine's own exit with code 1 that
  races a stop is shown as stopped.
- *Phantom height.* A sample composed before a session ended and written after
  `session_error` or `job_cleared` shows the old height, without a job, until the
  next job or the next jobless samples. Share events may show more accepted than
  submitted shares for a moment. `LiveWorkKept`, `DeadWorkCleared` and
  `CountersCatchUp` say what does hold.
- *Settings.* With two windows on Windows one may look for the settings between
  the two renames of the other and find none; it then starts from defaults, which
  it saves when it closes (`FoundAgain` fails for `WindowsWindows = {g1, g2}`). A
  load that fails has the same effect. A crashed or failed save leaves a temporary
  file that nothing removes. On Windows no directory is synced, so that a power
  loss may undo a save that returned Ok.
- *Logs.* With `XUS_MINER_LOG=error` the window writes no line about an engine it
  starts, and enough restarts prune its own log (`WindowLogKept` fails for
  `Verbose = FALSE`). A second, idle window has the same fate.
- *Name resolution* is outside the deadline of a call (main.rs:1706): a call may
  be late by the time it takes, and then waits for nothing more.
- *Algorithm and key.* The header a node's template is checked against
  authenticates id, height, time, target, version and proposer, but not the
  algorithm or the RandomX key the JSON names. In a pool's job, a
  `network_target_full` or `coinbase` that is present but not a string hides the
  other name of the field.
- *A child line of exactly the limit* followed by CR LF is cut and marked,
  although without the CR it would fit.

## Not modelled, and why

- Rendering and input of the GUI: they draw and edit state the parts above keep.
- The native RandomX binding beyond ownership: an allocation succeeds or fails;
  hashing is a nonce that meets the target or does not. Its flag fallbacks are
  inside one allocation.
- Floating point: rates, the hazard sum of a round, expected hashes.
- Decoding of hex, JSON and borsh: fields decode or do not.
- The optional dashboard calls of the direct session (peers, difficulty, fees),
  which only fill fields of events.
- Rotation of a log by size, the panic hook, the wording of logs and reports.
- The command line and the CI scripts.
- In `MemoryPreflight` an abandoned background scan ends before the next one is
  started; in `SettingsFile` which fields a settings file has is left out.

## Plan for the proofs

Every invariant and action property of the passing runs, and the refinement of
`EngineLease`, is a theorem. What is left:

- The parts of the conjunctions that a run checks (`PanelsTrue`, `JobSound`,
  `StreamsWhole`, `DashboardTrue`) stated as theorems of their own where a part
  holds under weaker assumptions than the whole, as `AcknowledgedIsKept` and
  `LogsStayBounded` do for theirs.
- `MempoolView`: any chain of descending heights in the place of `Chains`; the
  proofs use no more of it than `IsChain`.
- Two hazards have no property: a block that the node shows before
  `record_sealed_block` runs (main.rs:1931), and a share that is checked on one
  connection and written on the next (main.rs:1957). The models allow both, and
  no document promises otherwise.
