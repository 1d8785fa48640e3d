# TLA+ models of AlpaGym

AlpaGym trains driving policies in closed loop: Cosmos-RL schedules prompts, rollout workers drive
them through the AlpaSim simulator with the current policy, and policy (trainer) processes learn from
the episodes.  A host process validates the configuration, starts simulators and Cosmos, and takes
them down again.  This directory holds TLA+ modules for the parts of that program whose correctness
depends on the order in which threads, processes and messages act, or on arithmetic that several
places have to agree on, the TLC configurations that check them, and TLAPS proofs.  Paths below are
relative to `src/packages/runtime/src/alpagym_runtime/` unless they start with `host/`, which stands
for `src/packages/host/src/alpagym_host/`.

Contents: [inventory](#inventory), [modules](#modules), [runs](#runs),
[bounds](#bounds-and-why-they-are-enough), [fairness](#fairness), [proofs](#proofs),
[what the runs found](#what-the-runs-found), [not modelled](#not-modelled), [plan](#plan).

## Inventory

| Component | State | Operations | Talks to |
| --- | --- | --- | --- |
| NCCL sender, `transport/nccl/sender.py` | held, claimed and discarded transfers under one lock; `_comm_idx`; a daemon thread | `send`, `release`, `wait_until_drained`, `close`; the poll loop | rendezvous, NCCL, TCPStore |
| ACK rendezvous, `transport/nccl/rendezvous.py` | request, state and ACK keys per transfer in the TCPStore | `request_ack` (reader), `process_request` (sender) | both ends |
| NCCL receiver, `transport/nccl/receiver.py` | routing tables: communicator, rank and prefix per rollout | `setup`, `recv`, `close` | rendezvous, NCCL |
| Egress writer and packer mixin, `transport/nccl/endpoints.py`, `payload.py` | manifests in the TCPStore; the cleanup subscriber thread | `write`, `release`, `flush_pending_sends`, `start_cleanup`, `close`; `get_policy_input`; `pack_completion`, `unpack_completion` | sender, receiver, Redis |
| Rollout filter and cleanup hooks, `cosmos/rollout_filter.py`, `cosmos/nccl_cleanup_hooks.py` | the rollouts of a step; Cosmos's rollout buffer | drop the excess; publish on clear | Redis |
| Communicator bootstrap, `transport/nccl/comm_init.py` | rank counters, unique id, ready markers in the TCPStore | `assign_rank_once`, `_get_or_create_uid`, `_wait_for_all_ranks_ready`, `init_communicator` | TCPStore, NCCL |
| Streaming rollout worker, `episode_runner/streaming_worker.py` | index of live payloads, priority queue, shared payload states, threads | `submit_payload`, `_on_rollout_succeeded`, `_on_rollout_failed`, `shutdown` | AlpaSim, driver |
| Rollout backend, `cosmos/rollout_backend.py` | the worker, driver and engine it owns | `init_engine`, prefetch, `rollout_generation`, `shutdown` | streaming worker, driver, engine |
| Egodriver server, `alpasim/driver_server.py`, `tick_buffer.py`; expert client and service, `src/scripts/dagger/` | sessions, tick buffers, session records, expert futures, collector threads | `start_session`, `submit_*`, `drive`, `close_session`, `pop_session_record`, `stop` | AlpaSim (gRPC), policy, expert |
| Inference engine, `inference/inference_engine.py` | request queue, futures | `infer`, `run_loop`, `shutdown` | driver threads |
| Rewards, `rewards/` | none | `compute_reward` on a record | streaming worker |
| Data packer, `cosmos/packer.py`, `replay.py`; disk transport, `transport/disk.py` | one file per episode, or the writer | `get_rollout_output`, `get_policy_input`, `policy_collate_fn` | transport, trainer |
| GRPO trainer, `cosmos/trainer.py` | model, reference model, optimiser; the collectives of a step | `step_training`, `all_reduce_states`, checkpoints | packer, other replicas |
| Performance instrumentation, `perf/` | scopes, timing and metric stores, monitor and flush threads, one artifact per worker | `measure_perf`, `initialize_perf`, `shutdown_perf`, the report | everything it times |
| NCCL store bootstrap, `cosmos/nccl_store.py` | `nccl_master.yaml` | bind, publish, poll | topology registry |
| Run lifecycle, `host/run_lifecycle.py`, `endpoint_registry.py`, `alpasim_wizard.py` | Wizard processes, the registry directory, the flock | `execute_run`, publish, acquire, reset | subprocesses, Slurm |
| Topology and configuration, `host/run_topology.py`, `config*.py`, `slurm.py` | placement plans | pure functions, validation | lifecycle |
| Caches, `host/alpasim_dependency.py`, `slurm.py` | images by digest, checkouts by commit | look up, build, publish | registry, git |
| Policy packages, `src/packages/policies/`; DAgger scripts | networks | numerical | |

### What is hard, and what correct means

* **Transport.** NCCL has no probe, no cancel and no tags.  Sender thread, policy ranks, discard
  subscriber, weight sync and close act on the same transfer in any order.  Correct: a send is posted
  only if the matching receive is, for the same transfer; tensors have exactly one owner; each handle
  is read at most once and leaves nothing behind; a failure frees everything behind it; no read
  blocks the policy loop for ever; no data send overlaps a weight broadcast.
* **Bootstrap.** Ranks come from counters that refused processes give back in a second operation.
  Correct: ranks and replica ids are unique, communicators are whole and built on one unique id, an
  over-launched job still comes up.
* **Streaming worker.** Siblings of one payload share a state, some of it written without the lock.
  Correct: every future is resolved once, with all episodes or none; no sibling is lost; the index
  of live payloads is exact; shutdown resolves what is left and dismisses every thread.
* **Serving.** AlpaSim's calls, the engine, the expert and the collectors interleave, any of them can
  fail, and the backend takes them down in an order.  Correct: labels belong to the tick they were
  asked for, records say what was done and are complete when popped, no call waits for a thread that
  has gone, and generation always returns.
* **Training.** Every rank decides for itself what it trains on and must make the same collective
  calls as the others.  Correct: lockstep, equal models, each valid step trained once per iteration
  as it was recorded, no step that loses its checkpoint in silence; a perf artifact that is complete
  although it is written while other threads record.
* **Launch.** Validation repeats arithmetic the launch does later; a run can end, be signalled or be
  requeued at every stage; files outlive attempts; runs share caches.  Correct: what is validated can
  be launched, what was started is stopped, signalled runs come back, runtimes are kept busy, and
  nobody runs a half-written artifact.

`PROJECT.json` lists the individual hazards at their lines, with the properties that cover them.

## Modules

| Group | Module | What it is |
| --- | --- | --- |
| Transport | `NcclState` | Constants, variables, type invariant and initial state of one rollout worker's transport |
| | `NcclSender` | The sender thread: one program counter, one action per region between two points where somebody else can act (a section under the lock or one TCPStore operation) |
| | `NcclReceiver` | A policy rank inside `get_policy_input`: manifest, request, wait, cancel, second wait, answer, receive, unpack |
| | `NcclWriter` | `write`, discard cleanup, trainer filter, `flush_pending_sends` and weight sync, `close` |
| | `NcclTransport` | Composes the three, adds the NCCL transfer itself, states the properties, the fairness and the refinement |
| | `Handoff` | The abstract specification: held tensors, an asking reader, one commit point |
| | `NcclInvariant` | The inductive invariant in three layers: `OwnershipInv` (sender memory), `RendezvousInv` (memory, keys and readers), `CommitmentInv` (nobody leaves a committed sender) |
| Bootstrap | `CommInit` | Communicator bootstrap for all replicas of a job |
| Rollout | `StreamingWorker` | The streaming rollout worker, alone and in full detail |
| | `ServingState` | The state of one rollout process |
| | `ObservationBuffers`, `InferenceEngine`, `EgoDriver`, `EpisodeReward`, `RolloutBackend` | The policy's buffers; the engine; the driver with its expert; which rewards exist; the backend that owns them |
| | `RolloutServing` | Composes them, with the properties |
| Launch | `RunTopology`, `ConfigValidation` | Placement plans and what the launch later demands of them; the config, what loads, and `validate_run_config` |
| | `LaunchState`, `ArtifactCaches`, `EndpointRegistry`, `RunLifecycle` | The state of a set of runs; the caches they share; the Cosmos workers that meet through the registry; `execute_run` |
| | `RunLaunch` | Composes them, with the properties |
| Training | `TrainingState`, `EpisodePayload` | The state; what both transports keep of an episode: the operators of `EpisodePayload` are the values of the state's constants `Ships`, `Arrival`, `Original` and `StepKinds` |
| | `ReplayPacking`, `GrpoTrainer` | What the packer and the collation make of an episode; the trainer on every rank |
| | `PerfReaders`, `PerfStore`, `PerfReport` | Readers and their windows; scopes, threads, teardown and artifact; the report over all artifacts |
| | `TrainingRun` | Composes trainer and perf, with the properties |
| | `TrainingInvariant` | The inductive invariants of the trainers, `TrainerInv`, and of perf, `PerfTypes` and `PerfInv` |
| Proofs | `NcclProofs`, `CommInitProofs`, `StreamingWorkerProofs`, `RolloutServingProofs`, `RunLaunchProofs`, `TrainingRunProofs`, `PerfProofs` | See [proofs](#proofs) |
| | `FiniteSums` | What the proofs need of sums over finite sets |
| TLC | `MC...` | Instances: one per composition, with the values of its constants |

### Transport: state and code

| Variable | Code |
| --- | --- |
| `pending`, `claimed`, `released`, `comm` | `NcclSender._pending_sends`, `_claimed_sends`, `_released_transfers`, `_comm_idx` and whether it was aborted |
| `spc`, `scan`, `scur`, `sown`, `speer` | position of the sender thread; the ids left in its pass; the locals `transfer_id`, `tensors_map is not None`, `requester_rank` |
| `meta`, `req`, `st`, `ack` | TCPStore keys `nccl_meta:`, `nccl_req:`, `nccl_state:`, `nccl_ack:` |
| `rpc`, `rcur`, `rcomm` | position of each policy rank, the handle it resolves, whether it still routes to this rollout |
| `fate`, `disc` | history of each handle (given to Cosmos, read, raised, received in vain, dropped) and of its cleanup message |
| `stray` | history: the transfers on which a store call failed that should have removed the manifest, or the keys of an accepted request |
| `listening`, `ccur`, `life`, `sync` | cleanup subscriber, the message in its hand, writer lifecycle, weight sync |

A transfer is one uuid handle; its tensors are abstracted to "held or not".  One rollout replica is
modelled: keys, registry and communicator are per replica and nothing is shared between them.
`_delete_rendezvous_keys` is one step, because a transfer is requested once and nobody tests its keys
for a partial set; it may leave any of them, as it swallows the error of each delete on its own.  The
constant `Events` says which environment events a behaviour may contain: discards, trainer drops,
failing publishes, store errors of the sender loop, of a reader (any call: check, get and delete of
the manifest, publish, request, both waits, cancel, answer), of the manifest delete of a cleanup and
of the delete of a rendezvous key, Redis errors, NCCL failures, late ACKs, close, a slow join, weight
syncs.  A store call that raises is taken not to have had its effect.  Everything that is not an event
(timeouts of every wait, expiry of a discard marker, all interleavings) is always possible.  Two
orders that Cosmos-RL guarantees are guards, both stated by the code that relies on them
(`sender.py:182-190`): a handle has one consumer, and a weight sync begins with no policy rank inside
`get_policy_input`.

Where NCCL appears: `NcclTransfer` is the pair of `nccl_send` and `nccl_recv`, enabled when the two
ends are at their calls, whatever transfer each has in hand (NCCL has no tags; `RightPayload` says
the transfers agree).  A sender that failed has `comm = "cleared"`; `close` aborts without clearing.

### Bootstrap: state and code

A process is a program counter inside `setup()`; `at` is the prefix it is setting up (a rollout
worker its own, a policy all of them in order).  `replicas`, `policyCtr`, `rolloutCtr`, `uid`,
`writers`, `ready` are the store keys.  `joined` is who has entered `create_nccl_comm`, which returns
when all ranks have.  `patient` fixes at the start whether waits can time out in a behaviour.

### Streaming worker: state and code

`prompt`, `collected`, `retries`, `failed`, `resolved`, `future` are the fields of a
`SharedPayloadState`; `future` is the sequence of results ever set on it, so that a second
`set_result` is visible.  `retryQ`, `freshQ`, `sentinels` are the priorities 0, 1, 2 of the queue.  A
thread stops between any two of: queue read, unlocked look at `permanently_failed`, `simulate()`, the
locked section, the resolution outside the lock, and each of the three unlocked writes of the
substitute-scene path (`streaming_worker.py:420-442`).  `simulate()` and all that turns its result
into an episode either works or fails; an exception anywhere in it is a failure, as in the code.

### Serving: state and code

| Variable | Code |
| --- | --- |
| `phase`, `tick`, `step`, `rpc`, `now`, `buf` | `_sessions`, `TickBuffer`, `step_index`, the position and locals of the `drive` handler, the policy's `ObservationBuffers` |
| `outputs`, `executed`, `truth` | `session.outputs` and the record's, `executed_poses`, `ground_truth` |
| `futures`, `ask`, `tokens`, `collector`, `record` | `expert_futures`, the query of each tick, `expert_action_tokens`, the collector thread, `_session_records` |
| `queue`, `batch`, `engine` | the engine's queue with its sentinel, the batch in the forward pass, its thread |
| `backend`, `accepting`, `job`, `session`, `tries`, `result`, `gen`, `given` | life of the backend, the gRPC server, per payload its job, session uuid, failures and future, and how far `rollout_generation` is |
| `drove`, `hurried`, `grace` | histories: who drove each executed step, a pop that did not wait, a grace period that ran out |

Sessions are numbered in the order their uuids are made: a retry has a session of its own, while
the abandoned one may go on making calls.  AlpaSim makes the calls of one session one at a time
(observations may overlap the drive of the tick before, as gRPC lets them).  Images are counted;
poses, routes and recordings are their timestamps.  Here a streaming worker is a thread per running
`simulate()` and a retry budget: the interleavings inside it are `StreamingWorker`'s.  Weight sync is
`NcclWriter`'s.  A `Load` fixes at the start what a behaviour contains and which faults it may have.

### Launch: state and code

A `Case` fixes the runs, the config and mode of each (whole, `ALPAGYM_WIZARD_ONLY`,
`ALPAGYM_COSMOS_ONLY`), how often Slurm or the user starts it, what an AlpaSim runtime reports as its
capacity, how far a tag or ref may move, and the faults.

| Variable | Code |
| --- | --- |
| `stage`, `attempt`, `struck`, `requeue`, `launched` | where `execute_run` is, which start this is, where SIGUSR1 met it, `requeue_for_autoresume`, the length of `wizard_processes` |
| `wizards`, `serving` | Wizard processes alive; those whose runtime accepts connections |
| `runtimes`, `assigned`, `drivers`, `master`, `lock` | the files of the topology registry, with the attempt that wrote them, and the holder of the flock |
| `controller`, `worker`, `seen`, `runtime`, `capacity`, `pidBase` | Cosmos processes, their locals, the pids of this attempt |
| `upstream`, `cache`, `key`, `draft` | what a tag or ref points at, the caches, what a run resolved and what it is building |

`Popen` and the append to `wizard_processes` are two steps (`StartWizard`, `AppendWizard`): a signal
handler runs between any two bytecodes.  Config values that are strings, paths or mounts are
abstracted to whether they are what the check wants; numbers stay numbers.  `Launchable` is written
from the code that runs after validation (the topology, the srun builders, the worker, the requeue),
not from the validation.  How many steps a rollout yields is not part of it: the validation has an
estimate of that, which neither the Wizard nor the trainer computes from the config (see
[what the runs found](#what-the-runs-found)).

### Training: state and code

| Variable | Code |
| --- | --- |
| `written`, `files` | the rollout worker's position, `artifacts_dir` |
| `stage`, `step`, `kept`, `samples`, `advantages` | where a rank's `step_training` is, the filtered rollouts, `_prepare_training_data` |
| `iteration`, `minibatch`, `left`, `trained`, `gradient` | the loops, the part of `randperm` not sliced yet, how often each row was used, the gradient of this minibatch as zero, signal or non-finite |
| `reduces`, `updates`, `reference`, `failure`, `saved` | collectives passed, optimizer steps, the reference model, why the rank raised, what the checkpoint left |
| `store`, `timer`, `rows`, `scopes`, `window`, `flusher`, `monitor`, `draft`, `published`, `teardown` | the perf store of rank 1's process, its threads, its artifact and where `shutdown_perf` is |

An episode is a session, a weight version, an advantage and one class per output (good, bad, odd
keys, nested, hollow, ...): the classes the packer, the codec and the collation tell apart.  What
raises in a step leaves the timed scopes it is in, so trainer and perf are one composition.

## Runs

| Run | Checks | Shows |
| --- | --- | --- |
| `transport_core` | `TypeOK`, `ExclusiveOwnership`, `ReadsAreOneShot`, `ManifestIsBacked`, `RetentionIsBounded`, `RendezvousInv`, `DecisionIsFinal` | The safety of the transport that holds whatever fails, and the invariant it is proved with: what a failed store call leaves behind is the only thing a read, a cleanup or a cancelled request leaves |
| `transport_commit` | `NeitherParksAlone`, `NoSendDuringBroadcast`, `CommitmentInv`, `ImplementsHandoff` | What also holds as long as committed requests are awaited, with every event but a late ACK and a failing store call of a reader: the transport implements `Handoff` |
| `transport_returns` | `RightPayload`, `EveryReadReturns` | With store calls failing at any point of a reader, late ACKs included, and a sender that may stop at any point: reads come back, and a request a failed read has left is never served to the next one |
| `transport_live` | `HeldIsFreed`, `AcceptedIsDelivered` | Discards and weight syncs, and no failure but of a manifest's publication and of its delete by a cleanup: memory is freed in the end, accepted requests are delivered |
| `comm_init` | `TypeOK`, `CommIsWhole`, `LaunchCompletes` | Bootstrap of an over-launched job, with and without timeouts: unique ranks, the sender last, one communicator on one id |
| `worker` | `TypeOK`, `ResolvedOnce`, `PayloadsAreTracked`, `EveryPayloadAnswered`, `ThreadsExit` | Threads, retries, drops, substitutes, shutdown at any point |
| `serving` | `TypeOK`, `LabelsMatchTicks`, `ActionsAreAttributed`, `ExecutedMovesForward`, `PoppedIsSettled`, `NobodyIsStranded`, `GenerationReturns` | The rollout process: concurrent sessions, retries, lost and failing expert answers, repeated poses, failing rewards, shutdown at any point |
| `launch` | `TypeOK`, `ValidatedRunsAreLaunchable`, `RuntimesAreSaturated`, `ArtifactsAreSound`, `NoWizardOutlivesItsRun`, `SignalledRunsComeBack` | Runs from config to teardown: every config one field away from three presets, requeues, failing Wizards and workers, shared caches, split hosts |
| `training` | `TypeOK`, `RanksStayTogether`, `RowsAreTrainedOnce`, `PerfSurvivesTeardown` | Up to three ranks with ragged, spoiled and malformed rollouts over both transports, failing saves, expert writes included, diverging gradients; the perf store of one rank with failing readers and threads, failed starts, and a teardown at every point |
| `transport_lone_sender` | `NeitherParksAlone` (violated) | A late ACK leaves the sender alone in NCCL |
| `transport_trainer_leak` | `HeldIsFreed` (violated) | A handle dropped by the trainer filter is never freed |
| `worker_shutdown` | `ShutdownResolvesAll` (violated) | Shutdown misses a payload on a substitute scene |

Some properties are conjunctions of named parts: `RetentionIsBounded` (the registry bound, and that a
failed sender holds nothing), `CommIsWhole` (`RanksAreUnique`, `SenderSitsLast`, `CommIsJoined`),
`PayloadsAreTracked` (`SiblingsAreConserved`, `IndexIsExact`), `RanksStayTogether` (`SameCollectives`,
`SameModels`, `FailuresHaveCauses`, `SavesAreKept`), `PerfSurvivesTeardown` (`ReportIsComplete`,
`NvmlOutlivesMonitors`, `ReadingsTile`).

`NeitherParksAlone` speaks of the ends that are still up: once a side has aborted its communicator the
other is released by the abort or its watchdog, which is `EveryReadReturns`.  `ManifestIsBacked` names
the losses a manifest can outlive, and both it and `ReadsAreOneShot` say what holds of transfers
outside `stray`; what a read that returned has done, and that a request is not decided twice, holds of
all.  `NvmlOutlivesMonitors` speaks of a process that has a store, not of one whose perf did not
start, and `ReadingsTile` says that no CPU time is counted twice, and none lost unless a reading
raised.  `SiblingsAreConserved` speaks of payloads without a substitute scene and
`EveryPayloadAnswered` of one rollout per payload.  `PoppedIsSettled` leaves out pops that ran out of
time, `NobodyIsStranded` a grace period that did, `NoWizardOutlivesItsRun` a signal between `Popen`
and append or inside the teardown, `RuntimesAreSaturated` a Cosmos-only run that was started again,
and `ReportIsComplete` a final write that failed: see [what the runs found](#what-the-runs-found).

Deadlock is checked in `training`, where every end is the action `Done`: a rank that waits for a
collective nobody joins stops it.  Elsewhere it is not: those models end when all handles,
processes or payloads are done, or wait for an environment that may stop.

### Bounds and why they are enough

* Transport: two transfers and two policy ranks.  One sender thread handles one transfer at a time,
  so two transfers give every pairing of the one in hand with another that is held, discarded,
  cancelled or lost with the communicator; two ranks give two concurrent rendezvous.  `MaxPending` is
  1 in `transport_core` and `transport_commit` so that the registry is full while a send is claimed,
  2 in `transport_live`, and 0 (unlimited) in `transport_returns`.  That run has one rank:
  `EveryReadReturns` is about one rank and whatever the sender does.  Both safety runs use symmetry
  (no liveness is checked there).  `transport_core` and `transport_returns` have no weight
  syncs, which only keep readers out.  `transport_returns` also has no failing delete of a rendezvous
  key, as no read meets a key of another one.  `transport_core` also has no slow join and no Redis
  error; `transport_commit` has them, and weight syncs, and checks the same invariant as a part of
  `CommitmentInv`, but lacks the two events that `CommitmentsAreAwaited` excludes.  `transport_live` has the failures that the transport
  makes good (`MendedEvents`).
* Bootstrap: two prefixes, so that a policy goes from one to the next; one configured policy and two
  surplus ones, two configured rollout workers and one surplus, so that two refusals overlap with an
  assignment.
* Worker: two threads, two payloads of one prompt, one or two rollouts each.  `MaxFailures` is the
  only bound that is not the code's: at most three `simulate()` calls fail in a behaviour, enough for
  a retry, a drop and a failure after the substitute scene.
* Serving: a batch of one, one context frame, one waypoint; seven loads, each with the faults that
  interact: `Pair` (two sessions at once, a failing forward pass, an overrun of the grace period),
  `Retry` (an abandoned session next to its successor), `Poses` (poses twice, early or late over two
  ticks), `Label` and `Mix` (an expert that labels afterwards or may drive, with late, lost and bad
  answers), `Compare` (a reward against recordings that come or not, and fit or not), `Blind` (a
  reward that can never be computed).
* Launch: every config that differs in one field from a separate-nodes, an all-in-one and a local
  preset, and a five-node one (`Placements`); three workers on two runtimes, requeued or started
  again by hand (`Requeued`, `Repeated`); the master endpoint of an earlier attempt with failing
  binds, Popens and workers (`Masters`); two runs that miss both caches while upstream moves once
  (`Shared`); a Wizard-only and a Cosmos-only host (`Split`), the latter signalled and requeued
  (`Rehosted`).  Slurm signals a run once per attempt.
* Training: two ranks, two steps, four episodes of at most three outputs; a minibatch that does not
  divide the pool, two iterations, KL with and without resets, more rollouts than a rank trains on,
  three ranks, one hopeless episode, one malformed episode of each kind, minibatches that mix odd or
  nested rows with usual ones, failing saves of the expert, of the rest and of both, diverging
  gradients, a step without rollouts; the same malformed episodes over NCCL; one measured rank with
  a thread that wedges, that is slow to exit or does not start, psutil or NVML calls that raise, a full
  disk, no device, a device that tells nothing, and a driver thread.

### Fairness

* `ReaderSpec`: weak fairness of each policy rank's steps.  Every wait in `get_policy_input` has a
  timeout, so an enabled step (the answer or the timeout) is taken in the end.  Nothing is assumed of
  the sender.
* `FairSpec` of the transport adds weak fairness of the sender loop (a thread that polls for ever),
  of the NCCL transfer when both ends are at their calls, of the cleanup subscriber, and of Cosmos
  settling each handle, by a read or by a discard.  The last is the environment's part and is what
  `transport_trainer_leak` shows to be needed.
* `CommInit`: weak fairness of each process; `LaunchCompletes` is stated for behaviours in which
  nothing times out.
* `StreamingWorker`: weak fairness of each thread (`simulate()` has a deadline, `queue.get` returns
  when there is an item) and of a shutdown that has begun.  Submissions are not fair: Cosmos may stop.
* `RolloutServing`: weak fairness of the engine thread, of the await of `rollout_generation`, of each
  payload's thread, and of each session: AlpaSim ends a session it has begun, and every wait for the
  expert ends by an answer or by its timeout.  Nothing is assumed of a shutdown.
* `RunLaunch`: weak fairness of each host process, which does not stop by itself.  Failures, signals,
  Wizards that come up and the Cosmos workers are not fair.
* `TrainingRun` has no liveness property; that nobody waits for ever is `SameCollectives` and the
  absence of deadlock.

## Proofs

The transport theorems hold for every set of transfers and readers, every registry bound and every
set of events.  Their only assumption is `TransportAssumption`: the registry bound is a natural
number, `Events` are known events, and `None` is neither a transfer nor a reader.  The bootstrap
theorems hold for any sets of policies and rollout workers, launched or configured: the assumption
(`CommInitAssumption`) is that the two sets are disjoint and the configured numbers positive.  The
worker's theorems hold for any threads, payloads, siblings, retries and failures: `WorkerAssumption`
says that the pool is finite, the numbers are natural and `None` is neither prompt nor payload.  The
serving theorems hold for any loads (sessions, ticks, timestamps, rewards, faults), batch size and
buffer capacities: `ServingAssumption` and `BufferAssumption` say that there is a load, that loads
have the fields of one, and that the sizes are positive.  The launch theorems assume `CasesAreRuns`:
each run of a case has a config with the fields of the schema and a mode, its bounds are positive, and
a Cosmos-only run has the config of the Wizard-only one whose directory it gets (it is started with
the `resolved_config.yaml` in there, `host/run_lifecycle.py:319-321`).

The training theorems hold for any number of ranks, steps, episodes, rows, minibatches and iterations,
and for every feed Cosmos may give.  `TrainingAssumption` is the shape of a run.  `DispatchAssumption`
is Cosmos's part: no rollout goes to a rank twice, a rank gets at least a batch at a step or nothing,
and ranks share all that they get at one step or nothing.  `FidelityAssumption` is the transport's: an
episode that can be written arrives as it was recorded, and the collation finds the kinds that were
recorded.  It is not taken on trust: TLC evaluates it for every case of the run, with what
`EpisodePayload` computes.  `EpisodePayload` renders nested values with a RECURSIVE operator, which
the prover cannot unfold; as constants the theorems need only its result.  `PerfAssumption` is about
what perf finds: the device tells natural numbers or nothing, and the artifacts of other workers
are finite tables of processes that have left their scopes (with a path the paths around it) and
whose CPU readings did not fail.

| Module | Invariant | Theorems |
| --- | --- | --- |
| `NcclProofs` | `OwnershipInv`, `RegistryOK` | `TypeCorrect`, `OwnershipIsExclusive`, `FailedSenderIsEmpty`, `RetentionIsSound` |
| | `RendezvousInv` | `PayloadsMatch`, `ReadsLeaveNothing`, `ManifestsAreBacked`, `OutcomeIsFinal` |
| | `CommitmentInv` | `NobodyParksAlone`, `BroadcastIsQuiet`, `TransportImplementsHandoff`, all under `CommitmentsAreAwaited` |
| `CommInitProofs` | `BootInv` | `BootTypes`, `CommunicatorsAreWhole` |
| `StreamingWorkerProofs` | `WorkerInv` | `WorkerTypes`, `FuturesAreResolvedOnce`, `PayloadsStayTracked` |
| `RolloutServingProofs` | `ServingInv` | `ServingTypes`, `LabelsStayOnTheirTicks`, `AttributionHolds`, `TrajectoriesMoveForward`, `PopsAreSettled`, `ExitStrandsNobody` |
| `RunLaunchProofs` | `LaunchInv`, `CacheInv`, `RegistryInv` | `ValidConfigsAreLaunchable`, `WizardsEndWithTheirRun`, `AdmittedRunsAreLaunchable`, `ArtifactsStaySound`, `LaunchTypes` |
| | `LoadsInv` | `RuntimesStaySaturated` |
| `TrainingRunProofs` | `TrainerInv`, `PerfTypes` | `TrainingInvariant`, `TrainingTypes`, `TrainersStayTogether`, `RowsTrainOnce` |
| `PerfProofs` | `PerfInv` | `PerfInvariant`, `RecordsSurviveTeardown` |
| `FiniteSums` | | lemmas: induction over the subsets of a finite set, sums taken apart, counting by parts |

Every invariant that a run checks is the statement of one of these theorems.

**Ownership.**  `ExclusiveOwnership` is not inductive by itself.  What it lacks is the sender's
position: that a loop at rest holds no claim, that `sown` stands for the claimed tensors of the
transfer in hand, that a loop in `send` or `complete` owns them (`LoopOK`), and that a payload is
registered at most once, when its handle is still unwritten, so that `write` cannot put back what the
loop has claimed (`Born`).  It also needs `FailedSenderHoldsNothing`, since a failed send clears the
registry.  There are three lemmas per process: it keeps the types (one group of variables at a time),
it keeps what registry and loop agree on, it keeps `Born`; readers touch neither registry nor loop, so
theirs is a frame argument.

**Rendezvous.**  The sender works from what it read: the ids of a pass, the requester, its claim.
`RendezvousInv` says why that is never wrong.  One rank reads a handle at a time (`ReaderOK`); at each
point of the reader the keys of its handle are known (`KeysOfReader`), and a handle that has not been
read has none (`KeysAtRest`); so the requester the sender read is the only reader the transfer can
have (`PeerOK`), an acceptance a reader sees is of the send in progress or of a communicator that
failed (`ServiceOK`), a read leaves nothing but what a store call that failed on it left
(`OneShotOK`), and published tensors are there until they are asked for, discarded or lost
(`BackingOK`).  Keys that a failed delete left after an acceptance (`KeysAfterAccept`) are a hazard of
their own: the loop could take a request key that stays for a new request.  `ScanOK` says that no
transfer the loop may still decide has been accepted (`Accepted`), which is why they never are.  There
is one lemma per process and part; its hypotheses are the parts that part depends on.
`DecisionIsFinal` is a step property: it follows from `KeysOfReader`, which says that a rank that
publishes its state finds no old one.

**Commitment.**  That a committed sender is not left alone needs an assumption about the environment,
`CommitmentsAreAwaited`: no ACK misses both budgets of its reader, and the reader's store calls do not
fail.  `transport_lone_sender` shows that the first half is needed.  Under it, whoever raised left no
open request (`AbandonedOK`), the reader stays until the tensors cross or its route is gone
(`CommitOK`), and a weight sync that finds every rank outside the transport leaves the sender nothing
to decide (`SyncOK`).

**Refinement.**  `NcclProofs` then says, for each step of `Handoff`, what has to happen to
the mapped tensors (`HoldOf`) and readers (`AskOf`), then which of them each step of the transport is.
`SenderDecides` with claimed tensors is the commit: `CommitOK` in the next state says that the reader
is still there to be committed to.  `NcclTransfer` is the delivery; a send that fails is `Break`, a
request dropped after its acceptance is `Lose`; the writer writes, refuses or drops.

**Bootstrap.**  A refused process takes a counter value and gives it back later, in a separate store
operation, so a counter is not the number of ranks handed out.  `CountersOK` says what it is at least:
once anybody was refused, the limit plus one for each process that has yet to give back.  So a
decrement never brings a counter below a rank that is in use, and the next process gets a value nobody
has (`RanksOK`, `IdsOK`).  The rest follows a process along its path (`PathOK`): it has a rank before
it reads the unique id, there is one rank 0 and it creates the id once (`UidOK`), and a ready marker
or an entry into the collective has a process of that rank behind it which read that id (`WritersOK`,
`JoinedOK`).  One lemma per action; `CommIsWhole` is the last step.

**Streaming worker.**  Three threads of argument share `WorkerInv`.  *Futures*: `set_result` is called
outside the lock, by whoever set `future_resolved` under it, and the substitute-scene path clears that
flag again.  `HeldOK` treats the right to resolve a future as a token: exactly one of a thread in
`Holding`, the list of shutdown, or nobody (then the payload is unresolved and its future empty).
Taking it needs the flag to be clear, giving it back empties the holder's hands first.  *The index*:
an entry goes when its payload is resolved and comes with a fresh one, and two live payloads of one
prompt would both be the entry.  *Siblings*: places of a payload's jobs in a queue are counted
(`JobsOfPut`, `JobsOfGet`, `JobsOfDispatch`) and so are the threads busy with it (`BusyMoves`); each
step moves one from one count to the next.  `JobsOK` supplies what both need: jobs are of submitted
payloads, and only revived payloads are brought back, which is why the count and the index say nothing
of those.

**Serving.**  `ServingInv` has five parts, each preserved with the help of the ones before it.
`SessionTypes` is about values.  `WaitInv` is for `NobodyIsStranded`: a handler waits for the engine
exactly if its session is in the queue or in the batch, once (`Queueing`), and the sentinel is put
when no call is under way, unless the grace period ran out (`Stopping`).  `LabelInv` is for the record:
outputs and the history of who drove grow together (`Attributed`), and with an expert there is one
future per output, of its tick or `None`, which is what a collector that matches tokens to outputs by
position needs (`Aligned`).  `JobTypes` counts: retries are bounded, so no session number exceeds the
pairs of a payload and a try that began (`Attempts`), and the sessions never run out.  `LifecycleInv`
follows a session: a handler runs only while it is open, a record exists only once it is closed, a
collector only with a record (`Ordered`); a record that was waited for is labelled and nobody is at
work on it (`Settling`); trajectories move forward (`Forward`).  The last needs facts about data: that
putting submitted poses in order of time keeps them strictly increasing and loses none
(the lemmas on one session rank a pose by how many are earlier), and that what is appended is later
than what is there.

**Launch.**  `ValidConfigsAreLaunchable` is about configs and no behaviour: for all integers in a
config, the checks of `validate_run_config` imply what placement, worker constructors and requeue
demand later, and no more: the number of steps a rollout yields is not known to the launch.  The part
that is not bookkeeping is the placement (`PlacementHolds`): in both layouts the plan that is computed
gives every host GPU ids that exist, are disjoint, are enough for Cosmos and let a Wizard run.
`LaunchInv` adds to `NoWizardOutlivesItsRun` which Wizards are alive (those counted by `launched`, one
more between `Popen` and append, or for ever if the signal came there) and that only validated runs
get past `ready`.  Steps of the caches and of the Cosmos workers are frame arguments.

**Caches.**  Runs share the caches and nothing else, so `CacheInv` says what they may rely on: an entry
is never lost once it is there (`OtherRun` is the argument that this is all another run needs), what a
private directory holds is right for the key it was fetched for (`DraftOK`), and a key is not newer
than its tag or ref (the last conjunct), so that an image imported by tag is no older than the digest
that was resolved before the tag moved again.

**Registry.**  `TypeOK` of the launch says that the flock's holder is the worker that is inside the
registry.  `RegistryInv` adds why: the flock is held only while Cosmos runs (`CosmosStops` frees it
with its holder), so a restarted attempt finds it free.  The runtime a worker is given is one of the
published ones, which is a `CHOOSE` over them: `Prepared` says that a run whose workers start has all
its runtimes published, by its own Wizards or by the directory it was copied from, a validated
config has one at least (`HostsOfPlan`), and the least used one exists (`LeastUsedIsPublished`).  That
`attempt` stays in its bound needs that only a run with an attempt left is requeued (`HostTypes`).

**Loads.**  A worker is given the runtime with the fewest drivers, and with the capacity of a runtime
divided by the drivers it should have, rounded up, all must come to at least the capacity.  `LoadsInv`
says of a run in Cosmos (`Balanced`) that each assignment is of a worker that was given it, all workers
ask for the same share, no runtime has two drivers more than another, and the holder of the flock has
seen how many each has, since nobody else assigns while it counts.  So a new assignment goes to a
minimum and the balance stays (`AcquireKeepsBalance`).  Before Cosmos it says what earlier attempts
may have left (`FilesOK`): whoever gets as far as Cosmos has no assignment of an earlier attempt,
because a requeue clears them and a run started by hand stops at the first runtime it publishes.  At
the end the drivers of all runtimes are all workers (`Fibers`), so a balanced runtime has at least the
number of workers divided by that of runtimes, rounded down (`FewerThan`), and that many shares
cover the capacity (`SharesCover`).

**Training.**  `RanksStayTogether` relates the ranks at every step of each, but between two
collectives a rank moves alone, so `InLockstep` compares a view of a rank that such a step leaves as
it is: how many collectives it will have passed, at which minibatch it waits for the next one, and what
its models are once it is there (`Passed`, `Point`, `Updated`, `Reference`; the lemma is
`ViewOfStep`).  Only `BeginStep` (one step ahead at most), failing and the collective itself change
the view.  Two ranks at one step have the same `Point` because their loops are counted alike:
`PoolIsPacked` says that the pool holds the padded rows of the batch, each once, so its size, hence the
number of minibatches, is the same on all ranks whatever they were sent; `LoopIsCounted` says how
many rows are left to slice, so none is left behind the last minibatch, which is also what
`RowsAreTrainedOnce` needs.  A rollout can be loaded (`ArtifactIsThere`) because artifacts stay until
the rollout is dropped, and ranks that share it drop it alike (`FilesAreKept`).  `Doom` covers the one
failure that arrives by the collective: once a reduced gradient is not finite, all ranks that are left
have it and are about to raise, and some rank kept a spoiled episode.  `SavesStand` says of each step
that is over that its checkpoint is there.  The steps of the perf store are frame arguments
(`Projection`), and `PerfTypes` adds their part of `TypeOK`.

**Perf.**  `PerfInv` has five parts.  `ScopesNest`: each thread is in one scope at most between two
steps, and rank 1 is in its step's exactly while it works on it.  `LifeIsOrdered`: what each point of
`shutdown_perf` has behind it; the flush thread has ended before the monitors are told, and the store
goes only after they have ended, which is `NvmlOutlivesMonitors`, and why nothing adds a sample after
the final artifact was rendered (`MonitorsRun`).  It speaks of a process that has a store: one whose
perf did not start has raised, may have a monitor left that reads without NVML, and records nothing
(`NothingYet`).  `CallsAreTimed`: the table of times has each call
that returned once, under its path.  `RowsTile`: the readings of the monitor and those of the
checkpoints add up to what their windows passed, or to less where a reading raised (`Tiles`), since
each has a window of its own; a snapshot adds
to one row of a table what it adds to the window (`TotalSamples`).  `FinalIsKept`: the artifact of an
orderly teardown has the samples there are, and of calls all that had returned when it began and none
that did not; the driver thread may still record, but no longer lose anything.  The steps of
the trainer are those of `TrainingRunProofs`, so the two invariants are proved together.

**Report.**  That `ReportIsComplete` follows from the final artifact is about sums and no behaviour.
The final artifact adds its count to what the other workers' merge to at each path (`CountsAreAdded`)
and, as a sum over paths, for each name (`NamesAreAdded`).  Own times add up to the root total
(`OwnTimesAddUp`): what the own times subtract is the time of every path that has a parent, grouped by
that parent (`SumOfParts`), as every path of a tree but the roots has one.  A mean weighted with
counts is the mean of all readings when all were seen (`MeansArePooled`).

**Sums.**  The sum of the community modules is a `CHOOSE` of a recursive table.  `FiniteSums` proves
that there is one table on the subsets of a finite set (`TablesExist`, `TablesAgree`), by induction
on subsets in the form of a least counterexample (`SubsetInduction`): the induction theorems of the
library take an operator as their parameter, which the provers cannot instantiate, a set of sizes
they can.

Only model-checked: all liveness, which the prover cannot handle, and what `EpisodePayload` computes.

## What the runs found

* **A committed sender can be left alone** (`transport_lone_sender`).  `rendezvous.py:116-138` waits
  a second budget for the ACK of a sender that has committed and then gives up; the sender goes on to
  `nccl_send`.  The transport README says that neither side parks alone inside NCCL.  `PayloadsMatch`
  bounds the damage: the stale send is never received by a later read.
* **The trainer filter leaks** (`transport_trainer_leak`).  `rollout_filter.py:75-82` unlinks a
  dropped rollout's completion as a file; an `nccl:` handle is not one, the error is swallowed, and
  the tensors stay held.
* **Shutdown misses substituted payloads** (`worker_shutdown`).  The substitute-scene path does not
  put the payload back into the index that `shutdown` resolves from.  The same omission allows a
  second dispatch of the prompt, whose index entry the old payload then pops.

Read while modelling, without a run of their own (the properties are stated around them):

* Store errors leave manifests behind.  `release` of the writer swallows a failed delete of the
  manifest and still drops the tensors (`transport/nccl/endpoints.py:102-105`); a read whose check,
  get or delete of the manifest raises leaves it too (`transport/nccl/endpoints.py:266-291`).  The
  transport README says that "a live handle never names tensors the sender has already dropped" and
  that any terminal outcome of a read "deletes the manifest key" (`transport/nccl/README.md:465-467`):
  true of transfers outside `stray`.  If the delete after `recv` raises, the tensors have crossed and
  the episode is lost.
* When perf does not start, `set_perf_store` tells the monitors that run already but ignores whether
  they exited (`perf/instrument/store.py:305`), and `initialize_perf` then shuts NVML down
  (`perf/instrument/lifecycle.py:67-72`), although the teardown keeps the store, hence NVML, bound
  when a monitor does not exit (`perf/instrument/store.py:227-228`).  A GPU monitor may then read
  without NVML; its samples go into a store nobody sees, so no artifact is wrong.
* The validation equates `n_sim_steps` minus the warmup with the steps a rollout yields
  (`host/config_validation.py:303-308`), but the Wizard gets `extra_overrides` after `n_sim_steps`
  (`host/alpasim_wizard.py:63`), and the error text even suggests to override it there
  (`host/config_validation.py:315-318`).
  `ADAPTATION_REVIEW.md` §3.1 reports a config that passes (88 - 80 = 8) and whose rollouts gave 22
  outputs, which `cosmos/packer.py:190-196` refuses.  A horizon that fits is not part of `Launchable`;
  an episode with more outputs than the budget is a case of `training`.
* `_save_expert_safetensors` is called outside the try of the checkpoint (`cosmos/trainer.py:662`), so
  an expert that cannot be written ends the run and leaves nothing of that step, while a checkpoint that
  cannot be written beside it only logs.
* A retry does not carry `is_fallback`, so the fallback's own failure counts as a first one, and a
  scene that always fails is retried for ever (`streaming_worker.py:362`).  Siblings that are skipped
  while `permanently_failed` is set (`streaming_worker.py:211`) are not replaced when the flag is
  cleared, so a payload with two or more rollouts may never complete.
* A request cancelled by its reader can be claimed, and its tensors dropped, during a weight
  broadcast, which `sender.py:182-186` excludes, without an NCCL call.
* The expert collector can die while it labels; its event is never set, the pop waits 700 seconds and
  takes a record that is labelled in part (`driver_server.py:472`).  Two or more slow queries take the
  collector longer than the pop waits.  A session whose `simulate()` failed stays in `_sessions` or
  `_session_records` for ever (`driver_server.py:160`), and a drive call that outlasts the grace
  period may post its request behind the sentinel (`inference_engine.py:104`).
* `rollout_generation` counts its timeout from the await (`rollout_backend.py:253`): payloads that
  only waited in the queue are given up, and their jobs go on.
* A signal between `Popen` and the append leaves a Wizard nobody terminates; one inside the teardown
  leaves the Wizards behind it.  A signal before the try block (image, checkout, registry) ends the
  run without requeue, because only the try block turns it into one (`host/run_lifecycle.py:279`); the
  comment at `run_lifecycle.py:119-121` says that one "during Slurm setup (allocation, image import)
  still unwinds into the requeue path below".  `Signal` models what the code does.
* `enroot` imports an image by its tag and stores it under the digest the tag had before
  (`host/slurm.py:297`): when the tag moves in between, the entry of an old digest holds a newer image,
  which is why `ArtifactsAreSound` says "no older".
* A requeue clears runtimes and assignments but not `drivers/`: a worker that meets an old pid gets
  `FileExistsError` from `publish_driver` (`host/endpoint_registry.py:73`).  `read_nccl_master` may
  read the file of the attempt before, until the new Controller has cleared it.  A run started again
  by hand is not cleared at all: its Wizards come up and the first publication raises.
* A requeued Cosmos-only run keeps the registry it was given, because only a whole run resets it
  (`host/run_lifecycle.py:170`): the assignments of its dead workers stay, and with new pids they count
  as load, which may leave a runtime with too few live ones.
* Rows whose model inputs differ in their nesting are found when a shuffled minibatch stacks them
  (`replay.py:331`), although `packer.py:244-246` checks keys early so that this cannot happen.  An
  empty tensor ends the rollout worker on NCCL and is fine on disk (`payload.py:59`).
* An episode that cannot be packed ends the worker after earlier episodes of its batch were written
  (`packer.py:126`); on NCCL their tensors stay registered until the worker ends.

## Not modelled

Tensor values, geometry, loss values and FSDP sharding; policies and policy packages; the DAgger
training scripts; wording of commands, logs, banners and plots; percentiles and reservoirs of the
perf stores; wall time (a CPU reading is the CPU time of its window, a scope takes one unit).  Some
parts of what is modelled are left out:

* errors of the collation other than rows of different nesting (shapes that do not stack, values that
  are not tensors), and the zeros or `None` that stand for a missing input (`replay.py:296-313`): a row
  with an odd key is trained on, the other rows of its minibatch too;
* the receiver's `close` (it runs at exit, with no read in progress), malformed manifests and cleanup
  messages, and the manifest as JSON (dict keys that are numbers become strings, tuples become lists);
* a config with `repo_url` and a path together is reduced to what the code takes; scene files, Hugging
  Face tokens and Docker probes are passed over; GPU validation sums over hosts as the code does;
* Cosmos-RL dispatches the rollouts of a step, starts the next step and shrinks its high-availability
  communicator when a replica dies: external, as are NCCL, the TCPStore, Redis, Slurm, AlpaSim and the
  expert, which are modelled by how this code uses them.  Cosmos gives each rank at least a batch,
  but for the case that gives it nothing.

## Plan

In the order of their importance to the program:

1. `StreamingWorker` in place of its reduction in `RolloutServing`.
2. Several rollout replicas of the transport under one policy, with the trainer reading through it.
