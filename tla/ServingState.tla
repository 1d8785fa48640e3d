---------------------------- MODULE ServingState ----------------------------
(***************************************************************************)
(* State of one rollout process: the Egodriver server AlpaSim drives its    *)
(* sessions through, the inference engine behind it, the client of the      *)
(* expert service, and the backend that owns them and asks AlpaSim for      *)
(* simulations.  Sessions are numbered in the order they are asked for.     *)
(***************************************************************************)
EXTENDS ObservationBuffers, Integers, Functions

CONSTANTS
  Loads,      \* what a behaviour may contain, see Load
  MaxBatch    \* policy.inference.max_batch_size

FaultKinds ==
  {"simulate",    \* simulate() fails or runs into its deadline
   "forward",     \* the forward pass raises and the process exits
   "postprocess", \* the policy raises after the model has answered
   "expert",      \* the expert answers with an error, or never
   "inject",      \* the collector raises while it labels a record
   "await",       \* rollout_generation gives a payload up
   "grace",       \* a drive call outlasts the grace period of the server
   "channel"}     \* the AlpaSim runtime does not come up in time

(* RewardConfig: at least one term, each of a known kind.                    *)
Terms == {"metric", "distance_to_gt"}

(* How much a behaviour contains, fixed at its start: prompts submitted,     *)
(* simulate() threads, retries of a scene, drive calls, images and pose      *)
(* submissions per session, the timestamps poses and routes can carry, what  *)
(* the expert is used for, which failures there are; the terms of the reward, *)
(* whether AlpaSim returns metrics, and the recordings it may submit.        *)
Load == [payloads: Nat, threads: Nat \ {0}, retries: Nat, ticks: Nat, images: Nat,
         submissions: Nat, times: SUBSET (Nat \ {0}), expert: {"off", "label", "mix"},
         faults: SUBSET FaultKinds, reward: SUBSET Terms \ {{}},
         metrics: BOOLEAN, recordings: SUBSET [anchor: Nat, times: Seq(Nat \ {0})]]

ASSUME ServingAssumption ==
  /\ Loads # {} /\ Loads \subseteq Load
  /\ MaxBatch \in Nat \ {0}

VARIABLES
  load,      \* the load of this behaviour
  \* EgodriverGrpcServicer, one session each
  phase,     \* absent, open (in _sessions), closed
  tick,      \* the TickBuffer being filled
  step,      \* step_index
  rpc,       \* where the drive handler is
  now,       \* its locals: step_index and the poses of policy_input
  buf,       \* the policy's ObservationBuffers
  outputs,   \* session.outputs, and the record's after close_session
  executed,  \* session.executed_poses
  truth,     \* session.ground_truth: when it begins, and the times of its poses
  drove,     \* history: who drove, for each response sent to AlpaSim
  \* expert
  futures,   \* session.expert_futures: the tick asked about, or None
  ask,       \* the query of each tick
  tokens,    \* expert_action_tokens: collected so far
  collector, \* the collector thread
  record,    \* _session_records: absent, kept, taken
  hurried,   \* history: the pop did not wait for the collector
  \* InferenceEngine
  queue,     \* its queue: sessions and the sentinel
  batch,     \* the batch in its forward pass
  engine,    \* its thread
  \* AlpagymRolloutBackend
  backend,   \* its life
  grace,     \* history: the grace period of driver.stop() ran out
  accepting, \* the gRPC server takes calls
  job, session, tries, result,  \* per payload: its job, uuid, failures, future
  gen, given \* rollout_generation: how far, and the completions it collected

driverVars  == <<phase, tick, step, rpc, now, buf, truth>>
episodeVars == <<outputs, executed, drove>>
expertVars  == <<futures, ask, tokens, collector, record, hurried>>
engineVars  == <<queue, batch, engine>>
serverVars  == <<backend, grace, accepting>>
jobVars     == <<job, session, tries, result>>
genVars     == <<gen, given>>
vars == <<load, driverVars, episodeVars, expertVars, engineVars, serverVars, jobVars, genVars>>

NoTruth  == [anchor |-> 0, times |-> <<>>]
None     == 0   \* Python's None among ticks and labels; ticks count from 1
Shutdown == 0   \* the sentinel among sessions; sessions count from 1

Payloads == 1 .. load.payloads
Sessions == 1 .. load.payloads * (load.retries + 1)
Ticks    == 1 .. load.ticks

EmptyTick == [frames |-> 0, poses |-> <<>>, route |-> 0]

RpcPcs        == {"idle", "ask", "infer", "answered", "expert"}
Output        == [tick: Ticks, label: Ticks \cup {None}, driver: {"student", "expert"},
                  masked: BOOLEAN]
QueryStates   == {"none", "asked", "answered", "failed"}
CollectorPcs  == {"none", "collect", "label", "done", "died"}
EnginePcs     == {"absent", "ready", "forward", "exited", "dead"}
BackendLife   == {"fresh", "serving", "ready", "failed", "dismissed", "stopping", "joining",
                  "down", "other"}
JobStates     == {"none", "queued", "simulating", "popping", "done"}
Results       == {"none", "episode", "empty"}

(* Every variable keeps its type; a batch is never larger than configured,   *)
(* and neither queue nor batch holds a session twice.                        *)
TypeOK ==
  /\ load \in Loads
  /\ phase \in [Sessions -> {"absent", "open", "closed"}]
  /\ \A s \in Sessions :
       /\ tick[s].frames \in Nat /\ tick[s].route \in load.times \cup {0}
       /\ Range(tick[s].poses) \subseteq load.times
       /\ step[s] \in 0 .. load.ticks /\ rpc[s] \in RpcPcs
       /\ now[s].tick \in 0 .. load.ticks /\ Range(now[s].poses) \subseteq load.times
       /\ buf[s].frames \in 0 .. NumContextFrames
       /\ Len(buf[s].ego) <= NumWaypoints + 1 /\ buf[s].route \in load.times \cup {0}
       /\ Range(outputs[s]) \subseteq Output /\ Range(executed[s]) \subseteq load.times
       /\ Range(drove[s]) \subseteq {"student", "expert"} /\ Range(truth[s].times) \subseteq Nat
       /\ Range(futures[s]) \subseteq Ticks \cup {None}
       /\ ask[s] \in [Ticks -> QueryStates]
       /\ Len(tokens[s]) <= Len(futures[s])
       /\ collector[s] \in CollectorPcs
       /\ record[s] \in {"absent", "kept", "taken"} /\ hurried[s] \in BOOLEAN
  /\ Range(queue) \subseteq Sessions \cup {Shutdown} /\ engine \in EnginePcs
  /\ Range(batch) \subseteq Sessions /\ Len(batch) <= MaxBatch
  /\ IsInjective(queue) /\ IsInjective(batch) /\ Range(queue) \cap Range(batch) = {}
  /\ backend \in BackendLife /\ grace \in BOOLEAN /\ accepting \in BOOLEAN
  /\ job \in [Payloads -> JobStates] /\ session \in [Payloads -> Sessions \cup {0}]
  /\ tries \in [Payloads -> 0 .. load.retries + 1] /\ result \in [Payloads -> Results]
  /\ gen \in 0 .. load.payloads + 1 /\ Len(given) <= load.payloads

Init ==
  /\ load \in Loads
  /\ phase = [s \in Sessions |-> "absent"]
  /\ tick = [s \in Sessions |-> EmptyTick] /\ step = [s \in Sessions |-> 0]
  /\ rpc = [s \in Sessions |-> "idle"]
  /\ now = [s \in Sessions |-> [tick |-> 0, poses |-> <<>>]]
  /\ buf = [s \in Sessions |-> EmptyBuffers]
  /\ outputs = [s \in Sessions |-> <<>>] /\ executed = [s \in Sessions |-> <<>>]
  /\ drove = [s \in Sessions |-> <<>>] /\ truth = [s \in Sessions |-> NoTruth]
  /\ futures = [s \in Sessions |-> <<>>] /\ ask = [s \in Sessions |-> [t \in Ticks |-> "none"]]
  /\ tokens = [s \in Sessions |-> <<>>] /\ collector = [s \in Sessions |-> "none"]
  /\ record = [s \in Sessions |-> "absent"] /\ hurried = [s \in Sessions |-> FALSE]
  /\ queue = <<>> /\ batch = <<>> /\ engine = "absent"
  /\ backend = "fresh" /\ grace = FALSE /\ accepting = FALSE
  /\ job = [p \in Payloads |-> "none"] /\ session = [p \in Payloads |-> 0]
  /\ tries = [p \in Payloads |-> 0] /\ result = [p \in Payloads |-> "none"]
  /\ gen = 0 /\ given = <<>>
=============================================================================
