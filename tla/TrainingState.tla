--------------------------- MODULE TrainingState ---------------------------
(***************************************************************************)
(* State of a training run, over disk or NCCL: the rollout worker's          *)
(* artifacts, the policy ranks that train on them in lockstep, and, in the   *)
(* process of rank 1, the performance store with its threads.                *)
(***************************************************************************)
EXTENDS Integers, Sequences, FiniteSets, FiniteSetsExt, SequencesExt

CONSTANTS
  Cases,           \* the runs a behaviour may be, see TrainingAssumption
  \* of a case and an episode: what transport and packer make of it
  Ships(_, _),     \* whether it can be written
  Arrival(_, _),   \* what the packer reads
  Original(_, _),  \* what it should read
  StepKinds(_, _)  \* the kinds of the steps it finds

OutputKinds ==
  {"good",
   "odd",    \* good, but other model-input keys
   "nested", \* good, the same keys, other ones below them
   "hollow", \* good, with an empty tensor
   "bad",    \* non-finite old_logprob, and perhaps inputs
   "none"}   \* no replay data

FaultKinds ==
  {"diverge", \* the model itself yields a non-finite gradient
   "export",  \* the checkpoint machinery raises
   "expert",  \* the expert weights cannot be written
   "thread",  \* a monitor or the flush thread cannot be started
   "psutil",  \* a call of psutil raises
   "nvml",    \* a call of NVML raises
   "disk",    \* the perf artifact cannot be written
   "wedge",   \* the flush thread does not exit in time
   "slow"}    \* a monitor does not exit in time

(* A run: its episodes in the order of their egress, what Cosmos dispatches *)
(* to every rank at every step, and the configuration of the trainer.        *)
EpisodeType == [session : Nat, version : Nat, advantage : Int, outputs : Seq(OutputKinds)]
ASSUME TrainingAssumption == \A c \in Cases :
  /\ c.ranks \in Nat \ {0} /\ c.episodes \in Seq(EpisodeType)
  /\ c.feed \in Seq([1 .. c.ranks -> Seq(DOMAIN c.episodes)])
  /\ {c.expected, c.batch, c.mini, c.iterations} \subseteq Nat \ {0}
  /\ c.reset \in Nat /\ c.save \subseteq Nat \ {0}
  /\ {c.kl, c.expert, c.export, c.perf} \subseteq BOOLEAN

(* Cosmos, not modelled: a rank gets no rollout twice, and no fewer than it *)
(* trains on, or none; ranks share what they get at a step or share nothing.*)
ASSUME DispatchAssumption ==
  \A c \in Cases : \A s \in DOMAIN c.feed : \A r \in 1 .. c.ranks :
    /\ IsInjective(c.feed[s][r])
    /\ c.feed[s][r] = <<>> \/ Len(c.feed[s][r]) >= c.batch
    /\ \A t \in DOMAIN c.feed : \A q \in 1 .. c.ranks :
         \/ s = t /\ c.feed[s][r] = c.feed[t][q]
         \/ Range(c.feed[s][r]) \cap Range(c.feed[t][q]) = {}

(* What EpisodePayload computes: an episode that can be written arrives as  *)
(* it was, and an empty tensor does not show in its kind.                   *)
Seen(kind) == IF kind = "hollow" THEN "good" ELSE kind
ASSUME FidelityAssumption ==
  \A c \in Cases : \A e \in DOMAIN c.episodes : Ships(c, e) =>
    /\ Arrival(c, e) = Original(c, e)
    /\ StepKinds(c, e) = [i \in DOMAIN c.episodes[e].outputs |-> Seen(c.episodes[e].outputs[i])]

(* Perf: what NVML tells of the device of the rank is a reading, or -1; an  *)
(* artifact of another worker is that of a process that has left its scopes, *)
(* and whose readings of its CPU time are numbers.                           *)
ASSUME PerfAssumption == \A c \in Cases :
  /\ c.usage[c.visible[1]] \subseteq Nat \cup {-1}
  /\ IsFiniteSet(c.others)
  /\ \A a \in c.others :
       /\ a.pid # 1 /\ IsFiniteSet(DOMAIN a.timing)
       /\ \A path \in DOMAIN a.timing :
            /\ path \in Seq(STRING) \ {<<>>} /\ {a.timing[path].count, a.timing[path].total} \subseteq Nat
            /\ \A n \in 1 .. Len(path) : SubSeq(path, 1, n) \in DOMAIN a.timing
       /\ \A key \in DOMAIN a.resources["cpu"] : LET cell == a.resources["cpu"][key] IN
            cell.count \in Nat \ {0} /\ cell.mean[1] \in Nat /\ cell.mean[2] = cell.count

VARIABLES
  case,
  \* rollout worker and artifacts_dir
  written,  \* how many episodes were egressed, in the order of case.episodes
  files,    \* the artifacts: a path's episode
  \* a rank's trainer
  stage, step,
  kept,     \* rollouts that survived the filter
  samples, advantages, \* _prepare_training_data: the pool of rows
  iteration, minibatch, \* loop counters, from 1
  left,     \* of randperm: the indices not sliced yet
  gradient, \* of this minibatch: local, then reduced
  reduces, updates, \* collectives passed, optimizer steps taken
  reference, \* the updates the reference model contains, or NoModel
  trained,  \* how often a row was in a minibatch of this iteration
  failure,  \* why the rank raised, or ""
  saved,    \* what _save_checkpoint left: <<kind, step>>
  \* perf: one process
  store,    \* the global: "none", "bound", or "gone" after it was cleared
  nvml,     \* whether NVML is initialized
  timer, rows, \* TimingStore and the metric stores
  scopes,   \* _PERF_SCOPE_STACK of a thread
  window,   \* of a CpuReader: the CPU time at its previous read
  handle,   \* the GpuReader's NVML device, or 0
  flusher, monitor, draft, \* threads, and the payload being written
  published, \* the artifact in perf_dir, or NoArtifact
  teardown, \* where shutdown_perf is
  calls, owed, \* timed calls that returned: all, and before shutdown_perf
  spoiled   \* a final write failed or was skipped

workerVars == <<written, files>>
loopVars   == <<kept, samples, advantages, iteration, minibatch, left, gradient, trained>>
modelVars  == <<reduces, updates, reference, saved>>
rankVars   == <<stage, step, failure, loopVars, modelVars>>
recordVars == <<timer, rows, window, scopes, calls>>
threadVars == <<flusher, monitor, draft, published, spoiled>>
lifeVars   == <<store, nvml, handle, teardown, owed>>
perfVars   == <<recordVars, threadVars, lifeVars>>
vars == <<case, workerVars, rankVars, perfVars>>

NoModel    == 1000
NoArtifact == <<>>

Ranks    == 1 .. case.ranks
Episodes == DOMAIN case.episodes
Steps    == DOMAIN case.feed
Threads  == {"main", "driver"}   \* of rank 1's process, colocated: trainer and driver server
Families == {"cpu", "gpu"}
Readers  == {"monitor", "checkpoint"}
Names    == {"trainer/step", "trainer/artifact_load", "trainer/artifact_load/disk_read", "driver/drive"}

Live == {r \in Ranks : stage[r] # "raised"}

Init ==
  /\ case \in Cases
  /\ written = 0 /\ files = <<>>
  /\ stage = [r \in Ranks |-> "new"] /\ step = [r \in Ranks |-> 0]
  /\ failure = [r \in Ranks |-> ""]
  /\ kept = [r \in Ranks |-> <<>>]
  /\ samples = [r \in Ranks |-> <<>>] /\ advantages = [r \in Ranks |-> <<>>]
  /\ iteration = [r \in Ranks |-> 0] /\ minibatch = [r \in Ranks |-> 0]
  /\ left = [r \in Ranks |-> {}] /\ gradient = [r \in Ranks |-> "zero"]
  /\ trained = [r \in Ranks |-> <<>>]
  /\ reduces = [r \in Ranks |-> 0] /\ updates = [r \in Ranks |-> 0]
  /\ reference = [r \in Ranks |-> NoModel] /\ saved = {}
  /\ store = "none" /\ nvml = FALSE /\ teardown = "no"
  /\ timer = <<>> /\ rows = [f \in Families |-> <<>>]
  /\ scopes = [t \in Threads |-> <<>>]
  /\ window = [reader \in Readers |-> 0] /\ handle = 0
  /\ flusher = "absent" /\ monitor = [f \in Families |-> "absent"]
  /\ draft = NoArtifact /\ published = NoArtifact /\ spoiled = FALSE
  /\ calls = [n \in Names |-> 0] /\ owed = [n \in Names |-> 0]
=============================================================================
