------------------------- MODULE ConfigValidation -------------------------
(***************************************************************************)
(* The checks a run config goes through before anything starts: the         *)
(* __post_init__ checks of config.py and validate_run_config, one operator   *)
(* per check, and what the launch and the workers then take for granted.    *)
(* A config is a record of the fields these read.  A required string is     *)
(* there or not; the mounts and the exports are right or not; NCCL_TIMEOUT   *)
(* is in ms, 0 when it is missing, not a number or not positive; scenes is  *)
(* the number of scene ids, 0 for an empty list, or Suite.                  *)
(***************************************************************************)
EXTENDS RunTopology

Suite == -1   \* a test suite is selected instead of scene ids

Configs ==
  [command: {"run", "submit"}, backend: {"local_process", "slurm"}, autoresume: BOOLEAN,
   checkpoint: BOOLEAN, wizardArgs: BOOLEAN, repo: {"path", "cached"}, repoUrl: BOOLEAN,
   checkoutCache: BOOLEAN, nodes: Int, gpusPerNode: Int, layout: {"all_in_one", "separate_nodes"},
   alpasimGpus: Int, cosmosNodes: Int, alpasimNodes: Int, container: BOOLEAN, mounted: BOOLEAN,
   image: {"file", "registry"}, imageCache: BOOLEAN, colocated: BOOLEAN,
   transport: {"disk", "nccl"}, ncclTimeout: Int, policyReplicas: Int, rolloutReplicas: Int,
   dpShard: Int, policyAxes: Int, rolloutAxes: Int, trainBatch: Int, miniBatch: Int,
   nGeneration: Int, simSteps: Int, forceGt: Int, controlTimestep: Int, expectedSteps: Int,
   contextFrames: Int, returnTrace: BOOLEAN, testModel: BOOLEAN, testBackend: BOOLEAN,
   scenes: Int, modelBundle: BOOLEAN, rewardTerms: Int, flushEvery: Int, maxSamples: Int]

(* ------------------------- config.py, on load --------------------------- *)

LoadsAlpaSim(c) ==
  /\ c.wizardArgs               \* deploy, topology, driver_source: not empty
  /\ c.controlTimestep > 0
  /\ c.simSteps > 0
  /\ ~ (c.repo = "path" /\ c.repoUrl)

LoadsReward(c) == c.rewardTerms > 0
LoadsPerf(c) == c.flushEvery > 0 /\ c.maxSamples > 0

Loads(c) == LoadsAlpaSim(c) /\ LoadsReward(c) /\ LoadsPerf(c)

(* ----------------------- validate_run_config ---------------------------- *)

ValidWizardStartup(c) == c.wizardArgs /\ c.forceGt > 0 /\ c.scenes # 0

WarmupSteps(c) == c.forceGt \div c.controlTimestep
ClosedLoopSteps(c) == c.simSteps - WarmupSteps(c)

ValidTrainingPolicy(c) ==
  /\ c.expectedSteps > 0
  /\ ClosedLoopSteps(c) = c.expectedSteps
  /\ c.contextFrames > 0
  /\ c.returnTrace

ValidBatchGeometry(c) ==
  /\ c.policyReplicas > 0 /\ c.rolloutReplicas > 0
  /\ c.trainBatch > 0 /\ c.miniBatch > 0 /\ c.dpShard > 0 /\ c.nGeneration > 0
  /\ c.trainBatch % c.miniBatch = 0
  /\ c.trainBatch % (c.dpShard * c.miniBatch) = 0

(* _validate_nccl_parallelism, _validate_nccl_env.                          *)
ValidTransport(c) ==
  c.transport = "nccl" =>
    /\ ~ c.colocated
    /\ c.policyReplicas > 0 /\ c.dpShard > 0 /\ c.rolloutReplicas > 0
    /\ c.policyAxes = 1 /\ c.rolloutAxes = 1
    /\ c.ncclTimeout > 0

ValidCosmosMode(c) == c.backend = "slurm" => ~ c.colocated

ValidTestModel(c) ==
  /\ c.testModel = c.testBackend
  /\ c.testModel => c.transport = "nccl" /\ c.scenes > 0

ValidAutoresume(c) == c.autoresume => c.backend = "slurm" /\ c.checkpoint

ValidCommand(c) == c.command = "submit" => c.backend = "slurm"

(* Mutant: nothing asks for a GPU for AlpaSim.                              *)
SomeSlurmTopology(c) ==
  /\ c.layout = "all_in_one" => c.nodes = 1 /\ c.alpasimGpus < c.gpusPerNode
  /\ c.layout = "separate_nodes" =>
       c.cosmosNodes >= 1 /\ c.alpasimNodes >= 1 /\ c.nodes = c.cosmosNodes + c.alpasimNodes

(* _validate_slurm_topology_config checks what build_slurm_topology will.   *)
ValidSlurmTopology(c) ==
  /\ c.layout = "all_in_one" =>
       c.nodes = 1 /\ c.alpasimGpus >= 1 /\ c.alpasimGpus < c.gpusPerNode
  /\ c.layout = "separate_nodes" =>
       c.cosmosNodes >= 1 /\ c.alpasimNodes >= 1 /\ c.nodes = c.cosmosNodes + c.alpasimNodes

ValidSlurmConfig(c) ==
  /\ c.nodes >= 1 /\ c.gpusPerNode >= 1
  /\ c.container                          \* partition, account, image, uv cache, mounts, exports
  /\ c.image = "registry" => c.imageCache \* container_cache_root, and credentials

ValidCosmosGpus(c) ==
  LET plan == Plan(c) IN
  \E first \in CosmosHosts(plan) :
    /\ \A i \in CosmosHosts(plan) : first <= i
    /\ PolicyGpus(c) <= plan[first].cosmosGpus
    /\ RolloutGpus(c) <= plan[first].cosmosGpus
    /\ RequiredGpus(c) <= Cardinality(CosmosHosts(plan)) * plan[first].cosmosGpus

(* The five-node preset keeps its coupled dispatch shape.                   *)
ValidSharedShape(c) ==
  (c.layout = "separate_nodes" /\ c.nodes = 5 /\ c.cosmosNodes = 2 /\ c.alpasimNodes = 3) =>
    /\ c.transport = "nccl"
    /\ c.policyReplicas = 4 /\ c.rolloutReplicas = 12
    /\ c.nGeneration = 2 /\ c.trainBatch = 12 /\ c.miniBatch = 1 /\ c.expectedSteps = 22

ValidSlurm(c) ==
  c.backend = "slurm" =>
    /\ c.repo = "cached" => c.checkoutCache
    /\ ValidSlurmTopology(c)
    /\ ValidSlurmConfig(c)
    /\ ValidCosmosGpus(c)
    /\ ValidSharedShape(c)
    /\ c.mounted                          \* model and run_root, at the same path

ValidRunConfig(c) ==
  /\ ValidWizardStartup(c)
  /\ ValidTrainingPolicy(c)
  /\ ValidBatchGeometry(c)
  /\ ValidTransport(c)
  /\ c.modelBundle
  /\ ValidCosmosMode(c)
  /\ ValidTestModel(c)
  /\ ValidCommand(c)
  /\ ValidAutoresume(c)
  /\ ValidSlurm(c)

(* ------------------- what is taken for granted later -------------------- *)

(* The command builders of slurm.py raise nothing: every AlpaSim host can   *)
(* run its Wizard, the one srun of the Cosmos hosts fits them all, and the  *)
(* replicas fit the GPUs.                                                    *)
PlacementWorks(c) ==
  c.backend = "slurm" =>
    LET plan == Plan(c) IN
    /\ CanPlan(c)
    /\ AlpasimHosts(plan) # {}
    /\ \A i \in AlpasimHosts(plan) : CanRunWizard(plan[i])
    /\ CanRunCosmos(plan)
    /\ GpusAreDisjoint(c, plan)
    /\ PolicyGpus(c) <= CosmosGpus(c) /\ RolloutGpus(c) <= CosmosGpus(c)

(* The workers build: a usable timeout, NCCL never within one process, one  *)
(* registered policy behind the rollout backend.                            *)
WorkersBuild(c) ==
  /\ c.transport = "nccl" => c.ncclTimeout > 0 /\ ~ c.colocated
  /\ c.testBackend => c.testModel /\ c.scenes # Suite
  /\ c.modelBundle

(* A requeued run finds a checkpoint to resume from.                        *)
RequeueResumes(c) == c.autoresume => c.backend = "slurm" /\ c.checkpoint

(* How many outputs a rollout makes is not among it: simSteps is what the    *)
(* validator multiplies out, extra_overrides may change the simulator's own  *)
(* count afterwards, and the packer refuses what exceeds its budget.         *)
Launchable(c) == PlacementWorks(c) /\ WorkersBuild(c) /\ RequeueResumes(c)
=============================================================================
