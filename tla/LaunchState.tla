---------------------------- MODULE LaunchState ----------------------------
(***************************************************************************)
(* State of a set of runs: each is one host process (execute_run), started  *)
(* once or requeued by Slurm, with its Wizard processes, its run directory  *)
(* (the topology registry) and the Cosmos workers that meet through it.     *)
(* All runs share the caches of container images and AlpaSim checkouts.     *)
(***************************************************************************)
EXTENDS ConfigValidation, FiniteSetsExt

CONSTANT Cases   \* the launches a behaviour may consist of, see Case

FaultKinds ==
  {"fetch",    \* enroot import, git or uv fails
   "popen",    \* a Wizard cannot be started
   "wizard",   \* a Wizard exits
   "startup",  \* a runtime does not come up in time, or reports other scenes
   "bind",     \* the Controller finds no port to bind
   "worker"}   \* a Cosmos worker dies, or gives the master endpoint up

(* A case: the config of each run, how it is started, how often Slurm or    *)
(* the user starts it, the capacity an AlpaSim runtime reports, how far the  *)
(* registry's image and the git ref may move, and which failures there are. *)
VARIABLES
  case,
  \* execute_run
  stage,    \* where the process is
  attempt,  \* which start of the run this is
  struck,   \* where SIGUSR1 met this attempt, or "never"
  requeue,  \* requeue_for_autoresume
  launched, \* wizard_processes: how many were appended
  \* processes
  wizards,  \* Wizards alive
  serving,  \* Wizards whose runtime accepts connections
  controller, worker, \* Cosmos processes
  seen,     \* locals of the lock holder: runtimes and counts it read
  runtime, capacity,  \* of a rollout worker: its runtime, its concurrency
  pidBase,  \* the pids of this attempt's workers, see DriverId
  \* the topology registry
  runtimes, \* alpasim_runtimes/: the attempt that published it, 0 for none
  assigned, \* alpasim_assignments/: the runtime of a driver, 0 for none
  drivers,  \* drivers/: the driver ids published
  lock,     \* alpasim_assignments.lock: who holds the flock
  master,   \* nccl_master.yaml: the attempt that published it, 0 for none
  \* caches
  upstream, \* the version a tag or ref points at
  cache,    \* per key, the version of the content, or Absent
  key, draft \* of a run: the digest or SHA it resolved, its private build

hostVars  == <<stage, attempt, struck, requeue, launched>>
procVars  == <<wizards, serving>>
cosmosVars == <<controller, worker, seen, runtime, capacity, pidBase>>
registryVars == <<runtimes, assigned, drivers, lock, master>>
cacheVars == <<upstream, cache, key, draft>>
vars == <<case, hostVars, procVars, cosmosVars, registryVars, cacheVars>>

Absent  == 0
Partial == -1   \* content that is still being written
Nobody == 0
Never  == "never"

Runs      == DOMAIN case.config
Artifacts == {"image", "checkout"}
Versions  == 1 .. case.versions

Config(r)   == case.config[r]
Mode(r)     == case.mode[r]     \* "whole", ALPAGYM_WIZARD_ONLY or ALPAGYM_COSMOS_ONLY
Runtimes(r) == 1 .. Cardinality(AlpasimHosts(Plan(Config(r))))
Replicas(r) == 1 .. Config(r).rolloutReplicas

(* driver-<host>-pid-<pid>: a requeued attempt may meet its old pids again. *)
DriverIds(r)   == 0 .. 2 * Config(r).rolloutReplicas
DriverId(r, w) == pidBase[r] * Config(r).rolloutReplicas + w

Setup == {"image", "import", "checkout", "build", "reset"}
Body  == {"wizards", "popened", "waiting", "blocked", "launch", "cosmos"}   \* the try block
Over  == {"requeue", "ended"}

Init ==
  /\ case \in Cases
  /\ stage = [r \in Runs |-> "new"] /\ attempt = [r \in Runs |-> 1]
  /\ struck = [r \in Runs |-> Never] /\ requeue = [r \in Runs |-> FALSE]
  /\ launched = [r \in Runs |-> 0]
  /\ wizards = [r \in Runs |-> {}] /\ serving = [r \in Runs |-> {}]
  /\ controller = [r \in Runs |-> "absent"]
  /\ worker = [r \in Runs |-> [w \in Replicas(r) |-> "absent"]]
  /\ seen = [r \in Runs |-> [t \in Runtimes(r) |-> 0]]
  /\ runtime = [r \in Runs |-> [w \in Replicas(r) |-> 0]]
  /\ capacity = [r \in Runs |-> [w \in Replicas(r) |-> 0]]
  /\ pidBase = [r \in Runs |-> 0]
  /\ runtimes = [r \in Runs |-> [t \in Runtimes(r) |-> Absent]]
  /\ assigned = [r \in Runs |-> [d \in DriverIds(r) |-> 0]]
  /\ drivers = [r \in Runs |-> {}]
  /\ lock = [r \in Runs |-> Nobody] /\ master = [r \in Runs |-> Absent]
  /\ upstream = [a \in Artifacts |-> 1]
  /\ cache = [a \in Artifacts |-> [v \in Versions |-> Absent]]
  /\ key = [r \in Runs |-> [a \in Artifacts |-> Absent]]
  /\ draft = [r \in Runs |-> Absent]
=============================================================================
