-------------------------- MODULE EndpointRegistry --------------------------
(***************************************************************************)
(* The Cosmos workers of a run and the topology registry they meet through: *)
(* the Controller publishes the NCCL master, every rollout worker reads it,  *)
(* takes the flock and is given the least used AlpaSim runtime, and          *)
(* publishes its driver.  Files survive an attempt; processes and the locks  *)
(* they hold do not.                                                         *)
(***************************************************************************)
EXTENDS LaunchState

UnchangedByWorkers == UNCHANGED <<case, hostVars, procVars, runtimes, cacheVars>>

InCosmos(r) == stage[r] = "cosmos"
Nccl(r)     == Config(r).transport = "nccl"

(* start_nccl_store_master.                                                 *)
ClearMaster(r) ==
  /\ InCosmos(r) /\ Nccl(r) /\ controller[r] = "started"
  /\ master' = [master EXCEPT ![r] = Absent]
  /\ controller' = [controller EXCEPT ![r] = "cleared"]
  /\ UNCHANGED <<worker, seen, runtime, capacity, pidBase, assigned, drivers, lock>>
  /\ UnchangedByWorkers

(* One of ten probed ports binds; TCPStore listens before it is published.  *)
BindAndPublishMaster(r) ==
  /\ InCosmos(r) /\ controller[r] = "cleared"
  /\ master' = [master EXCEPT ![r] = attempt[r]]
  /\ controller' = [controller EXCEPT ![r] = "up"]
  /\ UNCHANGED <<worker, seen, runtime, capacity, pidBase, assigned, drivers, lock>>
  /\ UnchangedByWorkers

BindFails(r) ==
  /\ "bind" \in case.faults
  /\ InCosmos(r) /\ controller[r] = "cleared"
  /\ controller' = [controller EXCEPT ![r] = "dead"]
  /\ UNCHANGED <<worker, seen, runtime, capacity, pidBase, registryVars>>
  /\ UnchangedByWorkers

Step(r, w, from, to) ==
  /\ InCosmos(r) /\ worker[r][w] = from
  /\ worker' = [worker EXCEPT ![r][w] = to]

(* read_nccl_master returns whatever the file holds when a poll finds it.   *)
MasterIsPublished(r) == master[r] # Absent

(* The writer connects to it; a TCPStore of an earlier attempt is dead.     *)
ReadMaster(r, w) ==
  /\ Nccl(r) /\ MasterIsPublished(r)
  /\ Step(r, w, "started", IF master[r] = attempt[r] THEN "met" ELSE "dead")
  /\ UNCHANGED <<controller, seen, runtime, capacity, pidBase, registryVars>>
  /\ UnchangedByWorkers

SkipMaster(r, w) ==
  /\ ~ Nccl(r)
  /\ Step(r, w, "started", "met")
  /\ UNCHANGED <<controller, seen, runtime, capacity, pidBase, registryVars>>
  /\ UnchangedByWorkers

(* acquire_alpasim_runtime.  Under the flock: the published runtimes, and   *)
(* how many drivers each was given.                                          *)
Load(r, t) == Cardinality({d \in DriverIds(r) : assigned[r][d] = t})

(* Mutant: the file is opened, not locked.                                  *)
OpensFile(r) == TRUE

LockIsFree(r) == lock[r] = Nobody

TakeLock(r, w) ==
  /\ LockIsFree(r)
  /\ Step(r, w, "met", "locked")
  /\ lock' = [lock EXCEPT ![r] = w]
  /\ seen' = [seen EXCEPT ![r] = [t \in Runtimes(r) |-> Load(r, t)]]
  /\ UNCHANGED <<controller, runtime, capacity, pidBase, runtimes, assigned, drivers, master>>
  /\ UnchangedByWorkers

LeastUsed(r) ==
  LET published == {t \in Runtimes(r) : runtimes[r][t] # Absent} IN
  CHOOSE t \in published :
    \A u \in published : seen[r][t] < seen[r][u] \/ (seen[r][t] = seen[r][u] /\ t <= u)

(* Mutant: rounded down.                                                    *)
FloorCapacity(total, replicas, count) ==
  LET share == replicas \div count
  IN  total \div (IF share > 1 THEN share ELSE 1)

(* rollout_worker_capacity.                                                 *)
WorkerCapacity(total, replicas, count) ==
  LET share == replicas \div count
      each  == IF share > 1 THEN share ELSE 1
  IN  (total + each - 1) \div each

(* An id that has a runtime keeps it, any other gets the least used one.    *)
Acquire(r, w) ==
  LET id    == DriverId(r, w)
      given == IF assigned[r][id] # 0 THEN assigned[r][id] ELSE LeastUsed(r)
  IN
  /\ Step(r, w, "locked", "assigned")
  /\ assigned' = [assigned EXCEPT ![r][id] = given]
  /\ runtime' = [runtime EXCEPT ![r][w] = given]
  /\ capacity' = [capacity EXCEPT ![r][w] =
       WorkerCapacity(case.capacity, Config(r).rolloutReplicas, Cardinality(Runtimes(r)))]
  /\ lock' = [lock EXCEPT ![r] = Nobody]
  /\ UNCHANGED <<controller, seen, pidBase, runtimes, drivers, master>>
  /\ UnchangedByWorkers

(* publish_driver creates the file: one that an earlier attempt left under  *)
(* the same pid makes it raise.                                              *)
PublishDriver(r, w) ==
  /\ Step(r, w, "assigned", IF DriverId(r, w) \in drivers[r] THEN "dead" ELSE "up")
  /\ drivers' = [drivers EXCEPT ![r] = @ \cup {DriverId(r, w)}]
  /\ UNCHANGED <<controller, seen, runtime, capacity, pidBase, runtimes, assigned, lock, master>>
  /\ UnchangedByWorkers

WorkerDies(r, w) ==
  /\ "worker" \in case.faults
  /\ \E from \in {"started", "locked", "up"} : Step(r, w, from, "dead")
  /\ lock' = [lock EXCEPT ![r] = IF @ = w THEN Nobody ELSE @]
  /\ UNCHANGED <<controller, seen, runtime, capacity, pidBase, runtimes, assigned, drivers, master>>
  /\ UnchangedByWorkers

WorkerNext(r, w) ==
  \/ ReadMaster(r, w) \/ SkipMaster(r, w)
  \/ TakeLock(r, w) \/ Acquire(r, w) \/ PublishDriver(r, w)
ControllerNext(r) == ClearMaster(r) \/ BindAndPublishMaster(r)

CosmosNext ==
  \E r \in Runs :
    \/ ControllerNext(r) \/ BindFails(r)
    \/ \E w \in Replicas(r) : WorkerNext(r, w) \/ WorkerDies(r, w)

(* What an earlier attempt left is gone, or stops the run: reset_alpasim_    *)
(* topology empties the registry of a requeued run and publish_alpasim_      *)
(* runtime creates its files.  But a Cosmos-only run keeps what it was given, *)
(* and the assignments of its earlier attempts with it.                      *)
StartsAfresh(r) == Mode(r) # "cosmos" \/ attempt[r] = 1

(* Once every rollout worker has its runtime, the workers of a runtime can  *)
(* keep it busy: they ask for at least the concurrency it reports, as long   *)
(* as there is a worker for each, and each of them was published by the      *)
(* attempt it serves, or came with the directory of a Cosmos-only run.       *)
RuntimesAreSaturated ==
  \A r \in Runs :
    /\ StartsAfresh(r)
    /\ \A w \in Replicas(r) : worker[r][w] = "up"
    /\ Cardinality(Replicas(r)) >= Cardinality(Runtimes(r))
    => \A t \in Runtimes(r) :
         /\ IF Mode(r) = "cosmos" THEN runtimes[r][t] # Absent ELSE runtimes[r][t] = attempt[r]
         /\ MapThenSumSet(LAMBDA w : capacity[r][w], {w \in Replicas(r) : runtime[r][w] = t})
              >= case.capacity
=============================================================================
