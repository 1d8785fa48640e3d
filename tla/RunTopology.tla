---------------------------- MODULE RunTopology ----------------------------
(***************************************************************************)
(* Placement of a run: which host runs Cosmos, which one AlpaSim, on which  *)
(* of its GPUs (run_topology.py), and what the srun commands built from the *)
(* plan ask for (slurm.py).  A plan is a function from the hosts of the     *)
(* allocation, in allocation order, to host plans.                          *)
(***************************************************************************)
EXTENDS Integers, FiniteSets

HostPlan == [runsCosmos: BOOLEAN, runsAlpasim: BOOLEAN, cosmosGpus: Int, alpasimGpus: Int]

CosmosGpuIds(h) == 0 .. h.cosmosGpus - 1

AlpasimGpuIds(h) ==
  LET start == IF h.runsCosmos THEN h.cosmosGpus ELSE 0
  IN  start .. start + h.alpasimGpus - 1

CosmosHosts(plan)  == {i \in DOMAIN plan : plan[i].runsCosmos}
AlpasimHosts(plan) == {i \in DOMAIN plan : plan[i].runsAlpasim}

(* Local subprocesses bind no GPUs.                                         *)
LocalPlan ==
  [i \in {1} |-> [runsCosmos |-> TRUE, runsAlpasim |-> TRUE, cosmosGpus |-> 0, alpasimGpus |-> 0]]

AllInOnePlan(c) ==
  [i \in {1} |-> [runsCosmos |-> TRUE, runsAlpasim |-> TRUE,
                  cosmosGpus |-> c.gpusPerNode - c.alpasimGpus, alpasimGpus |-> c.alpasimGpus]]

SeparateNodesPlan(c) ==
  [i \in 1 .. c.nodes |->
     [runsCosmos  |-> i <= c.cosmosNodes,
      runsAlpasim |-> i > c.cosmosNodes,
      cosmosGpus  |-> IF i <= c.cosmosNodes THEN c.gpusPerNode ELSE 0,
      alpasimGpus |-> IF i > c.cosmosNodes THEN c.gpusPerNode ELSE 0]]

Plan(c) ==
  CASE c.backend = "local_process" -> LocalPlan
    [] c.backend = "slurm" /\ c.layout = "all_in_one"     -> AllInOnePlan(c)
    [] c.backend = "slurm" /\ c.layout = "separate_nodes" -> SeparateNodesPlan(c)

(* The ValueErrors of build_slurm_topology, for an allocation of c.nodes.   *)
CanPlan(c) ==
  /\ c.gpusPerNode >= 1
  /\ c.layout = "all_in_one" =>
       c.nodes = 1 /\ c.alpasimGpus >= 1 /\ c.alpasimGpus < c.gpusPerNode
  /\ c.layout = "separate_nodes" =>
       /\ c.cosmosNodes >= 1
       /\ c.alpasimNodes >= 1
       /\ c.nodes = c.cosmosNodes + c.alpasimNodes

(* build_wizard_srun_command and _gpu_mask want at least one GPU.           *)
CanRunWizard(h) == h.runsAlpasim /\ AlpasimGpuIds(h) # {}

(* One srun for all Cosmos hosts, with the GPU count and the mask of the    *)
(* first of them.                                                           *)
CanRunCosmos(plan) ==
  \E first \in CosmosHosts(plan) :
    /\ \A i \in CosmosHosts(plan) : first <= i
    /\ CosmosGpuIds(plan[first]) # {}
    /\ \A i \in CosmosHosts(plan) : CosmosGpuIds(plan[first]) \subseteq CosmosGpuIds(plan[i])

(* No GPU of a host is given to both sides, none is beyond the node's.      *)
GpusAreDisjoint(c, plan) ==
  \A i \in DOMAIN plan :
    /\ CosmosGpuIds(plan[i]) \cap AlpasimGpuIds(plan[i]) = {}
    /\ CosmosGpuIds(plan[i]) \cup AlpasimGpuIds(plan[i]) \subseteq 0 .. c.gpusPerNode - 1

(* GPUs of one replica, and of them all.                                    *)
PolicyGpus(c)   == c.dpShard * c.policyAxes
RolloutGpus(c)  == c.rolloutAxes
RequiredGpus(c) == c.policyReplicas * PolicyGpus(c) + c.rolloutReplicas * RolloutGpus(c)
CosmosGpus(c)   == IF c.layout = "all_in_one" THEN c.gpusPerNode - c.alpasimGpus ELSE c.gpusPerNode
=============================================================================
