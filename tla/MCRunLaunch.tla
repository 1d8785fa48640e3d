---------------------------- MODULE MCRunLaunch ----------------------------
(* TLC instances of RunLaunch.                                               *)
EXTENDS RunLaunch

(* A Cosmos node and an AlpaSim node, four GPUs each, NCCL.                 *)
Separate ==
  [command |-> "run", backend |-> "slurm", autoresume |-> FALSE, checkpoint |-> TRUE,
   wizardArgs |-> TRUE, repo |-> "path", repoUrl |-> FALSE, checkoutCache |-> TRUE,
   nodes |-> 2, gpusPerNode |-> 4, layout |-> "separate_nodes", alpasimGpus |-> 1,
   cosmosNodes |-> 1, alpasimNodes |-> 1, container |-> TRUE, mounted |-> TRUE,
   image |-> "file", imageCache |-> TRUE, colocated |-> FALSE,
   transport |-> "nccl", ncclTimeout |-> 1, policyReplicas |-> 1, rolloutReplicas |-> 2,
   dpShard |-> 1, policyAxes |-> 1, rolloutAxes |-> 1,
   trainBatch |-> 2, miniBatch |-> 1, nGeneration |-> 2,
   simSteps |-> 3, forceGt |-> 2, controlTimestep |-> 2, expectedSteps |-> 2,
   contextFrames |-> 1, returnTrace |-> TRUE, testModel |-> FALSE, testBackend |-> FALSE,
   scenes |-> 1, modelBundle |-> TRUE, rewardTerms |-> 1, flushEvery |-> 1, maxSamples |-> 1]

AllInOne == [Separate EXCEPT !.layout = "all_in_one", !.nodes = 1, !.transport = "disk"]
Local    == [Separate EXCEPT !.backend = "local_process", !.colocated = TRUE, !.transport = "disk"]
Disk     == [Separate EXCEPT !.transport = "disk"]

(* One field of a config changed.                                           *)
Numbers  == {"nodes", "gpusPerNode", "alpasimGpus", "cosmosNodes", "alpasimNodes", "ncclTimeout",
             "policyReplicas", "rolloutReplicas", "dpShard", "policyAxes", "rolloutAxes",
             "trainBatch", "miniBatch", "nGeneration", "simSteps", "forceGt", "controlTimestep",
             "expectedSteps", "contextFrames", "rewardTerms", "flushEvery", "maxSamples"}
Switches == {"autoresume", "checkpoint", "wizardArgs", "repoUrl", "checkoutCache", "container",
             "mounted", "imageCache", "colocated", "returnTrace", "testModel", "testBackend",
             "modelBundle"}
Near(c) ==
  {[c EXCEPT ![f] = n] : f \in Numbers, n \in {0, 1, 2, 5}}
  \cup {[c EXCEPT ![f] = ~ @] : f \in Switches}
  \cup {[c EXCEPT !.scenes = n] : n \in {0, Suite}}
  \cup {[c EXCEPT !.command = "submit"], [c EXCEPT !.repo = "cached"], [c EXCEPT !.image = "registry"]}

Alone(c) == [config |-> <<c>>, mode |-> <<"whole">>, attempts |-> 1, capacity |-> 3,
             versions |-> 1, faults |-> {}]

Preset == [Separate EXCEPT !.nodes = 5, !.cosmosNodes = 2, !.alpasimNodes = 3]
Placements == {Alone(c) : c \in UNION {Near(b) : b \in {Separate, AllInOne, Local}} \cup {Preset}}

(* Two runtimes and three workers, requeued or started again by hand.       *)
Requeued == [Alone([Disk EXCEPT !.autoresume = TRUE, !.nodes = 3, !.alpasimNodes = 2,
                                !.rolloutReplicas = 3])
               EXCEPT !.attempts = 2, !.faults = {"wizard"}]
Repeated == [Requeued EXCEPT !.config[1].autoresume = FALSE, !.faults = {}]
(* The master endpoint of the attempt before.                               *)
Masters  == [Alone([Separate EXCEPT !.autoresume = TRUE])
               EXCEPT !.attempts = 2, !.faults = {"bind", "worker", "startup", "popen"}]
(* Two runs that miss both caches.                                          *)
Small  == [Disk EXCEPT !.rolloutReplicas = 1, !.image = "registry", !.repo = "cached"]
Shared == [config |-> <<Small, Small>>, mode |-> <<"whole", "whole">>, attempts |-> 1,
           capacity |-> 1, versions |-> 2, faults |-> {"fetch"}]
Split  == [config |-> <<Local, Local>>, mode |-> <<"wizard", "cosmos">>, attempts |-> 1,
           capacity |-> 3, versions |-> 1, faults |-> {}]
(* The Cosmos-only one is signalled and requeued.                           *)
Rehosted == [Split EXCEPT !.config = [r \in 1 .. 2 |-> [Disk EXCEPT !.autoresume = TRUE, !.rolloutReplicas = 1]],
                          !.attempts = 2]

MCCases == Placements \cup {Requeued, Repeated, Masters, Shared, Split, Rehosted}
=============================================================================
