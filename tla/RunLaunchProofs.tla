-------------------------- MODULE RunLaunchProofs --------------------------
(***************************************************************************)
(* Proofs about launches: validation admits only configs the launch can     *)
(* carry out, whatever their numbers are, no Wizard is left behind, what a   *)
(* run takes from the shared caches is sound, the flock of the registry has  *)
(* one holder, and its workers keep every runtime busy, whatever the cases,  *)
(* the failures and the attempts.                                            *)
(***************************************************************************)
EXTENDS RunLaunch, FiniteSums, FiniteSetTheorems, TLAPS

-----------------------------------------------------------------------------
(* Validation                                                                *)

(* A Slurm run that was validated: every host of its plan has the GPUs it    *)
(* is asked for.                                                             *)
LEMMA PlacementHolds ==
  ASSUME NEW c \in Configs, c.backend = "slurm", ValidSlurm(c)
  PROVE  PlacementWorks(c)
<1>0. /\ c.layout \in {"all_in_one", "separate_nodes"}
      /\ c.nodes \in Int /\ c.cosmosNodes \in Int /\ c.alpasimNodes \in Int
      /\ c.gpusPerNode \in Int /\ c.alpasimGpus \in Int
  BY DEF Configs
<1>1. /\ ValidSlurmTopology(c) /\ ValidSlurmConfig(c) /\ ValidCosmosGpus(c)
  BY DEF ValidSlurm
<1>2. CanPlan(c)
  BY <1>1 DEF ValidSlurmTopology, ValidSlurmConfig, CanPlan
<1>3. CASE c.layout = "all_in_one"
  <2> DEFINE plan == AllInOnePlan(c)
  <2>1. Plan(c) = plan
    BY <1>3 DEF Plan
  <2>2. /\ DOMAIN plan = {1} /\ plan[1].runsCosmos /\ plan[1].runsAlpasim
        /\ plan[1].cosmosGpus = c.gpusPerNode - c.alpasimGpus
        /\ plan[1].alpasimGpus = c.alpasimGpus
    BY DEF AllInOnePlan
  <2>3. c.alpasimGpus >= 1 /\ c.gpusPerNode - c.alpasimGpus >= 1
    BY <1>0, <1>2, <1>3 DEF CanPlan
  <2>4. CosmosHosts(plan) = {1} /\ AlpasimHosts(plan) = {1}
    BY <2>2 DEF CosmosHosts, AlpasimHosts
  <2>5. CanRunWizard(plan[1]) /\ CosmosGpuIds(plan[1]) # {}
    <3>1. c.gpusPerNode - c.alpasimGpus \in AlpasimGpuIds(plan[1]) /\ 0 \in CosmosGpuIds(plan[1])
      BY <1>0, <2>2, <2>3 DEF AlpasimGpuIds, CosmosGpuIds
    <3> QED
      BY <2>2, <3>1 DEF CanRunWizard
  <2>6. CanRunCosmos(plan)
    BY <2>4, <2>5 DEF CanRunCosmos
  <2>7. GpusAreDisjoint(c, plan)
    BY <1>0, <2>2, <2>3 DEF GpusAreDisjoint, CosmosGpuIds, AlpasimGpuIds
  <2>8. PolicyGpus(c) <= CosmosGpus(c) /\ RolloutGpus(c) <= CosmosGpus(c)
    BY <1>1, <1>3, <2>1, <2>2, <2>4 DEF ValidCosmosGpus, CosmosGpus
  <2> QED
    BY <1>2, <2>1, <2>4, <2>5, <2>6, <2>7, <2>8 DEF PlacementWorks
<1>4. CASE c.layout = "separate_nodes"
  <2> DEFINE plan == SeparateNodesPlan(c)
  <2>1. Plan(c) = plan
    BY <1>4 DEF Plan
  <2>2. /\ c.cosmosNodes >= 1 /\ c.alpasimNodes >= 1 /\ c.gpusPerNode >= 1
        /\ c.nodes = c.cosmosNodes + c.alpasimNodes
    BY <1>2, <1>4 DEF CanPlan
  <2>3. /\ DOMAIN plan = 1 .. c.nodes
        /\ \A i \in 1 .. c.nodes :
             /\ plan[i].runsCosmos <=> i <= c.cosmosNodes
             /\ plan[i].runsAlpasim <=> i > c.cosmosNodes
             /\ plan[i].cosmosGpus = IF i <= c.cosmosNodes THEN c.gpusPerNode ELSE 0
             /\ plan[i].alpasimGpus = IF i > c.cosmosNodes THEN c.gpusPerNode ELSE 0
    BY DEF SeparateNodesPlan
  <2>4. /\ \A i : i \in CosmosHosts(plan) <=> i \in Int /\ 1 <= i /\ i <= c.cosmosNodes
        /\ \A i : i \in AlpasimHosts(plan) <=> i \in Int /\ c.cosmosNodes < i /\ i <= c.nodes
    BY <1>0, <2>2, <2>3 DEF CosmosHosts, AlpasimHosts
  <2>5. c.nodes \in AlpasimHosts(plan) /\ 1 \in CosmosHosts(plan)
    BY <1>0, <2>2, <2>4
  <2>6. \A i \in AlpasimHosts(plan) : CanRunWizard(plan[i])
    <3> SUFFICES ASSUME NEW i \in AlpasimHosts(plan) PROVE CanRunWizard(plan[i])
      OBVIOUS
    <3>1. ~ plan[i].runsCosmos /\ plan[i].runsAlpasim /\ plan[i].alpasimGpus = c.gpusPerNode
      BY <1>0, <2>2, <2>3, <2>4
    <3>2. 0 \in AlpasimGpuIds(plan[i])
      BY <1>0, <2>2, <3>1 DEF AlpasimGpuIds
    <3> QED
      BY <3>1, <3>2 DEF CanRunWizard
  <2>7. \A i \in CosmosHosts(plan) : plan[i].cosmosGpus = c.gpusPerNode
    BY <1>0, <2>2, <2>3, <2>4
  <2>8. CanRunCosmos(plan)
    <3>1. 0 \in CosmosGpuIds(plan[1])
      BY <1>0, <2>2, <2>5, <2>7 DEF CosmosGpuIds
    <3>2. \A i \in CosmosHosts(plan) : 1 <= i /\ CosmosGpuIds(plan[1]) \subseteq CosmosGpuIds(plan[i])
      BY <2>4, <2>5, <2>7 DEF CosmosGpuIds
    <3> QED
      BY <2>5, <3>1, <3>2 DEF CanRunCosmos
  <2>9. GpusAreDisjoint(c, plan)
    <3> SUFFICES ASSUME NEW i \in 1 .. c.nodes
                 PROVE  /\ CosmosGpuIds(plan[i]) \cap AlpasimGpuIds(plan[i]) = {}
                        /\ CosmosGpuIds(plan[i]) \cup AlpasimGpuIds(plan[i]) \subseteq 0 .. c.gpusPerNode - 1
      BY <2>3 DEF GpusAreDisjoint
    <3>1. CASE i <= c.cosmosNodes
      BY <1>0, <2>2, <2>3, <3>1 DEF CosmosGpuIds, AlpasimGpuIds
    <3>2. CASE i > c.cosmosNodes
      BY <1>0, <2>2, <2>3, <3>2 DEF CosmosGpuIds, AlpasimGpuIds
    <3> QED
      BY <1>0, <3>1, <3>2
  <2>10. PolicyGpus(c) <= CosmosGpus(c) /\ RolloutGpus(c) <= CosmosGpus(c)
    BY <1>1, <1>4, <2>1, <2>7 DEF ValidCosmosGpus, CosmosGpus
  <2> QED
    BY <1>2, <2>1, <2>5, <2>6, <2>8, <2>9, <2>10 DEF PlacementWorks
<1> QED
  BY <1>0, <1>3, <1>4

(* Any config, with any numbers in it, that loads and is valid can be        *)
(* placed, built and requeued: validate_run_config makes every check that    *)
(* the topology, the srun builders, the worker constructors and the resume   *)
(* would make later.  It says nothing of the trainer's budget.               *)
THEOREM ValidConfigsAreLaunchable ==
  ASSUME NEW c \in Configs, Loads(c), ValidRunConfig(c)
  PROVE  Launchable(c)
<1> USE DEF Configs
<1>1. PlacementWorks(c)
  <2>1. CASE c.backend = "slurm"
    BY <2>1, PlacementHolds DEF ValidRunConfig
  <2>2. CASE c.backend # "slurm"
    BY <2>2 DEF PlacementWorks
  <2> QED
    BY <2>1, <2>2
<1>2. WorkersBuild(c)
  BY DEF ValidRunConfig, ValidTransport, ValidTestModel, WorkersBuild, Suite
<1>3. RequeueResumes(c)
  BY DEF ValidRunConfig, ValidAutoresume, RequeueResumes
<1> QED
  BY <1>1, <1>2, <1>3 DEF Launchable

-----------------------------------------------------------------------------
(* Launches                                                                  *)

Struck == {Never} \cup Setup \cup Body \cup {"teardown"}

(* The Wizards alive are among those that were appended, but for the one     *)
(* that SIGUSR1 met between its Popen and its append.                        *)
WizardsOK(r) ==
  /\ stage[r] \in {"new", "rejected", "ready"} \cup Setup => wizards[r] = {}
  /\ stage[r] \in Over => wizards[r] = {} \/ struck[r] \in {"popened", "teardown"}
  /\ \A t \in wizards[r] : t <= launched[r] + 1
  /\ \A t \in wizards[r] : t <= launched[r] \/ "popened" \in {stage[r], struck[r]}

ConfigOK(r) ==
  stage[r] \notin {"new", "rejected"} => Loads(Config(r)) /\ ValidRunConfig(Config(r))

LaunchInv ==
  /\ case \in Cases
  /\ stage \in [Runs -> Stages] /\ struck \in [Runs -> Struck]
  /\ launched \in [Runs -> Nat] /\ wizards \in [Runs -> SUBSET Nat]
  /\ \A r \in Runs : WizardsOK(r) /\ ConfigOK(r)

LaunchVars == <<case, stage, struck, launched, wizards>>

LEMMA LaunchInit == Init => LaunchInv
BY DEF Init, LaunchInv, WizardsOK, ConfigOK, Stages, Struck, Over, Setup

(* What a host step of run r leaves to prove.                                *)
LEMMA OneRun ==
  ASSUME LaunchInv, NEW r \in Runs, case' = case,
         stage' = [stage EXCEPT ![r] = stage'[r]], stage'[r] \in Stages,
         struck' = [struck EXCEPT ![r] = struck'[r]], struck'[r] \in Struck,
         launched' = [launched EXCEPT ![r] = launched'[r]], launched'[r] \in Nat,
         wizards' = [wizards EXCEPT ![r] = wizards'[r]], wizards'[r] \subseteq Nat,
         WizardsOK(r)', ConfigOK(r)'
  PROVE  LaunchInv'
<1>1. \A q \in Runs : q # r => WizardsOK(q)' /\ ConfigOK(q)'
  BY DEF LaunchInv, WizardsOK, ConfigOK, Config
<1>2. Runs' = Runs
  BY DEF Runs
<1> QED
  BY <1>1, <1>2 DEF LaunchInv

LEMMA CacheStep == LaunchInv /\ CacheNext => LaunchInv'
<1> SUFFICES ASSUME LaunchInv, CacheNext PROVE LaunchInv'
  OBVIOUS
<1>1. UNCHANGED <<case, struck, launched, wizards>>
  BY DEF CacheNext, UseLocal, Lookup, BeginFetch, FinishFetch, FetchFails, PublishImage, PublishCheckout,
         Publish, MoveUpstream, UnchangedElsewhere, procVars
<1>2. \/ stage' = stage
      \/ \E r \in Runs : /\ stage[r] \in Setup /\ stage'[r] \in Setup \cup {"ended"}
                         /\ stage' = [stage EXCEPT ![r] = stage'[r]]
  BY DEF CacheNext, UseLocal, Lookup, BeginFetch, FinishFetch, FetchFails, PublishImage, PublishCheckout,
         Publish, MoveUpstream, Abort, After, Build, Artifacts, Setup, LaunchInv
<1>3. CASE stage' = stage
  BY <1>1, <1>3 DEF LaunchInv, WizardsOK, ConfigOK, Config, Runs
<1>4. CASE \E r \in Runs : /\ stage[r] \in Setup /\ stage'[r] \in Setup \cup {"ended"}
                           /\ stage' = [stage EXCEPT ![r] = stage'[r]]
  <2> PICK r \in Runs : /\ stage[r] \in Setup /\ stage'[r] \in Setup \cup {"ended"}
                        /\ stage' = [stage EXCEPT ![r] = stage'[r]]
    BY <1>4
  <2>1. WizardsOK(r)' /\ ConfigOK(r)' /\ stage'[r] \in Stages
    BY <1>1 DEF LaunchInv, WizardsOK, ConfigOK, Config, Setup, Over, Stages
  <2> QED
    BY <1>1, <2>1, OneRun DEF LaunchInv
<1> QED
  BY <1>2, <1>3, <1>4

LEMMA CosmosStep == LaunchInv /\ CosmosNext => LaunchInv'
<1>1. CosmosNext => UNCHANGED LaunchVars
  BY DEF CosmosNext, ControllerNext, ClearMaster, BindAndPublishMaster, BindFails, WorkerNext, ReadMaster,
         SkipMaster, TakeLock, Acquire, PublishDriver, WorkerDies, UnchangedByWorkers, hostVars, procVars,
         LaunchVars
<1> QED
  BY <1>1 DEF LaunchVars, LaunchInv, WizardsOK, ConfigOK, Config, Runs

(* Actions that only move the host process on.                               *)
LEMMA MovesOn ==
  ASSUME LaunchInv, NEW r \in Runs, UNCHANGED <<case, struck, launched, wizards>>,
         NEW to \in Stages, Go(r, to), WizardsOK(r)', ConfigOK(r)'
  PROVE  LaunchInv'
<1>1. stage'[r] = to /\ stage' = [stage EXCEPT ![r] = stage'[r]]
  BY DEF Go, LaunchInv
<1> QED
  BY <1>1, OneRun DEF LaunchInv

LEMMA StartOK ==
  ASSUME LaunchInv, NEW r \in Runs, Validate(r) \/ BeginRun(r) \/ ResetTopology(r)
  PROVE  LaunchInv'
<1> USE DEF Stages, Setup, Body, Over
<1>1. CASE Validate(r)
  <2> DEFINE to == IF Loads(Config(r)) /\ ValidRunConfig(Config(r)) THEN "ready" ELSE "rejected"
  <2>1. /\ UNCHANGED <<case, struck, launched, wizards>> /\ Go(r, to)
        /\ stage[r] = "new" /\ stage'[r] = to
    BY <1>1 DEF Validate, Go, UnchangedByHost, procVars, LaunchInv
  <2>2. Config(r)' = Config(r)
    BY <2>1 DEF Config
  <2>3. ConfigOK(r)'
    BY <2>1 DEF ConfigOK, Config
  <2>4. WizardsOK(r)'
    BY <2>1 DEF LaunchInv, WizardsOK
  <2> QED
    BY <2>1, <2>3, <2>4, MovesOn
<1>2. CASE BeginRun(r)
  <2>1. /\ UNCHANGED <<case, struck, launched, wizards>> /\ Go(r, "image")
        /\ stage[r] = "ready" /\ stage'[r] = "image"
    BY <1>2 DEF BeginRun, Go, UnchangedByHost, procVars, LaunchInv
  <2>2. WizardsOK(r)' /\ ConfigOK(r)'
    BY <2>1 DEF LaunchInv, WizardsOK, ConfigOK, Config
  <2> QED
    BY <2>1, <2>2, MovesOn
<1>3. CASE ResetTopology(r)
  <2>1. PICK to \in {"launch", "wizards"} :
          /\ UNCHANGED <<case, struck, launched, wizards>> /\ Go(r, to)
          /\ stage[r] = "reset" /\ stage'[r] = to
    BY <1>3 DEF ResetTopology, Go, UnchangedByHost, procVars, LaunchInv
  <2>2. WizardsOK(r)' /\ ConfigOK(r)'
    BY <2>1 DEF LaunchInv, WizardsOK, ConfigOK, Config
  <2> QED
    BY <2>1, <2>2, MovesOn
<1> QED
  BY <1>1, <1>2, <1>3

(* Popen adds the Wizard, append counts it.                                  *)
LEMMA StartWizardOK ==
  ASSUME LaunchInv, NEW r \in Runs, StartWizard(r)
  PROVE  LaunchInv'
<1>1. /\ UNCHANGED <<case, struck, launched>> /\ stage[r] = "wizards" /\ stage'[r] = "popened"
      /\ stage' = [stage EXCEPT ![r] = stage'[r]]
      /\ wizards'[r] = wizards[r] \cup {launched[r] + 1}
      /\ wizards' = [wizards EXCEPT ![r] = wizards'[r]]
  BY DEF StartWizard, Go, UnchangedByHost, LaunchInv
<1>2. launched[r] + 1 \in Nat /\ wizards'[r] \subseteq Nat
  BY <1>1 DEF LaunchInv
<1>3. WizardsOK(r)' /\ ConfigOK(r)'
  BY <1>1, <1>2 DEF LaunchInv, WizardsOK, ConfigOK, Config, Over, Setup
<1> QED
  BY <1>1, <1>2, <1>3, OneRun DEF LaunchInv, Stages, Body

LEMMA AppendWizardOK ==
  ASSUME LaunchInv, NEW r \in Runs, AppendWizard(r)
  PROVE  LaunchInv'
<1>1. /\ UNCHANGED <<case, struck, wizards>>
      /\ stage[r] = "popened" /\ stage'[r] \in {"waiting", "wizards"}
      /\ stage' = [stage EXCEPT ![r] = stage'[r]]
      /\ launched'[r] = launched[r] + 1
      /\ launched' = [launched EXCEPT ![r] = launched'[r]]
  BY DEF AppendWizard, Go, UnchangedByHost, procVars, LaunchInv
<1>2. launched'[r] \in Nat
  BY <1>1 DEF LaunchInv
<1>3. WizardsOK(r)'
  BY <1>1, <1>2 DEF LaunchInv, WizardsOK, Over, Setup
<1>4. ConfigOK(r)'
  BY <1>1 DEF LaunchInv, ConfigOK, Config
<1> QED
  BY <1>1, <1>2, <1>3, <1>4, OneRun DEF LaunchInv, Stages, Body

(* From the runtimes to the teardown.                                        *)
LEMMA RunOK ==
  ASSUME LaunchInv, NEW r \in Runs,
         \/ AllRuntimesReady(r) \/ LaunchCosmos(r) \/ CosmosReturns(r)
         \/ StartupFails(r) \/ StopWizardHost(r)
  PROVE  LaunchInv'
<1>1. PICK to \in {"blocked", "launch", "cosmos", "teardown"} :
        /\ UNCHANGED <<case, struck, launched, wizards>> /\ Go(r, to)
        /\ stage[r] \in Body \ {"popened"}
  BY DEF AllRuntimesReady, LaunchCosmos, CosmosReturns, StartupFails, StopWizardHost, UnchangedByHost,
         procVars, Body
<1>2. stage'[r] = to
  BY <1>1 DEF Go, LaunchInv
<1>3. WizardsOK(r)' /\ ConfigOK(r)'
  BY <1>1, <1>2 DEF LaunchInv, WizardsOK, ConfigOK, Config, Over, Setup, Body
<1> QED
  BY <1>1, <1>3, MovesOn DEF Stages, Body

(* The teardown ends once no counted Wizard is left.                         *)
LEMMA TeardownOK ==
  ASSUME LaunchInv, NEW r \in Runs, TerminateWizard(r) \/ FinishTeardown(r)
  PROVE  LaunchInv'
<1>1. CASE TerminateWizard(r)
  <2>1. /\ UNCHANGED <<case, stage, struck, launched>> /\ stage[r] = "teardown"
        /\ wizards'[r] \subseteq wizards[r]
        /\ wizards' = [wizards EXCEPT ![r] = wizards'[r]]
    BY <1>1 DEF TerminateWizard, UnchangedByHost, hostVars, LaunchInv
  <2>2. WizardsOK(r)' /\ ConfigOK(r)'
    BY <2>1 DEF LaunchInv, WizardsOK, ConfigOK, Config, Over, Setup
  <2> QED
    BY <2>1, <2>2, OneRun DEF LaunchInv
<1>2. CASE FinishTeardown(r)
  <2>1. PICK to \in Over : UNCHANGED <<case, struck, launched, wizards>> /\ Go(r, to)
    BY <1>2 DEF FinishTeardown, UnchangedByHost, procVars, Over
  <2>2. stage'[r] = to /\ stage[r] = "teardown"
    BY <1>2, <2>1 DEF FinishTeardown, Go, LaunchInv
  <2>3. wizards[r] = {} \/ struck[r] = "popened"
    <3> SUFFICES ASSUME NEW t \in wizards[r] PROVE struck[r] = "popened"
      OBVIOUS
    <3>1. t > launched[r] /\ t \in Nat /\ launched[r] \in Nat
      BY <1>2 DEF FinishTeardown, AllTerminated, LaunchInv
    <3> QED
      BY <2>2, <3>1 DEF LaunchInv, WizardsOK
  <2>4. WizardsOK(r)' /\ ConfigOK(r)'
    BY <2>1, <2>2, <2>3 DEF LaunchInv, WizardsOK, ConfigOK, Config, Over, Setup
  <2> QED
    BY <2>1, <2>4, MovesOn DEF Stages, Over
<1> QED
  BY <1>1, <1>2

(* A requeued run, and one that is started again, starts from nothing.       *)
LEMMA NextAttemptOK ==
  ASSUME LaunchInv, NEW r \in Runs, Requeue(r) \/ StartAgain(r)
  PROVE  LaunchInv'
<1>1. /\ case' = case /\ stage[r] \in Over /\ stage'[r] = "image" /\ struck'[r] = Never
      /\ launched'[r] = 0 /\ wizards'[r] = {}
      /\ stage' = [stage EXCEPT ![r] = stage'[r]] /\ struck' = [struck EXCEPT ![r] = struck'[r]]
      /\ launched' = [launched EXCEPT ![r] = launched'[r]]
      /\ wizards' = [wizards EXCEPT ![r] = wizards'[r]]
  BY DEF Requeue, StartAgain, NextAttempt, Go, UnchangedByHost, LaunchInv, Over
<1>2. WizardsOK(r)' /\ ConfigOK(r)'
  BY <1>1 DEF LaunchInv, WizardsOK, ConfigOK, Config, Over
<1> QED
  BY <1>1, <1>2, OneRun DEF Stages, Setup, Struck

(* SIGUSR1 remembers where it met the run.                                   *)
LEMMA SignalOK ==
  ASSUME LaunchInv, NEW r \in Runs, Signal(r)
  PROVE  LaunchInv'
<1>1. /\ UNCHANGED <<case, launched, wizards>> /\ struck[r] = Never
      /\ stage[r] \in Setup \cup Body \cup {"teardown"} /\ struck'[r] = stage[r]
      /\ stage'[r] = IF stage[r] \in Body THEN "teardown" ELSE "ended"
      /\ stage' = [stage EXCEPT ![r] = stage'[r]] /\ struck' = [struck EXCEPT ![r] = struck'[r]]
  BY DEF Signal, Go, Caught, CosmosStops, procVars, LaunchInv
<1>2. WizardsOK(r)'
  BY <1>1 DEF LaunchInv, WizardsOK, Over, Setup, Body, Never
<1>3. ConfigOK(r)'
  BY <1>1 DEF LaunchInv, ConfigOK, Config, Setup, Body
<1> QED
  BY <1>1, <1>2, <1>3, OneRun DEF LaunchInv, Stages, Struck, Over

(* A Wizard that exits leaves the others.                                    *)
LEMMA WizardExitsOK ==
  ASSUME LaunchInv, NEW r \in Runs, NEW t \in Runtimes(r), WizardExits(r, t)
  PROVE  LaunchInv'
<1>1. /\ UNCHANGED <<case, stage, struck, launched>> /\ stage[r] \in Body
      /\ wizards'[r] \subseteq wizards[r]
      /\ wizards' = [wizards EXCEPT ![r] = wizards'[r]]
  BY DEF WizardExits, UnchangedByHost, hostVars, LaunchInv
<1>2. WizardsOK(r)' /\ ConfigOK(r)'
  BY <1>1 DEF LaunchInv, WizardsOK, ConfigOK, Config, Over, Setup, Body
<1> QED
  BY <1>1, <1>2, OneRun DEF LaunchInv

LEMMA LaunchStutters == LaunchInv /\ UNCHANGED LaunchVars => LaunchInv'
BY DEF LaunchVars, LaunchInv, WizardsOK, ConfigOK, Config, Runs

(* What only touches the registry or the runtimes.                           *)
LEMMA RegistryOK ==
  ASSUME LaunchInv, NEW r \in Runs,
         \/ PublishRuntime(r)
         \/ \E t \in Runtimes(r) : RuntimeServes(r, t)
         \/ \E from \in Runs : CopyRunDir(from, r)
  PROVE  LaunchInv'
<1>1. UNCHANGED LaunchVars
  BY DEF PublishRuntime, RuntimeServes, CopyRunDir, UnchangedByHost, hostVars, procVars, LaunchVars
<1> QED
  BY <1>1, LaunchStutters

LEMMA LaunchStep == LaunchInv /\ [Next]_vars => LaunchInv'
<1> SUFFICES ASSUME LaunchInv, [Next]_vars PROVE LaunchInv'
  OBVIOUS
<1>1. CASE CacheNext
  BY <1>1, CacheStep
<1>2. CASE CosmosNext
  BY <1>2, CosmosStep
<1>3. ASSUME NEW r \in Runs, HostNext(r)
      PROVE  LaunchInv'
  BY <1>3, StartOK, StartWizardOK, AppendWizardOK, RegistryOK, RunOK, TeardownOK, NextAttemptOK DEF HostNext
<1>4. ASSUME NEW r \in Runs, StartupFails(r) \/ StopWizardHost(r) \/ StartAgain(r) \/ Signal(r)
      PROVE  LaunchInv'
  BY <1>4, RunOK, NextAttemptOK, SignalOK
<1>5. ASSUME NEW r \in Runs, NEW t \in Runtimes(r), RuntimeServes(r, t) \/ WizardExits(r, t)
      PROVE  LaunchInv'
  BY <1>5, RegistryOK, WizardExitsOK
<1>6. ASSUME NEW r \in Runs, NEW from \in Runs, CopyRunDir(from, r)
      PROVE  LaunchInv'
  BY <1>6, RegistryOK
<1>7. CASE UNCHANGED vars
  BY <1>7, LaunchStutters DEF vars, hostVars, procVars, LaunchVars
<1> QED
  BY <1>1, <1>2, <1>3, <1>4, <1>5, <1>6, <1>7 DEF Next

THEOREM LaunchInvariant == Spec => []LaunchInv
BY LaunchInit, LaunchStep, PTL DEF Spec

(* When execute_run is over, every Wizard it started has been terminated,    *)
(* unless SIGUSR1 met it between Popen and append or in the teardown: for    *)
(* any number of hosts, runs and attempts.                                   *)
THEOREM WizardsEndWithTheirRun == Spec => []NoWizardOutlivesItsRun
<1>1. LaunchInv => NoWizardOutlivesItsRun
  BY DEF LaunchInv, WizardsOK, NoWizardOutlivesItsRun
<1> QED
  BY <1>1, LaunchInvariant, PTL

(* A run that got past validate_run_config meets none of the errors that     *)
(* placing it, building its workers or requeueing it could raise for its     *)
(* config, whatever its numbers are.                                         *)
THEOREM AdmittedRunsAreLaunchable == Spec => []ValidatedRunsAreLaunchable
<1>1. LaunchInv => ValidatedRunsAreLaunchable
  <2> SUFFICES ASSUME LaunchInv, NEW r \in Runs, stage[r] \notin {"new", "rejected"}
               PROVE  Launchable(Config(r))
    BY DEF ValidatedRunsAreLaunchable
  <2>1. Config(r) \in Configs
    BY CasesAreRuns DEF LaunchInv, Runs, Config
  <2>2. Loads(Config(r)) /\ ValidRunConfig(Config(r))
    BY DEF LaunchInv, ConfigOK
  <2> QED
    BY <2>1, <2>2, ValidConfigsAreLaunchable
<1> QED
  BY <1>1, LaunchInvariant, PTL

-----------------------------------------------------------------------------
(* Caches                                                                    *)

(* What a key's entry holds: an image no older than the digest that names it *)
(* (enroot imports by tag), exactly the commit that names a checkout.        *)
ImageKept(v)    == cache["image"][v] # Absent => cache["image"][v] >= v
CheckoutKept(v) == cache["checkout"][v] \in {Absent, v}

(* The private directory of a build: empty, half written, or what its key    *)
(* calls for.                                                                *)
DraftOK(r) ==
  /\ stage[r] \notin {"import", "build"} => draft[r] = Absent
  /\ stage[r] = "import" => /\ key[r]["image"] # Absent
                            /\ draft[r] \in {Absent, Partial} \/ draft[r] >= key[r]["image"]
  /\ stage[r] = "build" => /\ key[r]["checkout"] # Absent
                           /\ draft[r] \in {Absent, Partial, key[r]["checkout"]}

(* A run past a cache has a key, and the key an entry.                       *)
FoundOK(r) ==
  /\ PastImage(r) /\ NeedsImage(r) =>
       key[r]["image"] # Absent /\ cache["image"][key[r]["image"]] # Absent
  /\ PastCheckout(r) /\ NeedsCheckout(r) =>
       key[r]["checkout"] # Absent /\ cache["checkout"][key[r]["checkout"]] # Absent

(* The kinds of the shared state.                                            *)
CacheTypes ==
  /\ upstream \in [Artifacts -> Versions]
  /\ cache \in [Artifacts -> [Versions -> {Absent} \cup Versions]]
  /\ key \in [Runs -> [Artifacts -> {Absent} \cup Versions]]
  /\ draft \in [Runs -> {Absent, Partial} \cup Versions]

(* A digest or SHA that a run resolved is not newer than its tag or ref, so  *)
(* that what enroot imports later cannot be older than the key.              *)
CacheInv ==
  /\ CacheTypes
  /\ \A v \in Versions : ImageKept(v) /\ CheckoutKept(v)
  /\ \A r \in Runs : /\ \A a \in Artifacts : key[r][a] <= upstream[a]
                     /\ DraftOK(r) /\ FoundOK(r)

(* Neither mark of a missing entry is a version.                             *)
LEMMA VersionFacts ==
  ASSUME LaunchInv
  PROVE  /\ Versions \subseteq Nat /\ 1 \in Versions /\ Absent \notin Versions /\ Partial \notin Versions
         /\ case.versions \in Nat /\ Absent = 0 /\ Partial = -1
  BY CasesAreRuns DEF LaunchInv, Versions, Absent, Partial

(* The caches are empty and nobody is past them.                             *)
LEMMA CacheInit == Init /\ LaunchInv => CacheInv
<1> SUFFICES ASSUME Init, LaunchInv PROVE CacheInv
  OBVIOUS
<1>1. CacheTypes
  BY VersionFacts DEF Init, CacheTypes
<1>2. \A v \in Versions : ImageKept(v) /\ CheckoutKept(v)
  BY DEF Init, ImageKept, CheckoutKept, Artifacts
<1>3. ASSUME NEW r \in Runs
      PROVE  /\ \A a \in Artifacts : key[r][a] <= upstream[a]
             /\ DraftOK(r) /\ FoundOK(r)
  BY DEF Init, DraftOK, FoundOK, PastImage, PastCheckout, Body, Absent
<1> QED
  BY <1>1, <1>2, <1>3 DEF CacheInv

(* What every step but one of the caches does: a signal removes the draft,   *)
(* nothing gets past a cache.                                                *)
LEMMA HostLeavesCaches ==
  ASSUME LaunchInv, Next, ~CacheNext
  PROVE  /\ UNCHANGED <<case, upstream, cache, key>>
         /\ \/ UNCHANGED <<stage, draft>>
            \/ \E r \in Runs :
                 /\ stage' = [stage EXCEPT ![r] = stage'[r]]
                 /\ stage'[r] \notin {"checkout", "import", "build"}
                 /\ stage'[r] \in {"reset"} \cup Body => stage[r] \in {"reset"} \cup Body
                 /\ \/ draft' = [draft EXCEPT ![r] = Absent]
                    \/ draft' = draft /\ stage[r] \notin {"import", "build"}
<1> USE DEF cacheVars
<1>1. CASE CosmosNext
  BY <1>1 DEF CosmosNext, ControllerNext, ClearMaster, BindAndPublishMaster, BindFails, WorkerNext,
     ReadMaster, SkipMaster, TakeLock, Acquire, PublishDriver, WorkerDies, UnchangedByWorkers, hostVars
<1>2. ASSUME NEW r \in Runs, NEW t \in Runtimes(r), RuntimeServes(r, t) \/ WizardExits(r, t)
      PROVE  UNCHANGED <<case, upstream, cache, key, stage, draft>>
  BY <1>2 DEF RuntimeServes, WizardExits, UnchangedByHost, hostVars
<1>3. ASSUME NEW r \in Runs, NEW from \in Runs, CopyRunDir(from, r)
      PROVE  UNCHANGED <<case, upstream, cache, key, stage, draft>>
  BY <1>3 DEF CopyRunDir, UnchangedByHost, hostVars
<1>4. ASSUME NEW r \in Runs, Signal(r)
      PROVE  /\ UNCHANGED <<case, upstream, cache, key>>
             /\ stage' = [stage EXCEPT ![r] = stage'[r]] /\ stage'[r] \in {"teardown", "ended"}
             /\ draft' = [draft EXCEPT ![r] = Absent]
  BY <1>4 DEF Signal, Go, LaunchInv
<1>5. ASSUME NEW r \in Runs, PublishRuntime(r) \/ TerminateWizard(r)
      PROVE  UNCHANGED <<case, upstream, cache, key, stage, draft>>
  BY <1>5 DEF PublishRuntime, TerminateWizard, UnchangedByHost, hostVars
<1>6. ASSUME NEW r \in Runs,
             \/ Validate(r) \/ BeginRun(r) \/ FinishTeardown(r) \/ Requeue(r) \/ StartAgain(r)
             \/ StartupFails(r) \/ StopWizardHost(r) \/ CosmosReturns(r)
      PROVE  /\ UNCHANGED <<case, upstream, cache, key, draft>>
             /\ stage' = [stage EXCEPT ![r] = stage'[r]]
             /\ stage'[r] \in {"ready", "rejected", "image", "teardown", "requeue", "ended"}
             /\ stage[r] \notin {"import", "build"}
  BY <1>6 DEF Validate, BeginRun, FinishTeardown, Requeue, StartAgain, NextAttempt, StartupFails,
     StopWizardHost, CosmosReturns, Go, UnchangedByHost, LaunchInv
<1>7. ASSUME NEW r \in Runs,
             \/ ResetTopology(r) \/ StartWizard(r) \/ AppendWizard(r) \/ AllRuntimesReady(r)
             \/ LaunchCosmos(r)
      PROVE  /\ UNCHANGED <<case, upstream, cache, key, draft>>
             /\ stage' = [stage EXCEPT ![r] = stage'[r]]
             /\ stage[r] \in {"reset"} \cup Body /\ stage'[r] \in Body
  BY <1>7 DEF ResetTopology, StartWizard, AppendWizard, AllRuntimesReady, LaunchCosmos, Go,
     UnchangedByHost, LaunchInv, Body
<1>8. ASSUME NEW r \in Runs, HostNext(r) \/ StartupFails(r) \/ StopWizardHost(r) \/ StartAgain(r)
      PROVE  /\ UNCHANGED <<case, upstream, cache, key, draft>>
             /\ \/ stage' = stage
                \/ /\ stage' = [stage EXCEPT ![r] = stage'[r]]
                   /\ stage[r] \notin {"import", "build"}
                   /\ \/ stage'[r] \in {"ready", "rejected", "image", "teardown", "requeue", "ended"}
                      \/ stage[r] \in {"reset"} \cup Body /\ stage'[r] \in Body
  <2>1. "import" \notin {"reset"} \cup Body /\ "build" \notin {"reset"} \cup Body
    BY DEF Body
  <2> QED
    BY <1>5, <1>6, <1>7, <1>8, <2>1 DEF HostNext
<1>9. \A x \in {"ready", "rejected", "image", "teardown", "requeue", "ended"} :
        x \notin {"checkout", "import", "build"} /\ x \notin {"reset"} \cup Body
  BY DEF Body
<1>10. \A x \in Body : x \notin {"checkout", "import", "build"}
  BY DEF Body
<1> QED
  BY <1>1, <1>2, <1>3, <1>4, <1>8, <1>9, <1>10 DEF Next

(* So the invariant of the caches survives it.                               *)
LEMMA HostKeepsCaches ==
  ASSUME LaunchInv, CacheInv, Next, ~CacheNext
  PROVE  CacheInv'
<1>1. UNCHANGED <<case, upstream, cache, key>>
  BY HostLeavesCaches
<1>2. Runs' = Runs /\ Versions' = Versions
  BY <1>1 DEF Runs, Versions
<1>3. CacheTypes' /\ \A v \in Versions : ImageKept(v)' /\ CheckoutKept(v)'
  <2>1. draft' \in [Runs -> {Absent, Partial} \cup Versions]
    BY HostLeavesCaches DEF CacheInv, CacheTypes
  <2> QED
    BY <1>1, <1>2, <2>1 DEF CacheInv, CacheTypes, ImageKept, CheckoutKept
<1>4. ASSUME NEW r \in Runs PROVE DraftOK(r)' /\ FoundOK(r)'
  <2>1. DraftOK(r) /\ FoundOK(r)
    BY DEF CacheInv
  <2>2. \/ stage'[r] = stage[r] /\ draft'[r] = draft[r]
        \/ /\ stage'[r] \notin {"checkout", "import", "build"} /\ draft'[r] = Absent
           /\ stage'[r] \in {"reset"} \cup Body => stage[r] \in {"reset"} \cup Body
    BY <2>1, HostLeavesCaches DEF LaunchInv, CacheInv, CacheTypes, DraftOK
  <2>3. DraftOK(r)'
    BY <1>1, <2>1, <2>2 DEF DraftOK
  <2>4. (PastImage(r)' => PastImage(r)) /\ (PastCheckout(r)' => PastCheckout(r))
    BY <2>2 DEF PastImage, PastCheckout
  <2>5. NeedsImage(r)' = NeedsImage(r) /\ NeedsCheckout(r)' = NeedsCheckout(r)
    BY <1>1 DEF NeedsImage, NeedsCheckout, Config, Mode
  <2>6. FoundOK(r)'
    BY <1>1, <2>1, <2>4, <2>5 DEF FoundOK
  <2> QED
    BY <2>3, <2>6
<1> QED
  BY <1>1, <1>2, <1>3, <1>4 DEF CacheInv

(* As long as no entry is lost, a run that another one shares the caches     *)
(* with still has its own.                                                   *)
LEMMA OtherRun ==
  ASSUME CacheInv, NEW r \in Runs, UNCHANGED <<case, upstream>>,
         stage'[r] = stage[r], key'[r] = key[r], draft'[r] = draft[r],
         \A a \in Artifacts, v \in Versions : cache[a][v] # Absent => cache'[a][v] # Absent
  PROVE  (\A a \in Artifacts : key'[r][a] <= upstream'[a]) /\ DraftOK(r)' /\ FoundOK(r)'
<1>1. /\ key[r]["image"] \in {Absent} \cup Versions /\ key[r]["checkout"] \in {Absent} \cup Versions
      /\ (\A a \in Artifacts : key[r][a] <= upstream[a]) /\ DraftOK(r) /\ FoundOK(r)
  BY DEF CacheInv, CacheTypes, Artifacts
<1>2. DraftOK(r)'
  BY <1>1 DEF DraftOK
<1>3. /\ PastImage(r)' = PastImage(r) /\ PastCheckout(r)' = PastCheckout(r)
      /\ NeedsImage(r)' = NeedsImage(r) /\ NeedsCheckout(r)' = NeedsCheckout(r)
  BY DEF PastImage, PastCheckout, NeedsImage, NeedsCheckout, Config, Mode
<1>4. FoundOK(r)'
  BY <1>1, <1>3 DEF FoundOK, Artifacts
<1> QED
  BY <1>1, <1>2, <1>4

(* What a cache step of run r leaves to prove.                               *)
LEMMA OneRunOfCaches ==
  ASSUME LaunchInv, CacheInv, NEW r \in Runs, UNCHANGED <<case, upstream>>, CacheTypes',
         stage' = [stage EXCEPT ![r] = stage'[r]], key' = [key EXCEPT ![r] = key'[r]],
         draft' = [draft EXCEPT ![r] = draft'[r]],
         \A a \in Artifacts, v \in Versions : cache[a][v] # Absent => cache'[a][v] # Absent,
         \A v \in Versions : ImageKept(v)' /\ CheckoutKept(v)',
         \A a \in Artifacts : key'[r][a] <= upstream[a], DraftOK(r)', FoundOK(r)'
  PROVE  CacheInv'
<1>1. ASSUME NEW q \in Runs, q # r
      PROVE  (\A a \in Artifacts : key'[q][a] <= upstream'[a]) /\ DraftOK(q)' /\ FoundOK(q)'
  <2>1. stage'[q] = stage[q] /\ key'[q] = key[q] /\ draft'[q] = draft[q]
    BY <1>1 DEF LaunchInv, CacheInv, CacheTypes
  <2> QED
    BY <2>1, OtherRun
<1>2. Runs' = Runs /\ Versions' = Versions
  BY DEF Runs, Versions
<1> QED
  BY <1>1, <1>2 DEF CacheInv

(* A push moves a tag or a ref, forward.                                     *)
LEMMA UpstreamMoves ==
  ASSUME LaunchInv, CacheInv, NEW a \in Artifacts, MoveUpstream(a)
  PROVE  CacheInv'
<1>1. /\ UNCHANGED <<case, cache, key, draft, stage>> /\ upstream[a] < case.versions
      /\ upstream' = [upstream EXCEPT ![a] = @ + 1]
  BY DEF MoveUpstream, UnchangedElsewhere
<1>2. upstream' \in [Artifacts -> Versions] /\ \A b \in Artifacts : upstream[b] <= upstream'[b]
  <2>1. \A b \in Artifacts : upstream[b] \in Versions
    BY DEF CacheInv, CacheTypes
  <2>2. upstream[a] + 1 \in Versions
    BY <1>1, <2>1, VersionFacts DEF Versions
  <2> QED
    BY <1>1, <2>1, <2>2, VersionFacts DEF CacheInv, CacheTypes
<1>3. Runs' = Runs /\ Versions' = Versions
  BY <1>1 DEF Runs, Versions
<1>4. CacheTypes'
  BY <1>1, <1>2, <1>3 DEF CacheInv, CacheTypes
<1>5. \A v \in Versions : ImageKept(v)' /\ CheckoutKept(v)'
  BY <1>1 DEF CacheInv, ImageKept, CheckoutKept
<1>6. ASSUME NEW r \in Runs
      PROVE  (\A b \in Artifacts : key'[r][b] <= upstream'[b]) /\ DraftOK(r)' /\ FoundOK(r)'
  <2>1. ASSUME NEW b \in Artifacts PROVE key'[r][b] <= upstream'[b]
    <3>1. /\ key[r][b] \in {Absent} \cup Versions /\ upstream[b] \in Versions
          /\ upstream'[b] \in Versions /\ key[r][b] <= upstream[b] /\ upstream[b] <= upstream'[b]
      BY <1>2 DEF CacheInv, CacheTypes
    <3> QED
      BY <1>1, <3>1, VersionFacts
  <2>2. DraftOK(r)'
    BY <1>1 DEF CacheInv, DraftOK
  <2>3. FoundOK(r)'
    BY <1>1 DEF CacheInv, FoundOK, PastImage, PastCheckout, NeedsImage, NeedsCheckout, Config, Mode
  <2> QED
    BY <2>1, <2>2, <2>3
<1> QED
  BY <1>3, <1>4, <1>5, <1>6 DEF CacheInv

(* A lookup resolves the key; a hit is an entry.                             *)
LEMMA LookupOK ==
  ASSUME LaunchInv, CacheInv, NEW r \in Runs, NEW a \in Artifacts, UseLocal(r, a) \/ Lookup(r, a)
  PROVE  CacheInv'
<1>0. /\ UNCHANGED <<case, upstream, cache, draft>> /\ stage[r] = a /\ draft[r] = Absent
      /\ stage' = [stage EXCEPT ![r] = stage'[r]] /\ draft' = [draft EXCEPT ![r] = draft'[r]]
      /\ a \in {"image", "checkout"}
  <2>1. /\ UNCHANGED <<case, upstream, cache, draft>> /\ stage[r] = a
        /\ stage' = [stage EXCEPT ![r] = stage'[r]]
    BY DEF UseLocal, Lookup, UnchangedElsewhere, cacheVars, LaunchInv
  <2>2. draft[r] = Absent
    BY <2>1 DEF CacheInv, DraftOK, Artifacts
  <2> QED
    BY <2>1, <2>2 DEF CacheInv, CacheTypes, Artifacts
<1>1. upstream[a] \in Versions /\ Resolved(a) = upstream[a]
  BY DEF CacheInv, CacheTypes, Resolved, Digest, CommitSha, Artifacts
<1>2. key[r] \in [Artifacts -> {Absent} \cup Versions] /\ FoundOK(r)
      /\ \A b \in Artifacts : key[r][b] <= upstream[b]
  BY DEF CacheInv, CacheTypes
<1>3. \/ key' = key /\ UseLocal(r, a)
      \/ key' = [key EXCEPT ![r][a] = upstream[a]] /\ Lookup(r, a)
  BY <1>1 DEF UseLocal, Lookup, cacheVars
<1>4. /\ key' \in [Runs -> [Artifacts -> {Absent} \cup Versions]]
      /\ key' = [key EXCEPT ![r] = key'[r]]
      /\ \A b \in Artifacts : key'[r][b] <= upstream[b]
  <2>1. CASE key' = key
    BY <1>2, <2>1 DEF CacheInv, CacheTypes
  <2>2. CASE key' = [key EXCEPT ![r][a] = upstream[a]]
    <3>1. /\ key'[r][a] = upstream[a] /\ \A b \in Artifacts : b # a => key'[r][b] = key[r][b]
          /\ key' \in [Runs -> [Artifacts -> {Absent} \cup Versions]]
          /\ key' = [key EXCEPT ![r] = key'[r]]
      BY <1>1, <2>2 DEF CacheInv, CacheTypes
    <3>2. upstream[a] <= upstream[a]
      BY <1>1, VersionFacts
    <3> QED
      BY <1>2, <3>1, <3>2
  <2> QED
    BY <1>3, <2>1, <2>2
<1>5. Runs' = Runs /\ Versions' = Versions
  BY <1>0 DEF Runs, Versions
<1>6. CacheTypes'
  BY <1>0, <1>4, <1>5 DEF CacheInv, CacheTypes
<1>7. \A v \in Versions : ImageKept(v)' /\ CheckoutKept(v)'
  BY <1>0 DEF CacheInv, ImageKept, CheckoutKept
<1>8. CASE UseLocal(r, a)
  <2>1. /\ stage'[r] = After(a) /\ key' = key
        /\ a = "image" => ~NeedsImage(r)
        /\ a = "checkout" => ~NeedsCheckout(r)
    BY <1>8 DEF UseLocal, cacheVars, LaunchInv
  <2>2. DraftOK(r)'
    BY <1>0, <2>1 DEF DraftOK, After
  <2>3. FoundOK(r)'
    BY <1>0, <1>2, <2>1 DEF FoundOK, After, PastImage, PastCheckout, NeedsImage, NeedsCheckout, Config,
       Mode, Body
  <2> QED
    BY <1>0, <1>4, <1>6, <1>7, <2>2, <2>3, OneRunOfCaches
<1>9. CASE Lookup(r, a)
  <2>1. /\ stage'[r] = IF cache[a][upstream[a]] # Absent THEN After(a) ELSE Build(a)
        /\ key'[r][a] = upstream[a] /\ \A b \in Artifacts : b # a => key'[r][b] = key[r][b]
    BY <1>1, <1>9 DEF Lookup, LaunchInv, CacheInv, CacheTypes
  <2>2. upstream[a] # Absent
    BY <1>1, VersionFacts
  <2>3. DraftOK(r)'
    BY <1>0, <2>1, <2>2 DEF DraftOK, After, Build
  <2>4. NeedsImage(r)' = NeedsImage(r) /\ NeedsCheckout(r)' = NeedsCheckout(r)
    BY <1>0 DEF NeedsImage, NeedsCheckout, Config, Mode
  <2>5. CASE a = "image"
    <3>1. ~PastCheckout(r)' /\ (PastImage(r)' => cache["image"][key'[r]["image"]] # Absent)
      BY <2>1, <2>5 DEF After, Build, PastCheckout, PastImage, Body
    <3> QED
      BY <1>0, <1>4, <1>6, <1>7, <2>1, <2>2, <2>3, <2>5, <3>1, OneRunOfCaches DEF FoundOK
  <2>6. CASE a = "checkout"
    <3>1. /\ PastImage(r)
          /\ PastCheckout(r)' => cache["checkout"][key'[r]["checkout"]] # Absent
      BY <1>0, <2>1, <2>6 DEF After, Build, PastCheckout, PastImage, Body
    <3>2. key'[r]["image"] = key[r]["image"]
      BY <2>1, <2>6 DEF Artifacts
    <3>3. FoundOK(r)'
      BY <1>0, <1>2, <2>1, <2>2, <2>4, <2>6, <3>1, <3>2 DEF FoundOK
    <3> QED
      BY <1>0, <1>4, <1>6, <1>7, <2>3, <3>3, OneRunOfCaches
  <2> QED
    BY <1>0, <2>5, <2>6
<1> QED
  BY <1>8, <1>9

(* What is fetched is right for the key it was fetched for.                  *)
LEMMA FetchOK ==
  ASSUME LaunchInv, CacheInv, NEW r \in Runs, BeginFetch(r) \/ FinishFetch(r) \/ FetchFails(r)
  PROVE  CacheInv'
<1>0. DraftOK(r) /\ FoundOK(r) /\ \A a \in Artifacts : key[r][a] <= upstream[a]
  BY DEF CacheInv
<1>1. /\ UNCHANGED <<case, upstream, cache, key>> /\ stage[r] \in {"import", "build"}
      /\ \/ stage' = stage /\ draft' = [draft EXCEPT ![r] = Partial]
         \/ stage' = stage /\ draft' = [draft EXCEPT ![r] = Fetched(r)]
         \/ stage' = [stage EXCEPT ![r] = "ended"] /\ draft' = [draft EXCEPT ![r] = Absent]
  BY DEF BeginFetch, FinishFetch, FetchFails, Abort, UnchangedElsewhere
<1>2. Fetched(r) \in Versions /\ (stage[r] = "import" => Fetched(r) >= key[r]["image"])
      /\ (stage[r] = "build" => Fetched(r) = key[r]["checkout"])
  <2>1. /\ key[r]["image"] \in {Absent} \cup Versions /\ key[r]["checkout"] \in {Absent} \cup Versions
        /\ upstream["image"] \in Versions /\ key[r]["image"] <= upstream["image"]
    BY <1>0 DEF CacheInv, CacheTypes, Artifacts
  <2>2. CASE stage[r] = "import"
    BY <2>1, <2>2, VersionFacts DEF Fetched
  <2>3. CASE stage[r] = "build"
    BY <1>0, <2>1, <2>3 DEF Fetched, DraftOK
  <2> QED
    BY <1>1, <2>2, <2>3
<1>3. Runs' = Runs /\ Versions' = Versions
  BY <1>1 DEF Runs, Versions
<1>4. draft' \in [Runs -> {Absent, Partial} \cup Versions] /\ draft' = [draft EXCEPT ![r] = draft'[r]]
  BY <1>1, <1>2 DEF CacheInv, CacheTypes
<1>5. CacheTypes'
  BY <1>1, <1>3, <1>4 DEF CacheInv, CacheTypes
<1>6. \A v \in Versions : ImageKept(v)' /\ CheckoutKept(v)'
  BY <1>1 DEF CacheInv, ImageKept, CheckoutKept
<1>7. /\ stage' = [stage EXCEPT ![r] = stage'[r]] /\ key' = [key EXCEPT ![r] = key'[r]]
      /\ \/ stage'[r] = stage[r] /\ draft'[r] \in {Partial, Fetched(r)}
         \/ stage'[r] = "ended" /\ draft'[r] = Absent
  BY <1>1 DEF LaunchInv, CacheInv, CacheTypes
<1>8. DraftOK(r)'
  BY <1>0, <1>1, <1>2, <1>7 DEF DraftOK
<1>9. FoundOK(r)'
  <2>1. /\ PastImage(r)' => PastImage(r)
        /\ PastCheckout(r)' => PastCheckout(r)
        /\ NeedsImage(r)' = NeedsImage(r) /\ NeedsCheckout(r)' = NeedsCheckout(r)
    BY <1>1, <1>7 DEF PastImage, PastCheckout, Body, NeedsImage, NeedsCheckout, Config, Mode
  <2> QED
    BY <1>0, <1>1, <2>1 DEF FoundOK
<1> QED
  BY <1>0, <1>1, <1>4, <1>5, <1>6, <1>7, <1>8, <1>9, OneRunOfCaches

(* An import ends in an entry no older than the digest that names it, and a  *)
(* build in the commit that names it; no entry is lost.                      *)
LEMMA PublishImageOK ==
  ASSUME LaunchInv, CacheInv, NEW r \in Runs, PublishImage(r)
  PROVE  CacheInv'
<1> DEFINE k == key[r]["image"]
<1>0. /\ UNCHANGED <<case, upstream, key>> /\ stage[r] = "import"
      /\ stage' = [stage EXCEPT ![r] = "checkout"] /\ draft' = [draft EXCEPT ![r] = Absent]
      /\ draft[r] \notin {Absent, Partial} /\ cache' = [cache EXCEPT !["image"][k] = draft[r]]
  BY DEF PublishImage, Publish, UnchangedElsewhere, After, Build
<1>1. /\ k \in Versions /\ draft[r] \in Versions /\ draft[r] >= k
      /\ FoundOK(r) /\ \A a \in Artifacts : key[r][a] <= upstream[a]
  BY <1>0 DEF CacheInv, CacheTypes, DraftOK, Artifacts
<1>2. /\ stage' = [stage EXCEPT ![r] = stage'[r]] /\ key' = [key EXCEPT ![r] = key'[r]]
      /\ draft' = [draft EXCEPT ![r] = draft'[r]] /\ stage'[r] = "checkout" /\ draft'[r] = Absent
      /\ key'[r] = key[r] /\ draft' \in [Runs -> {Absent, Partial} \cup Versions]
  BY <1>0 DEF LaunchInv, CacheInv, CacheTypes
<1>3. /\ cache' \in [Artifacts -> [Versions -> {Absent} \cup Versions]]
      /\ cache'["checkout"] = cache["checkout"] /\ cache'["image"][k] = draft[r]
      /\ \A v \in Versions : v # k => cache'["image"][v] = cache["image"][v]
  BY <1>0, <1>1 DEF CacheInv, CacheTypes, Artifacts
<1>4. Runs' = Runs /\ Versions' = Versions
  BY <1>0 DEF Runs, Versions
<1>5. CacheTypes'
  BY <1>0, <1>2, <1>3, <1>4 DEF CacheInv, CacheTypes
<1>6. \A a \in Artifacts, v \in Versions : cache[a][v] # Absent => cache'[a][v] # Absent
  BY <1>0, <1>3 DEF Artifacts
<1>7. \A v \in Versions : ImageKept(v)' /\ CheckoutKept(v)'
  BY <1>1, <1>3 DEF CacheInv, ImageKept, CheckoutKept
<1>8. DraftOK(r)'
  BY <1>2 DEF DraftOK
<1>9. FoundOK(r)'
  <2>1. k # Absent /\ cache'["image"][k] # Absent
    BY <1>0, <1>1, <1>3, VersionFacts
  <2>2. ~PastCheckout(r)'
    BY <1>2 DEF PastCheckout, Body
  <2> QED
    BY <1>2, <2>1, <2>2 DEF FoundOK
<1> HIDE DEF k
<1> QED
  BY <1>0, <1>1, <1>2, <1>5, <1>6, <1>7, <1>8, <1>9, OneRunOfCaches

(* os.replace onto a directory that is there refuses: the entry stays.       *)
LEMMA PublishCheckoutOK ==
  ASSUME LaunchInv, CacheInv, NEW r \in Runs, PublishCheckout(r)
  PROVE  CacheInv'
<1> DEFINE k == key[r]["checkout"]
<1>0. /\ UNCHANGED <<case, upstream, key>> /\ stage[r] = "build"
      /\ stage' = [stage EXCEPT ![r] = "reset"] /\ draft' = [draft EXCEPT ![r] = Absent]
      /\ draft[r] \notin {Absent, Partial}
      /\ cache' = IF cache["checkout"][k] # Absent THEN cache
                  ELSE [cache EXCEPT !["checkout"][k] = draft[r]]
  BY DEF PublishCheckout, Publish, UnchangedElsewhere, After, Build
<1>1. /\ k \in Versions /\ draft[r] \in Versions /\ draft[r] = k
      /\ FoundOK(r) /\ \A a \in Artifacts : key[r][a] <= upstream[a]
  BY <1>0 DEF CacheInv, CacheTypes, DraftOK, Artifacts
<1>2. /\ stage' = [stage EXCEPT ![r] = stage'[r]] /\ key' = [key EXCEPT ![r] = key'[r]]
      /\ draft' = [draft EXCEPT ![r] = draft'[r]] /\ stage'[r] = "reset" /\ draft'[r] = Absent
      /\ key'[r] = key[r] /\ draft' \in [Runs -> {Absent, Partial} \cup Versions]
  BY <1>0 DEF LaunchInv, CacheInv, CacheTypes
<1>3. /\ cache' \in [Artifacts -> [Versions -> {Absent} \cup Versions]]
      /\ cache'["image"] = cache["image"] /\ cache'["checkout"][k] = k
      /\ \A v \in Versions : v # k => cache'["checkout"][v] = cache["checkout"][v]
  <2>1. CASE cache["checkout"][k] # Absent
    BY <1>0, <1>1, <2>1 DEF CacheInv, CacheTypes, Artifacts, CheckoutKept
  <2>2. CASE cache["checkout"][k] = Absent
    BY <1>0, <1>1, <2>2 DEF CacheInv, CacheTypes, Artifacts
  <2> QED
    BY <2>1, <2>2
<1>4. Runs' = Runs /\ Versions' = Versions
  BY <1>0 DEF Runs, Versions
<1>5. CacheTypes'
  BY <1>0, <1>2, <1>3, <1>4 DEF CacheInv, CacheTypes
<1>6. k # Absent
  BY <1>1, VersionFacts
<1>7. \A a \in Artifacts, v \in Versions : cache[a][v] # Absent => cache'[a][v] # Absent
  BY <1>3, <1>6 DEF Artifacts
<1>8. \A v \in Versions : ImageKept(v)' /\ CheckoutKept(v)'
  BY <1>3 DEF CacheInv, ImageKept, CheckoutKept
<1>9. DraftOK(r)'
  BY <1>2 DEF DraftOK
<1>10. FoundOK(r)'
  <2>1. PastImage(r) /\ NeedsImage(r)' = NeedsImage(r)
    BY <1>0 DEF PastImage, NeedsImage, Config
  <2>2. NeedsImage(r) => key[r]["image"] # Absent /\ cache'["image"][key[r]["image"]] # Absent
    BY <1>1, <1>3, <2>1 DEF FoundOK
  <2> QED
    BY <1>2, <1>3, <1>6, <2>1, <2>2 DEF FoundOK
<1> HIDE DEF k
<1> QED
  BY <1>0, <1>1, <1>2, <1>5, <1>7, <1>8, <1>9, <1>10, OneRunOfCaches

(* The invariant of the two caches, whatever the runs that share them, the   *)
(* pushes upstream and the failures.                                         *)
THEOREM CachesInvariant == Spec => []CacheInv
<1>1. Init /\ LaunchInv => CacheInv
  BY CacheInit
<1>2. CacheInv /\ LaunchInv /\ [Next]_vars => CacheInv'
  <2> SUFFICES ASSUME CacheInv, LaunchInv, [Next]_vars PROVE CacheInv'
    OBVIOUS
  <2>1. CASE Next /\ ~CacheNext
    BY <2>1, HostKeepsCaches
  <2>2. CASE CacheNext
    BY <2>2, UpstreamMoves, LookupOK, FetchOK, PublishImageOK, PublishCheckoutOK DEF CacheNext
  <2>3. CASE UNCHANGED vars
    BY <2>3 DEF vars, cacheVars, hostVars, procVars, CacheInv, CacheTypes, ImageKept, CheckoutKept, DraftOK,
       FoundOK, PastImage, PastCheckout, NeedsImage, NeedsCheckout, Config, Mode, Runs, Versions
  <2> QED
    BY <2>1, <2>2, <2>3
<1>3. Spec => []LaunchInv
  BY LaunchInvariant
<1> QED
  BY <1>1, <1>2, <1>3, PTL DEF Spec

(* A run that is past a cache has a complete artifact there: the commit it   *)
(* asked for, an image no older than the digest it resolved, however many    *)
(* runs miss the same entry at once and however often the upstream moves.    *)
THEOREM ArtifactsStaySound == Spec => []ArtifactsAreSound
<1>1. CacheInv => ArtifactsAreSound
  <2> SUFFICES ASSUME CacheInv, NEW r \in Runs
               PROVE  /\ PastImage(r) /\ NeedsImage(r)
                           => cache["image"][key[r]["image"]] >= key[r]["image"]
                      /\ PastCheckout(r) /\ NeedsCheckout(r)
                           => cache["checkout"][key[r]["checkout"]] = key[r]["checkout"]
    BY DEF ArtifactsAreSound
  <2>1. /\ FoundOK(r)
        /\ key[r]["image"] \in {Absent} \cup Versions /\ key[r]["checkout"] \in {Absent} \cup Versions
    BY DEF CacheInv, CacheTypes, Artifacts
  <2>2. \A v \in Versions : ImageKept(v) /\ CheckoutKept(v)
    BY DEF CacheInv
  <2> QED
    BY <2>1, <2>2 DEF FoundOK, ImageKept, CheckoutKept
<1> QED
  BY <1>1, CachesInvariant, PTL

-----------------------------------------------------------------------------
(* The registry                                                              *)

(* Hosts that run a Wizard.                                                  *)
Hosts(r) == Cardinality(AlpasimHosts(Plan(Config(r))))

(* The host process: Wizards run on hosts of the plan and are counted in     *)
(* their order; a run that is requeued has an attempt left.                  *)
HostTypes(r) ==
  /\ attempt[r] \in 1 .. case.attempts /\ requeue[r] \in BOOLEAN
  /\ launched[r] \in 0 .. Hosts(r)
  /\ wizards[r] \subseteq Runtimes(r) /\ serving[r] \subseteq wizards[r]
  /\ stage[r] = "popened" => launched[r] < Hosts(r)
  /\ requeue[r] => attempt[r] < case.attempts
  /\ stage[r] = "requeue" => requeue[r]

(* The Cosmos processes: the flock is held by the worker that is inside, and *)
(* by nobody once they are gone.                                             *)
Controllers == {"absent", "started", "cleared", "up", "dead"}
WorkerTypes(r) ==
  /\ controller[r] \in Controllers /\ worker[r] \in [Replicas(r) -> WorkerStates]
  /\ seen[r] \in [Runtimes(r) -> Nat] /\ runtime[r] \in [Replicas(r) -> {0} \cup Runtimes(r)]
  /\ capacity[r] \in [Replicas(r) -> 0 .. case.capacity] /\ pidBase[r] \in 0 .. 1
  /\ lock[r] \in {Nobody} \cup Replicas(r) /\ (lock[r] # Nobody => stage[r] = "cosmos")
  /\ \A w \in Replicas(r) : worker[r][w] = "locked" <=> lock[r] = w

(* The registry: a run whose workers are launched finds its runtimes in it.  *)
Prepared(r) == \/ stage[r] \in {"launch", "cosmos"}
               \/ Mode(r) = "cosmos" /\ stage[r] \notin {"new", "rejected", "ready"}
FileTypes(r) ==
  /\ runtimes[r] \in [Runtimes(r) -> 0 .. case.attempts]
  /\ assigned[r] \in [DriverIds(r) -> {0} \cup Runtimes(r)]
  /\ drivers[r] \subseteq DriverIds(r) /\ master[r] \in 0 .. case.attempts
  /\ Prepared(r) => \A t \in Runtimes(r) : runtimes[r][t] # Absent

RegistryTypes(r) == HostTypes(r) /\ WorkerTypes(r) /\ FileTypes(r)
Domains ==
  /\ DOMAIN attempt = Runs /\ DOMAIN requeue = Runs /\ DOMAIN serving = Runs
  /\ DOMAIN controller = Runs /\ DOMAIN worker = Runs /\ DOMAIN seen = Runs
  /\ DOMAIN runtime = Runs /\ DOMAIN capacity = Runs /\ DOMAIN pidBase = Runs
  /\ DOMAIN runtimes = Runs /\ DOMAIN assigned = Runs /\ DOMAIN drivers = Runs
  /\ DOMAIN lock = Runs /\ DOMAIN master = Runs
RegistryInv == Domains /\ \A r \in Runs : RegistryTypes(r)

(* A plan has finitely many hosts, and a valid config one that runs AlpaSim. *)
LEMMA HostsOfPlan ==
  ASSUME NEW c \in Configs
  PROVE  /\ IsFiniteSet(AlpasimHosts(Plan(c)))
         /\ Loads(c) /\ ValidRunConfig(c) => AlpasimHosts(Plan(c)) # {}
<1>1. /\ c.backend \in {"local_process", "slurm"} /\ c.layout \in {"all_in_one", "separate_nodes"}
      /\ c.nodes \in Int
  BY DEF Configs
<1>2. CASE c.backend = "local_process"
  <2>1. AlpasimHosts(Plan(c)) = {1}
    BY <1>2 DEF Plan, LocalPlan, AlpasimHosts
  <2> QED
    BY <2>1, FS_Singleton
<1>3. CASE c.backend = "slurm"
  <2>1. ASSUME Loads(c), ValidRunConfig(c) PROVE AlpasimHosts(Plan(c)) # {}
    <3>1. PlacementWorks(c)
      BY <1>3, <2>1, PlacementHolds DEF ValidRunConfig
    <3> QED
      BY <1>3, <3>1 DEF PlacementWorks
  <2>2. IsFiniteSet(1 .. c.nodes) /\ IsFiniteSet({1})
    <3>1. IsFiniteSet({1})
      BY FS_Singleton
    <3>2. IsFiniteSet(1 .. c.nodes)
      BY <1>1, FS_Interval
    <3> QED
      BY <3>1, <3>2
  <2>3. DOMAIN Plan(c) = {1} \/ DOMAIN Plan(c) = 1 .. c.nodes
    BY <1>1, <1>3 DEF Plan, AllInOnePlan, SeparateNodesPlan
  <2>4. IsFiniteSet(DOMAIN Plan(c)) /\ AlpasimHosts(Plan(c)) \in SUBSET DOMAIN Plan(c)
    BY <2>2, <2>3 DEF AlpasimHosts
  <2> QED
    BY <2>1, <2>4, FS_Subset
<1> QED
  BY <1>1, <1>2, <1>3

(* The numbers of a run.                                                     *)
LEMMA RunFacts ==
  ASSUME LaunchInv, NEW r \in Runs
  PROVE  /\ Config(r) \in Configs /\ Config(r).rolloutReplicas \in Int
         /\ Mode(r) \in {"whole", "wizard", "cosmos"}
         /\ case.attempts \in Nat \ {0} /\ case.capacity \in Nat \ {0}
         /\ Hosts(r) \in Nat /\ Runtimes(r) = 1 .. Hosts(r) /\ Cardinality(Runtimes(r)) = Hosts(r)
         /\ stage[r] \notin {"new", "rejected"} => Hosts(r) > 0
         /\ Nobody \notin Replicas(r)
<1>1. /\ Config(r) \in Configs /\ Mode(r) \in {"whole", "wizard", "cosmos"}
      /\ case.attempts \in Nat \ {0} /\ case.capacity \in Nat \ {0}
  BY CasesAreRuns DEF LaunchInv, Runs, Config, Mode
<1>2. Config(r).rolloutReplicas \in Int
  BY <1>1 DEF Configs
<1>3. IsFiniteSet(AlpasimHosts(Plan(Config(r)))) /\ Hosts(r) \in Nat
  BY <1>1, HostsOfPlan, FS_CardinalityType DEF Hosts
<1>4. Runtimes(r) = 1 .. Hosts(r)
  BY DEF Runtimes, Hosts
<1>5. Cardinality(Runtimes(r)) = Hosts(r)
  BY <1>3, <1>4, FS_Interval
<1>6. ASSUME stage[r] \notin {"new", "rejected"} PROVE Hosts(r) > 0
  <2>1. AlpasimHosts(Plan(Config(r))) # {}
    BY <1>1, <1>6, HostsOfPlan DEF LaunchInv, ConfigOK
  <2>2. Hosts(r) # 0
    BY <1>3, <2>1, FS_EmptySet DEF Hosts
  <2> QED
    BY <1>3, <2>2
<1>7. Nobody \notin Replicas(r)
  BY <1>2 DEF Nobody, Replicas
<1> QED
  BY <1>1, <1>2, <1>3, <1>4, <1>5, <1>6, <1>7

(* A driver id is one of those a run can have.                               *)
LEMMA DriverIdFacts ==
  ASSUME LaunchInv, NEW r \in Runs, NEW w \in Replicas(r), WorkerTypes(r)
  PROVE  DriverId(r, w) \in DriverIds(r)
<1> DEFINE n == Config(r).rolloutReplicas
<1>1. n \in Int /\ w \in 1 .. n /\ pidBase[r] \in {0, 1}
  BY RunFacts DEF Replicas, WorkerTypes
<1>2. CASE pidBase[r] = 0
  <2>1. pidBase[r] * n = 0
    BY <1>1, <1>2
  <2> QED
    BY <1>1, <2>1 DEF DriverId, DriverIds
<1>3. CASE pidBase[r] = 1
  <2>1. pidBase[r] * n = n
    BY <1>1, <1>3
  <2> QED
    BY <1>1, <2>1 DEF DriverId, DriverIds
<1> QED
  BY <1>1, <1>2, <1>3

(* rollout_worker_capacity is no more than what the runtime reports.         *)
LEMMA CapacityIsBounded ==
  ASSUME NEW total \in Nat \ {0}, NEW replicas \in Int, NEW count \in Nat \ {0}
  PROVE  WorkerCapacity(total, replicas, count) \in 0 .. total
<1> DEFINE share == replicas \div count
           each == IF share > 1 THEN share ELSE 1
           x == total + each - 1
           q == x \div each
<1>1. each \in Nat \ {0}
  <2>1. share \in Int
    OBVIOUS
  <2> QED
    BY <2>1
<1> HIDE DEF share, each
<1>2. x \in Nat
  BY <1>1
<1>3. q \in Int /\ x % each \in 0 .. each - 1 /\ x = each * q + (x % each)
  BY <1>1, <1>2
<1>4. q >= 0
  BY <1>1, <1>2
<1>5. q <= total
  <2> SUFFICES ASSUME q >= total + 1 PROVE FALSE
    BY <1>3
  <2> HIDE DEF q
  <2>1. each * q >= each * (total + 1)
    BY <1>1, <1>3
  <2>2. each * (total + 1) = each * total + each
    BY <1>1
  <2>3. each * total >= total
    BY <1>1
  <2>4. each * q \in Int /\ each * total \in Int /\ each * (total + 1) \in Int
    BY <1>1, <1>3
  <2>5. x >= each * q
    BY <1>1, <1>3, <2>4
  <2> QED
    BY <1>1, <2>1, <2>2, <2>3, <2>4, <2>5
<1> QED
  BY <1>3, <1>4, <1>5 DEF WorkerCapacity, share, each

(* The runtime that is given is one of those that are published, and none of *)
(* them was seen with fewer drivers.                                         *)
LEMMA LeastUsedIsPublished ==
  ASSUME LaunchInv, NEW r \in Runs, WorkerTypes(r), \E t \in Runtimes(r) : runtimes[r][t] # Absent
  PROVE  /\ LeastUsed(r) \in Runtimes(r)
         /\ \A u \in Runtimes(r) : runtimes[r][u] # Absent => seen[r][LeastUsed(r)] <= seen[r][u]
<1> DEFINE P == {t \in Runtimes(r) : runtimes[r][t] # Absent}
           Loads1 == {seen[r][t] : t \in P}
<1>1. P # {} /\ P \subseteq Nat /\ P \subseteq Runtimes(r) /\ \A t \in P : seen[r][t] \in Nat
  BY RunFacts DEF WorkerTypes
<1>2. PICK n \in Loads1 : \A m \in Loads1 : n <= m
  <2>1. Loads1 # {} /\ Loads1 \subseteq Nat
    BY <1>1
  <2> QED
    BY <2>1, LeastNumber
<1> DEFINE Q == {t \in P : seen[r][t] = n}
<1>3. PICK t \in Q : \A u \in Q : t <= u
  <2>1. Q # {} /\ Q \subseteq Nat
    BY <1>1, <1>2
  <2> QED
    BY <2>1, LeastNumber
<1>4. t \in P /\ \A u \in P : seen[r][t] < seen[r][u] \/ (seen[r][t] = seen[r][u] /\ t <= u)
  <2>1. t \in P /\ seen[r][t] = n /\ n \in Nat
    BY <1>1, <1>3
  <2>2. ASSUME NEW u \in P PROVE seen[r][t] < seen[r][u] \/ (seen[r][t] = seen[r][u] /\ t <= u)
    <3>1. n <= seen[r][u] /\ seen[r][u] \in Nat
      BY <1>1, <1>2
    <3>2. seen[r][u] = n => t <= u
      BY <1>3
    <3> QED
      BY <2>1, <3>1, <3>2
  <2> QED
    BY <2>1, <2>2
<1>5. /\ LeastUsed(r) \in P
      /\ \A u \in P : \/ seen[r][LeastUsed(r)] < seen[r][u]
                      \/ seen[r][LeastUsed(r)] = seen[r][u] /\ LeastUsed(r) <= u
  BY <1>4 DEF LeastUsed
<1>6. \A u \in P : seen[r][LeastUsed(r)] <= seen[r][u]
  BY <1>1, <1>5
<1> QED
  BY <1>5, <1>6

(* Nothing runs and the registry is empty.                                   *)
LEMMA RegistryInit == Init /\ LaunchInv => RegistryInv
<1> SUFFICES ASSUME Init, LaunchInv PROVE RegistryInv
  OBVIOUS
<1>1. Domains
  BY DEF Init, Domains
<1>2. ASSUME NEW r \in Runs PROVE RegistryTypes(r)
  <2>1. /\ case.attempts \in Nat \ {0} /\ case.capacity \in Nat \ {0} /\ Hosts(r) \in Nat
        /\ Nobody \notin Replicas(r) /\ Nobody = 0
    BY RunFacts DEF Nobody
  <2>2. HostTypes(r)
    BY <2>1 DEF Init, HostTypes
  <2>3. WorkerTypes(r)
    BY <2>1 DEF Init, WorkerTypes, Controllers, WorkerStates
  <2>4. FileTypes(r)
    BY <2>1 DEF Init, FileTypes, Prepared, Absent
  <2> QED
    BY <2>2, <2>3, <2>4 DEF RegistryTypes
<1> QED
  BY <1>1, <1>2 DEF RegistryInv

(* A step of run r, and what it leaves to prove.                             *)
Same(q) ==
  /\ stage'[q] = stage[q] /\ attempt'[q] = attempt[q] /\ requeue'[q] = requeue[q]
  /\ launched'[q] = launched[q] /\ wizards'[q] = wizards[q] /\ serving'[q] = serving[q]
  /\ controller'[q] = controller[q] /\ worker'[q] = worker[q] /\ seen'[q] = seen[q]
  /\ runtime'[q] = runtime[q] /\ capacity'[q] = capacity[q] /\ pidBase'[q] = pidBase[q]
  /\ runtimes'[q] = runtimes[q] /\ assigned'[q] = assigned[q] /\ drivers'[q] = drivers[q]
  /\ lock'[q] = lock[q] /\ master'[q] = master[q]
StepOf(r) == case' = case /\ Domains' /\ \A q \in Runs : q # r => Same(q)

(* What a run is made of is fixed by its case.                               *)
LEMMA CaseIsSame ==
  ASSUME case' = case
  PROVE  /\ Runs' = Runs
         /\ \A r : /\ Hosts(r)' = Hosts(r) /\ Runtimes(r)' = Runtimes(r) /\ Replicas(r)' = Replicas(r)
                   /\ DriverIds(r)' = DriverIds(r) /\ Mode(r)' = Mode(r) /\ Config(r)' = Config(r)
  BY DEF Runs, Hosts, Runtimes, Replicas, DriverIds, Mode, Config

(* A run whose variables stay as they are.                                   *)
LEMMA SameTypes ==
  ASSUME case' = case, NEW q, Same(q), RegistryTypes(q)
  PROVE  RegistryTypes(q)'
<1> USE CaseIsSame DEF Same, RegistryTypes
<1>1. HostTypes(q)'
  BY DEF HostTypes
<1>2. WorkerTypes(q)'
  BY DEF WorkerTypes
<1>3. FileTypes(q)'
  BY DEF FileTypes, Prepared
<1> QED
  BY <1>1, <1>2, <1>3

(* A step is one of a single run.                                            *)
LEMMA OneRunOfRegistry ==
  ASSUME RegistryInv, NEW r, StepOf(r), r \in Runs => RegistryTypes(r)'
  PROVE  RegistryInv'
<1>1. \A q \in Runs : RegistryTypes(q)'
  BY SameTypes DEF StepOf, RegistryInv
<1> QED
  BY <1>1, CaseIsSame DEF StepOf, RegistryInv

RegistryStutters == <<attempt, requeue, launched, procVars, cosmosVars, registryVars>>

(* A step that only moves the host process on.                               *)
LEMMA StageMoves ==
  ASSUME LaunchInv, RegistryInv, NEW r \in Runs, UNCHANGED <<case, RegistryStutters>>,
         NEW to, Go(r, to), to # "popened", stage[r] # "cosmos", to = "requeue" => requeue[r],
         (to \in {"launch", "cosmos"} \/ (Mode(r) = "cosmos" /\ to \notin {"new", "rejected", "ready"}))
           => Prepared(r) \/ \A t \in Runtimes(r) : runtimes[r][t] # Absent
  PROVE  RegistryInv'
<1>1. stage'[r] = to /\ \A q \in Runs : q # r => stage'[q] = stage[q]
  BY DEF Go, LaunchInv
<1>2. StepOf(r)
  BY <1>1, CaseIsSame DEF StepOf, Same, RegistryStutters, procVars, cosmosVars, registryVars, RegistryInv, Domains
<1>3. RegistryTypes(r)
  BY DEF RegistryInv
<1> USE CaseIsSame DEF RegistryTypes, RegistryStutters, procVars, cosmosVars, registryVars
<1>4. HostTypes(r)'
  BY <1>1, <1>3 DEF HostTypes
<1>5. WorkerTypes(r)'
  BY <1>1, <1>3 DEF WorkerTypes
<1>6. FileTypes(r)'
  BY <1>1, <1>3 DEF FileTypes, Prepared
<1> QED
  BY <1>2, <1>4, <1>5, <1>6, OneRunOfRegistry

(* A run gets past its Wizards only once every runtime is published.         *)
LEMMA MovesKeepRegistry ==
  ASSUME LaunchInv, RegistryInv, NEW r \in Runs,
         \/ Validate(r) \/ BeginRun(r) \/ AllRuntimesReady(r) \/ StartupFails(r)
         \/ StopWizardHost(r) \/ FinishTeardown(r)
  PROVE  RegistryInv'
<1> USE DEF UnchangedByHost, RegistryStutters
<1>1. CASE Validate(r)
  BY <1>1, StageMoves DEF Validate
<1>2. CASE BeginRun(r)
  BY <1>2, StageMoves DEF BeginRun, Copied
<1>3. CASE AllRuntimesReady(r)
  <2>1. \A t \in Runtimes(r) : runtimes[r][t] # Absent
    <3>1. attempt[r] # Absent
      BY RunFacts DEF RegistryInv, RegistryTypes, HostTypes, Absent
    <3> QED
      BY <1>3, <3>1 DEF AllRuntimesReady, AllPublished
  <2> QED
    BY <1>3, <2>1, StageMoves DEF AllRuntimesReady
<1>4. CASE StartupFails(r)
  BY <1>4, StageMoves DEF StartupFails, Prepared
<1>5. CASE StopWizardHost(r)
  BY <1>5, StageMoves DEF StopWizardHost, Prepared
<1>6. CASE FinishTeardown(r)
  BY <1>6, StageMoves DEF FinishTeardown, Prepared
<1> QED
  BY <1>1, <1>2, <1>3, <1>4, <1>5, <1>6

(* The caches are used before anything is launched.                         *)
LEMMA CachesKeepRegistry == LaunchInv /\ RegistryInv /\ CacheNext => RegistryInv'
<1> SUFFICES ASSUME LaunchInv, RegistryInv, CacheNext PROVE RegistryInv'
  OBVIOUS
<1>1. UNCHANGED <<case, RegistryStutters>>
  BY DEF CacheNext, UseLocal, Lookup, BeginFetch, FinishFetch, FetchFails, PublishImage, PublishCheckout,
         Publish, MoveUpstream, UnchangedElsewhere, RegistryStutters
<1>2. \/ stage' = stage
      \/ \E r \in Runs : \E to \in Setup \cup {"ended"} : stage[r] \in Setup /\ Go(r, to)
  BY DEF CacheNext, UseLocal, Lookup, BeginFetch, FinishFetch, FetchFails, PublishImage, PublishCheckout,
         Publish, MoveUpstream, Abort, After, Build, Artifacts, Setup, LaunchInv, Go
<1>3. CASE stage' = stage
  <2>1. \A q \in Runs : Same(q)
    BY <1>1, <1>3 DEF Same, RegistryStutters, procVars, cosmosVars, registryVars
  <2>2. Domains'
    BY <1>1, CaseIsSame DEF RegistryStutters, procVars, cosmosVars, registryVars, RegistryInv, Domains
  <2> QED
    BY <1>1, <2>1, <2>2, SameTypes, CaseIsSame DEF RegistryInv
<1>4. ASSUME NEW r \in Runs, NEW to \in Setup \cup {"ended"}, stage[r] \in Setup, Go(r, to)
      PROVE  RegistryInv'
  BY <1>1, <1>4, StageMoves DEF Prepared, Setup
<1> QED
  BY <1>2, <1>3, <1>4

(* Steps that touch neither the Cosmos processes nor the files.              *)
LEMMA WizardsKeepRegistry ==
  ASSUME LaunchInv, RegistryInv, NEW r \in Runs,
         \/ StartWizard(r) \/ AppendWizard(r) \/ TerminateWizard(r)
         \/ \E t \in Runtimes(r) : RuntimeServes(r, t) \/ WizardExits(r, t)
  PROVE  RegistryInv'
<1>1. UNCHANGED <<case, attempt, requeue, cosmosVars, registryVars>>
  BY DEF StartWizard, AppendWizard, TerminateWizard, RuntimeServes, WizardExits, UnchangedByHost, hostVars, procVars
<1>2. /\ stage'[r] \in {stage[r], "popened", "waiting", "wizards"}
      /\ stage'[r] # stage[r] => stage[r] \in {"wizards", "popened"}
  BY DEF StartWizard, AppendWizard, TerminateWizard, RuntimeServes, WizardExits, hostVars, procVars, Go, LaunchInv
<1>3. StepOf(r)
  <2>1. Domains'
    BY <1>1, CaseIsSame DEF RegistryInv, Domains, cosmosVars, registryVars, StartWizard, AppendWizard,
       TerminateWizard, RuntimeServes, WizardExits, procVars
  <2>2. ASSUME NEW q \in Runs, q # r PROVE Same(q)
    BY <1>1, <2>2 DEF Same, RegistryInv, Domains, LaunchInv, cosmosVars, registryVars, StartWizard,
       AppendWizard, TerminateWizard, RuntimeServes, WizardExits, procVars, hostVars, Go
  <2> QED
    BY <1>1, <2>1, <2>2 DEF StepOf
<1>4. /\ HostTypes(r) /\ WorkerTypes(r) /\ FileTypes(r)
      /\ Hosts(r) \in Nat /\ Runtimes(r) = 1 .. Hosts(r)  /\ Cardinality(Runtimes(r)) = Hosts(r)
  BY RunFacts DEF RegistryInv, RegistryTypes
<1> USE CaseIsSame
<1>5. WorkerTypes(r)'
  BY <1>1, <1>2, <1>4 DEF WorkerTypes, cosmosVars, registryVars
<1>6. FileTypes(r)'
  BY <1>1, <1>2, <1>4 DEF FileTypes, Prepared, registryVars
<1>7. HostTypes(r)'
  <2>1. CASE StartWizard(r)
    <3>1. /\ launched[r] + 1 \in Runtimes(r) /\ wizards'[r] = wizards[r] \cup {launched[r] + 1}
          /\ stage'[r] = "popened" /\ UNCHANGED <<launched, serving>>
      BY <2>1 DEF StartWizard, Go, LaunchInv
    <3> QED
      BY <1>1, <1>4, <3>1 DEF HostTypes
  <2>2. CASE AppendWizard(r)
    <3>1. /\ launched'[r] = launched[r] + 1 /\ stage[r] = "popened" /\ UNCHANGED <<wizards, serving>>
          /\ stage'[r] \in {"waiting", "wizards"}
      BY <2>2 DEF AppendWizard, Go, LaunchInv, procVars
    <3> QED
      BY <1>1, <1>4, <3>1 DEF HostTypes
  <2>3. CASE TerminateWizard(r) \/ \E t \in Runtimes(r) : WizardExits(r, t)
    <3>1. PICK t : /\ wizards'[r] = wizards[r] \ {t} /\ serving'[r] = serving[r] \ {t}
                   /\ UNCHANGED <<stage, launched>>
      BY <2>3 DEF TerminateWizard, WizardExits, LaunchInv, RegistryInv, Domains, hostVars
    <3> QED
      BY <1>1, <1>4, <3>1 DEF HostTypes
  <2>4. CASE \E t \in Runtimes(r) : RuntimeServes(r, t)
    <3>1. PICK t \in wizards[r] : serving'[r] = serving[r] \cup {t} /\ UNCHANGED <<stage, launched, wizards>>
      BY <2>4 DEF RuntimeServes, RegistryInv, Domains, hostVars
    <3> QED
      BY <1>1, <1>4, <3>1 DEF HostTypes
  <2> QED
    BY <2>1, <2>2, <2>3, <2>4
<1> QED
  BY <1>3, <1>5, <1>6, <1>7, OneRunOfRegistry DEF RegistryTypes

(* Steps that change the published runtimes or the assignments.              *)
LEMMA FilesKeepRegistry ==
  ASSUME LaunchInv, RegistryInv, NEW r \in Runs,
         ResetTopology(r) \/ PublishRuntime(r) \/ \E from \in Runs : CopyRunDir(from, r)
  PROVE  RegistryInv'
<1>1. UNCHANGED <<case, attempt, requeue, launched, procVars, cosmosVars, drivers, lock, master>>
  BY DEF ResetTopology, PublishRuntime, CopyRunDir, UnchangedByHost, hostVars
<1>2. StepOf(r)
  <2>1. Domains'
    BY <1>1, CaseIsSame DEF RegistryInv, Domains, cosmosVars, procVars, ResetTopology, PublishRuntime, CopyRunDir
  <2>2. ASSUME NEW q \in Runs, q # r PROVE Same(q)
    BY <1>1, <2>2 DEF Same, RegistryInv, Domains, LaunchInv, cosmosVars, procVars, hostVars, ResetTopology,
       PublishRuntime, CopyRunDir, Go
  <2> QED
    BY <1>1, <2>1, <2>2 DEF StepOf
<1>3. /\ HostTypes(r) /\ WorkerTypes(r) /\ FileTypes(r) /\ case.attempts \in Nat \ {0}
  BY RunFacts DEF RegistryInv, RegistryTypes
<1> USE CaseIsSame DEF cosmosVars, procVars
<1>4. CASE ResetTopology(r)
  <2>1. /\ stage[r] = "reset" /\ stage'[r] = IF Mode(r) = "cosmos" THEN "launch" ELSE "wizards"
        /\ runtimes'[r] \in {runtimes[r], [t \in Runtimes(r) |-> Absent]}
        /\ assigned'[r] \in {assigned[r], [d \in DriverIds(r) |-> 0]}
        /\ Mode(r) = "cosmos" => runtimes' = runtimes
    BY <1>4 DEF ResetTopology, Go, LaunchInv, RegistryInv, Domains, Cleared
  <2>2. HostTypes(r)' /\ WorkerTypes(r)'
    BY <1>1, <1>3, <2>1 DEF HostTypes, WorkerTypes
  <2>3. FileTypes(r)'
    BY <1>1, <1>3, <2>1 DEF FileTypes, Prepared, Absent
  <2> QED
    BY <1>2, <2>2, <2>3, OneRunOfRegistry DEF RegistryTypes
<1>5. CASE PublishRuntime(r)
  <2>1. /\ UNCHANGED <<stage, assigned>>
        /\ \E t \in serving[r] : runtimes' = [runtimes EXCEPT ![r][t] = attempt[r]]
    BY <1>5 DEF PublishRuntime, hostVars
  <2>2. PICK t \in Runtimes(r) : runtimes'[r] = [runtimes[r] EXCEPT ![t] = attempt[r]]
    BY <1>3, <2>1 DEF HostTypes, RegistryInv, Domains
  <2>3. HostTypes(r)' /\ WorkerTypes(r)'
    BY <1>1, <1>3, <2>1 DEF HostTypes, WorkerTypes
  <2>4. FileTypes(r)'
    BY <1>1, <1>3, <2>1, <2>2 DEF FileTypes, HostTypes, Prepared, Absent
  <2> QED
    BY <1>2, <2>3, <2>4, OneRunOfRegistry DEF RegistryTypes
<1>6. ASSUME NEW from \in Runs, CopyRunDir(from, r) PROVE RegistryInv'
  <2>1. /\ UNCHANGED <<stage, assigned>> /\ runtimes'[r] = runtimes[from] /\ stage[r] = "ready"
        /\ Mode(from) = "wizard" /\ Mode(r) = "cosmos"
    BY <1>6 DEF CopyRunDir, hostVars, RegistryInv, Domains
  <2>2. Config(from) = Config(r)
    BY <2>1, CasesAreRuns DEF LaunchInv, Runs, Config, Mode
  <2>3. runtimes[from] \in [Runtimes(r) -> 0 .. case.attempts]
    BY <2>2 DEF RegistryInv, RegistryTypes, FileTypes, Runtimes
  <2>4. HostTypes(r)' /\ WorkerTypes(r)'
    BY <1>1, <1>3, <2>1 DEF HostTypes, WorkerTypes
  <2>5. FileTypes(r)'
    BY <1>1, <1>3, <2>1, <2>3 DEF FileTypes, Prepared
  <2> QED
    BY <1>2, <2>4, <2>5, OneRunOfRegistry DEF RegistryTypes
<1> QED
  BY <1>4, <1>5, <1>6

(* Cosmos starts with the flock free and every runtime published, and stops  *)
(* with all that its processes held.                                         *)
LEMMA CosmosComesAndGoes ==
  ASSUME LaunchInv, RegistryInv, NEW r \in Runs, LaunchCosmos(r) \/ CosmosReturns(r) \/ Signal(r)
  PROVE  RegistryInv'
<1>1. UNCHANGED <<case, attempt, launched, procVars, seen, runtime, capacity, runtimes, assigned, drivers, master>>
  BY DEF LaunchCosmos, CosmosReturns, Signal, CosmosStops, UnchangedByHost, registryVars
<1>2. StepOf(r)
  <2>1. Domains'
    BY <1>1, CaseIsSame DEF RegistryInv, Domains, procVars, LaunchCosmos, CosmosReturns, Signal, CosmosStops,
       registryVars
  <2>2. ASSUME NEW q \in Runs, q # r PROVE Same(q)
    BY <1>1, <2>2 DEF Same, RegistryInv, Domains, LaunchInv, procVars, LaunchCosmos, CosmosReturns, Signal,
       CosmosStops, registryVars, Go
  <2> QED
    BY <1>1, <2>1, <2>2 DEF StepOf
<1>3. HostTypes(r) /\ WorkerTypes(r) /\ FileTypes(r) /\ Nobody \notin Replicas(r)
  BY RunFacts DEF RegistryInv, RegistryTypes
<1> USE CaseIsSame DEF procVars
<1>4. CASE LaunchCosmos(r)
  <2>1. /\ stage[r] = "launch" /\ stage'[r] = "cosmos" /\ controller'[r] = "started"
        /\ worker'[r] = [w \in Replicas(r) |-> "started"] /\ pidBase'[r] \in 0 .. 1
        /\ UNCHANGED <<requeue, lock>>
    BY <1>4 DEF LaunchCosmos, Go, LaunchInv, RegistryInv, Domains, registryVars
  <2>2. lock[r] = Nobody
    BY <1>3, <2>1 DEF WorkerTypes
  <2>3. HostTypes(r)'
    BY <1>1, <1>3, <2>1 DEF HostTypes
  <2>4. WorkerTypes(r)'
    BY <1>1, <1>3, <2>1, <2>2 DEF WorkerTypes, Controllers, WorkerStates
  <2>5. FileTypes(r)'
    BY <1>1, <1>3, <2>1 DEF FileTypes, Prepared
  <2> QED
    BY <1>2, <2>3, <2>4, <2>5, OneRunOfRegistry DEF RegistryTypes
<1>5. CASE CosmosReturns(r) \/ Signal(r)
  <2>1. /\ controller'[r] = "absent" /\ worker'[r] = [w \in Replicas(r) |-> "absent"] /\ lock'[r] = Nobody
        /\ UNCHANGED pidBase
        /\ stage[r] \in Setup \cup Body \cup {"teardown"} /\ stage'[r] \in {"teardown", "ended"}
        /\ requeue'[r] \in BOOLEAN /\ (requeue'[r] => attempt[r] < case.attempts)
    <3>1. CASE CosmosReturns(r)
      BY <1>3, <3>1 DEF CosmosReturns, CosmosStops, Go, LaunchInv, RegistryInv, Domains, Body, HostTypes
    <3>2. CASE Signal(r)
      BY <3>2 DEF Signal, CosmosStops, Go, LaunchInv, RegistryInv, Domains, Caught
    <3> QED
      BY <1>5, <3>1, <3>2
  <2>2. HostTypes(r)'
    BY <1>1, <1>3, <2>1 DEF HostTypes
  <2>3. WorkerTypes(r)'
    BY <1>1, <1>3, <2>1 DEF WorkerTypes, Controllers, WorkerStates
  <2>4. FileTypes(r)'
    BY <1>1, <1>3, <2>1 DEF FileTypes, Prepared, Setup, Body
  <2> QED
    BY <1>2, <2>2, <2>3, <2>4, OneRunOfRegistry DEF RegistryTypes
<1> QED
  BY <1>4, <1>5

(* Another attempt is made only if one is left.                              *)
LEMMA AttemptsKeepRegistry ==
  ASSUME LaunchInv, RegistryInv, NEW r \in Runs, Requeue(r) \/ StartAgain(r)
  PROVE  RegistryInv'
<1>1. UNCHANGED <<case, cosmosVars, registryVars>>
  BY DEF Requeue, StartAgain, NextAttempt, UnchangedByHost
<1>2. StepOf(r)
  <2>1. Domains'
    BY <1>1, CaseIsSame DEF RegistryInv, Domains, cosmosVars, registryVars, Requeue, StartAgain, NextAttempt
  <2>2. ASSUME NEW q \in Runs, q # r PROVE Same(q)
    BY <1>1, <2>2 DEF Same, RegistryInv, Domains, LaunchInv, cosmosVars, registryVars, Requeue, StartAgain,
       NextAttempt, Go
  <2> QED
    BY <1>1, <2>1, <2>2 DEF StepOf
<1>3. /\ HostTypes(r) /\ WorkerTypes(r) /\ FileTypes(r) /\ Hosts(r) \in Nat /\ Hosts(r) > 0
      /\ case.attempts \in Nat /\ attempt[r] \in Nat
  <2>1. HostTypes(r) /\ WorkerTypes(r) /\ FileTypes(r)
    BY DEF RegistryInv, RegistryTypes
  <2> QED
    BY <2>1, RunFacts DEF HostTypes, Requeue, StartAgain
<1>4. /\ stage[r] \in {"requeue", "ended"} /\ stage'[r] = "image" /\ attempt'[r] = attempt[r] + 1
      /\ attempt[r] < case.attempts /\ requeue'[r] \in BOOLEAN /\ ~ requeue'[r] /\ launched'[r] = 0
      /\ wizards'[r] = {} /\ serving'[r] = {}
  <2>1. NextAttempt(r) /\ stage[r] \in {"requeue", "ended"}
    BY DEF Requeue, StartAgain
  <2>2. attempt[r] < case.attempts
    BY <1>3 DEF Requeue, StartAgain, HostTypes
  <2>3. requeue'[r] = FALSE
    BY <2>1 DEF NextAttempt, RegistryInv, Domains
  <2>4. /\ stage'[r] = "image" /\ attempt'[r] = attempt[r] + 1 /\ launched'[r] = 0
        /\ wizards'[r] = {} /\ serving'[r] = {}
    BY <2>1 DEF NextAttempt, Go, LaunchInv, RegistryInv, Domains
  <2> QED
    BY <2>1, <2>2, <2>3, <2>4
<1> USE CaseIsSame DEF cosmosVars, registryVars
<1>5. HostTypes(r)'
  BY <1>1, <1>3, <1>4 DEF HostTypes
<1>6. WorkerTypes(r)'
  BY <1>1, <1>3, <1>4 DEF WorkerTypes
<1>7. FileTypes(r)'
  BY <1>1, <1>3, <1>4 DEF FileTypes, Prepared
<1> QED
  BY <1>2, <1>5, <1>6, <1>7, OneRunOfRegistry DEF RegistryTypes

(* How a step of the Controller or of a worker leaves the other runs.        *)
LEMMA CosmosStepOf ==
  ASSUME LaunchInv, RegistryInv, NEW r \in Runs,
         \/ ControllerNext(r) \/ BindFails(r)
         \/ \E w \in Replicas(r) : WorkerNext(r, w) \/ WorkerDies(r, w)
  PROVE  /\ StepOf(r) /\ UNCHANGED <<case, stage, attempt, requeue, launched, wizards, serving, runtimes, pidBase>>
         /\ stage[r] = "cosmos"
<1> USE DEF ControllerNext, ClearMaster, BindAndPublishMaster, BindFails, WorkerNext, ReadMaster, SkipMaster,
            TakeLock, Acquire, PublishDriver, WorkerDies, Step, UnchangedByWorkers, hostVars, procVars,
            registryVars
<1>1. UNCHANGED <<case, stage, attempt, requeue, launched, wizards, serving, runtimes, pidBase>>
  OBVIOUS
<1>2. stage[r] = "cosmos"
  BY DEF InCosmos
<1>3. Domains'
  BY <1>1, CaseIsSame DEF RegistryInv, Domains
<1>4. ASSUME NEW q \in Runs, q # r PROVE Same(q)
  BY <1>1, <1>4 DEF Same, RegistryInv, Domains
<1> QED
  BY <1>1, <1>2, <1>3, <1>4 DEF StepOf

(* The Controller changes its own state and the master file.                *)
LEMMA ControllersKeepRegistry ==
  ASSUME LaunchInv, RegistryInv, NEW r \in Runs, ControllerNext(r) \/ BindFails(r)
  PROVE  RegistryInv'
<1>1. /\ StepOf(r) /\ UNCHANGED <<case, stage, attempt, requeue, launched, wizards, serving, runtimes, pidBase>>
      /\ HostTypes(r) /\ WorkerTypes(r) /\ FileTypes(r) /\ case.attempts \in Nat
  BY CosmosStepOf, RunFacts DEF RegistryInv, RegistryTypes
<1>2. /\ UNCHANGED <<worker, seen, runtime, capacity, assigned, drivers, lock>>
      /\ controller'[r] \in Controllers /\ master'[r] \in {master[r], Absent, attempt[r]}
  BY DEF ControllerNext, ClearMaster, BindAndPublishMaster, BindFails, registryVars, Controllers, RegistryInv,
     Domains
<1> USE CaseIsSame
<1>3. HostTypes(r)'
  BY <1>1 DEF HostTypes
<1>4. WorkerTypes(r)'
  BY <1>1, <1>2 DEF WorkerTypes
<1>5. FileTypes(r)'
  BY <1>1, <1>2 DEF FileTypes, Prepared, HostTypes, Absent
<1> QED
  BY <1>1, <1>3, <1>4, <1>5, OneRunOfRegistry DEF RegistryTypes

(* One worker moves, and takes the flock, keeps it, or leaves it.            *)
LEMMA WorkerMoves ==
  ASSUME LaunchInv, NEW r \in Runs, NEW w \in Replicas(r), WorkerTypes(r), case' = case, stage[r] = "cosmos",
         UNCHANGED <<stage, controller, pidBase>>,
         seen'[r] \in [Runtimes(r) -> Nat], runtime'[r] \in [Replicas(r) -> {0} \cup Runtimes(r)],
         capacity'[r] \in [Replicas(r) -> 0 .. case.capacity],
         NEW to \in WorkerStates, worker'[r] = [worker[r] EXCEPT ![w] = to],
         lock'[r] \in {Nobody} \cup Replicas(r), to = "locked" <=> lock'[r] = w,
         \A v \in Replicas(r) : v # w => (lock'[r] = v <=> lock[r] = v)
  PROVE  WorkerTypes(r)'
<1> USE CaseIsSame
<1>1. worker'[r] \in [Replicas(r) -> WorkerStates]
  BY DEF WorkerTypes
<1>2. \A v \in Replicas(r) : worker'[r][v] = IF v = w THEN to ELSE worker[r][v]
  BY DEF WorkerTypes
<1>3. \A v \in Replicas(r) : worker'[r][v] = "locked" <=> lock'[r] = v
  BY <1>2 DEF WorkerTypes
<1> QED
  BY <1>1, <1>3 DEF WorkerTypes

(* A worker waits at the flock, is alone inside, and gets its runtime there. *)
LEMMA WorkersKeepRegistry ==
  ASSUME LaunchInv, RegistryInv, NEW r \in Runs, NEW w \in Replicas(r), WorkerNext(r, w) \/ WorkerDies(r, w)
  PROVE  RegistryInv'
<1>1. /\ StepOf(r) /\ UNCHANGED <<case, stage, attempt, requeue, launched, wizards, serving, runtimes, pidBase>>
      /\ stage[r] = "cosmos"
  BY CosmosStepOf
<1>2. /\ HostTypes(r) /\ WorkerTypes(r) /\ FileTypes(r) /\ case.attempts \in Nat /\ case.capacity \in Nat \ {0}
      /\ Nobody \notin Replicas(r) /\ Hosts(r) \in Nat /\ Hosts(r) > 0 /\ Runtimes(r) = 1 .. Hosts(r)
      /\ Cardinality(Runtimes(r)) = Hosts(r) /\ Config(r).rolloutReplicas \in Int
  BY <1>1, RunFacts DEF RegistryInv, RegistryTypes
<1> USE CaseIsSame
<1>3. HostTypes(r)'
  BY <1>1, <1>2 DEF HostTypes
<1>4. CASE ReadMaster(r, w) \/ SkipMaster(r, w) \/ PublishDriver(r, w)
  <2>1. PICK from \in {"started", "assigned"}, to \in {"met", "dead", "up"} : Step(r, w, from, to)
    BY <1>4 DEF ReadMaster, SkipMaster, PublishDriver
  <2>6. worker[r][w] = from /\ worker'[r] = [worker[r] EXCEPT ![w] = to] /\ to \in WorkerStates
    BY <2>1 DEF Step, WorkerStates, RegistryInv, Domains
  <2>2. /\ UNCHANGED <<controller, seen, runtime, capacity, assigned, lock, master>>
        /\ drivers'[r] \in {drivers[r], drivers[r] \cup {DriverId(r, w)}}
    BY <1>4 DEF ReadMaster, SkipMaster, PublishDriver, registryVars, RegistryInv, Domains
  <2>3. DriverId(r, w) \in DriverIds(r)
    BY <1>2, DriverIdFacts
  <2>7. lock[r] # w
    BY <1>2, <2>6 DEF WorkerTypes
  <2>4. WorkerTypes(r)'
    <3>1. /\ seen'[r] \in [Runtimes(r) -> Nat] /\ runtime'[r] \in [Replicas(r) -> {0} \cup Runtimes(r)]
          /\ capacity'[r] \in [Replicas(r) -> 0 .. case.capacity] /\ lock'[r] \in {Nobody} \cup Replicas(r)
      BY <1>2, <2>2 DEF WorkerTypes
    <3>2. /\ to = "locked" <=> lock'[r] = w
          /\ \A v \in Replicas(r) : v # w => (lock'[r] = v <=> lock[r] = v)
          /\ UNCHANGED <<case, stage, controller, pidBase>>
      BY <1>1, <2>1, <2>2, <2>7
    <3> QED
      BY <1>1, <1>2, <2>6, <3>1, <3>2, WorkerMoves
  <2>5. FileTypes(r)'
    BY <1>1, <1>2, <2>2, <2>3 DEF FileTypes, Prepared
  <2> QED
    BY <1>1, <1>3, <2>4, <2>5, OneRunOfRegistry DEF RegistryTypes
<1>5. CASE TakeLock(r, w)
  <2>1. /\ lock[r] = Nobody /\ lock'[r] = w /\ worker'[r] = [worker[r] EXCEPT ![w] = "locked"]
        /\ seen'[r] = [t \in Runtimes(r) |-> Load(r, t)]
        /\ UNCHANGED <<controller, runtime, capacity, assigned, drivers, master>>
    BY <1>5 DEF TakeLock, LockIsFree, Step, RegistryInv, Domains
  <2>2. ASSUME NEW t \in Runtimes(r) PROVE Load(r, t) \in Nat
    <3>1. IsFiniteSet(DriverIds(r))
      <4>1. 2 * Config(r).rolloutReplicas \in Int
        BY <1>2
      <4> QED
        BY <4>1, FS_Interval DEF DriverIds
    <3>2. {d \in DriverIds(r) : assigned[r][d] = t} \in SUBSET DriverIds(r)
      OBVIOUS
    <3>3. IsFiniteSet({d \in DriverIds(r) : assigned[r][d] = t})
      BY <3>1, <3>2, FS_Subset
    <3> QED
      BY <3>3, FS_CardinalityType DEF Load
  <2>3. WorkerTypes(r)'
    <3>1. seen'[r] \in [Runtimes(r) -> Nat] /\ "locked" \in WorkerStates
      BY <2>1, <2>2 DEF WorkerStates
    <3>2. /\ runtime'[r] \in [Replicas(r) -> {0} \cup Runtimes(r)]
          /\ capacity'[r] \in [Replicas(r) -> 0 .. case.capacity]
      BY <1>2, <2>1 DEF WorkerTypes
    <3> QED
      BY <1>1, <1>2, <2>1, <3>1, <3>2, WorkerMoves
  <2>4. FileTypes(r)'
    BY <1>1, <1>2, <2>1 DEF FileTypes, Prepared
  <2> QED
    BY <1>1, <1>3, <2>3, <2>4, OneRunOfRegistry DEF RegistryTypes
<1>6. CASE Acquire(r, w)
  <2> DEFINE id == DriverId(r, w)
             given == IF assigned[r][id] # 0 THEN assigned[r][id] ELSE LeastUsed(r)
             share == WorkerCapacity(case.capacity, Config(r).rolloutReplicas, Cardinality(Runtimes(r)))
  <2>1. /\ worker[r][w] = "locked" /\ lock'[r] = Nobody
        /\ worker'[r] = [worker[r] EXCEPT ![w] = "assigned"]
        /\ assigned'[r] = [assigned[r] EXCEPT ![id] = given]
        /\ runtime'[r] = [runtime[r] EXCEPT ![w] = given]
        /\ capacity'[r] = [capacity[r] EXCEPT ![w] = share]
        /\ UNCHANGED <<controller, seen, drivers, master>>
    BY <1>6 DEF Acquire, Step, RegistryInv, Domains
  <2>2. id \in DriverIds(r)
    BY <1>2, DriverIdFacts
  <2>3. LeastUsed(r) \in Runtimes(r)
    <3>1. 1 \in Runtimes(r) /\ runtimes[r][1] # Absent
      BY <1>1, <1>2 DEF FileTypes, Prepared
    <3> QED
      BY <1>2, <3>1, LeastUsedIsPublished
  <2>4. given \in {0} \cup Runtimes(r)
    BY <1>2, <2>2, <2>3 DEF FileTypes
  <2>5. share \in 0 .. case.capacity
    <3>1. Cardinality(Runtimes(r)) \in Nat \ {0}
      BY <1>2
    <3> QED
      BY <1>2, <3>1, CapacityIsBounded
  <2> HIDE DEF given, share, id
  <2>6. lock[r] = w
    BY <1>2, <2>1 DEF WorkerTypes
  <2>7. WorkerTypes(r)'
    <3>1. /\ runtime'[r] \in [Replicas(r) -> {0} \cup Runtimes(r)]
          /\ capacity'[r] \in [Replicas(r) -> 0 .. case.capacity]
          /\ seen'[r] \in [Runtimes(r) -> Nat] /\ "assigned" \in WorkerStates
      BY <1>2, <2>1, <2>4, <2>5 DEF WorkerTypes, WorkerStates
    <3> QED
      <4>1. /\ lock'[r] \in {Nobody} \cup Replicas(r) /\ ("assigned" = "locked" <=> lock'[r] = w)
            /\ \A v \in Replicas(r) : v # w => (lock'[r] = v <=> lock[r] = v)
            /\ UNCHANGED <<case, stage, controller, pidBase>>
        BY <1>1, <1>2, <2>1, <2>6
      <4> QED
        <5>1. worker'[r] = [worker[r] EXCEPT ![w] = "assigned"] /\ WorkerTypes(r) /\ stage[r] = "cosmos"
          BY <1>1, <1>2, <2>1
        <5>2. "assigned" \in WorkerStates
          BY DEF WorkerStates
        <5> QED
          BY <3>1, <4>1, <5>1, <5>2, WorkerMoves
  <2>8. FileTypes(r)'
    <3>1. assigned'[r] \in [DriverIds(r) -> {0} \cup Runtimes(r)]
      BY <1>2, <2>1, <2>2, <2>4 DEF FileTypes
    <3> QED
      BY <1>1, <1>2, <2>1, <3>1 DEF FileTypes, Prepared
  <2> QED
    BY <1>1, <1>3, <2>7, <2>8, OneRunOfRegistry DEF RegistryTypes
<1>7. CASE WorkerDies(r, w)
  <2>1. /\ worker'[r] = [worker[r] EXCEPT ![w] = "dead"]
        /\ lock'[r] = IF lock[r] = w THEN Nobody ELSE lock[r]
        /\ UNCHANGED <<controller, seen, runtime, capacity, assigned, drivers, master>>
    BY <1>7 DEF WorkerDies, Step, RegistryInv, Domains
  <2>2. WorkerTypes(r)'
    <3>1. /\ lock'[r] \in {Nobody} \cup Replicas(r) /\ lock'[r] # w /\ "dead" \in WorkerStates
          /\ \A v \in Replicas(r) : v # w => (lock'[r] = v <=> lock[r] = v)
      BY <1>2, <2>1 DEF WorkerTypes, WorkerStates
    <3>2. /\ seen'[r] \in [Runtimes(r) -> Nat] /\ runtime'[r] \in [Replicas(r) -> {0} \cup Runtimes(r)]
          /\ capacity'[r] \in [Replicas(r) -> 0 .. case.capacity]
      BY <1>2, <2>1 DEF WorkerTypes
    <3>3. ("dead" = "locked" <=> lock'[r] = w) /\ UNCHANGED <<case, stage, controller, pidBase>>
      BY <1>1, <2>1, <3>1
    <3> QED
      BY <1>1, <1>2, <2>1, <3>1, <3>2, <3>3, WorkerMoves
  <2>3. FileTypes(r)'
    BY <1>1, <1>2, <2>1 DEF FileTypes, Prepared
  <2> QED
    BY <1>1, <1>3, <2>2, <2>3, OneRunOfRegistry DEF RegistryTypes
<1> QED
  BY <1>4, <1>5, <1>6, <1>7 DEF WorkerNext

(* The flock and the registry of every run, whatever its workers, Wizards,   *)
(* signals and attempts.                                                     *)
THEOREM RegistryInvariant == Spec => []RegistryInv
<1>1. Init /\ LaunchInv => RegistryInv
  BY RegistryInit
<1>2. RegistryInv /\ LaunchInv /\ [Next]_vars => RegistryInv'
  <2> SUFFICES ASSUME RegistryInv, LaunchInv, [Next]_vars PROVE RegistryInv'
    OBVIOUS
  <2>1. CASE CacheNext
    BY <2>1, CachesKeepRegistry
  <2>2. CASE CosmosNext
    BY <2>2, ControllersKeepRegistry, WorkersKeepRegistry DEF CosmosNext
  <2>3. ASSUME NEW r \in Runs, HostNext(r)
        PROVE  RegistryInv'
    BY <2>3, MovesKeepRegistry, WizardsKeepRegistry, FilesKeepRegistry, CosmosComesAndGoes,
       AttemptsKeepRegistry DEF HostNext
  <2>4. ASSUME NEW r \in Runs, StartupFails(r) \/ StopWizardHost(r) \/ StartAgain(r) \/ Signal(r)
        PROVE  RegistryInv'
    BY <2>4, MovesKeepRegistry, AttemptsKeepRegistry, CosmosComesAndGoes
  <2>5. ASSUME NEW r \in Runs, NEW t \in Runtimes(r), RuntimeServes(r, t) \/ WizardExits(r, t)
        PROVE  RegistryInv'
    BY <2>5, WizardsKeepRegistry
  <2>6. ASSUME NEW r \in Runs, NEW from \in Runs, CopyRunDir(from, r)
        PROVE  RegistryInv'
    BY <2>6, FilesKeepRegistry
  <2>7. CASE UNCHANGED vars
    <3>1. case' = case /\ \A q : Same(q)
      BY <2>7 DEF vars, hostVars, procVars, cosmosVars, registryVars, Same
    <3>2. Domains'
      BY <2>7, CaseIsSame DEF vars, hostVars, procVars, cosmosVars, registryVars, RegistryInv, Domains
    <3> QED
      BY <3>1, <3>2, SameTypes, CaseIsSame DEF RegistryInv
  <2> QED
    BY <2>1, <2>2, <2>3, <2>4, <2>5, <2>6, <2>7 DEF Next
<1>3. Spec => []LaunchInv
  BY LaunchInvariant
<1> QED
  BY <1>1, <1>2, <1>3, PTL DEF Spec

(* Every variable of the launch holds a value of its kind, and the flock's   *)
(* holder is the worker inside the registry, for any number of runs,         *)
(* workers, runtimes and attempts.                                           *)
THEOREM LaunchTypes == Spec => []TypeOK
<1>1. LaunchInv /\ RegistryInv /\ CacheInv => TypeOK
  <2> SUFFICES ASSUME LaunchInv, RegistryInv, CacheInv PROVE TypeOK
    OBVIOUS
  <2>1. case \in Cases
    BY DEF LaunchInv
  <2>2. upstream \in [Artifacts -> Versions] /\ cache \in [Artifacts -> [Versions -> {Absent} \cup Versions]]
    BY DEF CacheInv, CacheTypes
  <2>3. ASSUME NEW r \in Runs
        PROVE  /\ stage[r] \in Stages /\ attempt[r] \in 1 .. case.attempts
               /\ struck[r] \in {Never} \cup Setup \cup Body \cup {"teardown"}
               /\ requeue[r] \in BOOLEAN /\ launched[r] \in 0 .. Cardinality(Runtimes(r))
               /\ wizards[r] \subseteq Runtimes(r) /\ serving[r] \subseteq wizards[r]
               /\ controller[r] \in {"absent", "started", "cleared", "up", "dead"}
    BY RunFacts DEF LaunchInv, Struck, RegistryInv, RegistryTypes, HostTypes, WorkerTypes, Controllers
  <2>4. ASSUME NEW r \in Runs, NEW w \in Replicas(r)
        PROVE  /\ worker[r][w] \in WorkerStates
               /\ runtime[r][w] \in {0} \cup Runtimes(r) /\ capacity[r][w] \in 0 .. case.capacity
               /\ worker[r][w] = "locked" <=> lock[r] = w
    BY DEF RegistryInv, RegistryTypes, WorkerTypes
  <2>5. ASSUME NEW r \in Runs
        PROVE  /\ runtimes[r] \in [Runtimes(r) -> 0 .. case.attempts]
               /\ assigned[r] \in [DriverIds(r) -> {0} \cup Runtimes(r)]
               /\ drivers[r] \subseteq DriverIds(r) /\ pidBase[r] \in 0 .. 1
               /\ master[r] \in 0 .. case.attempts
               /\ draft[r] \in {Absent, Partial} \cup Versions
    BY DEF RegistryInv, RegistryTypes, FileTypes, WorkerTypes, CacheInv, CacheTypes
  <2> QED
    BY <2>1, <2>2, <2>3, <2>4, <2>5 DEF TypeOK
<1> QED
  BY <1>1, LaunchInvariant, RegistryInvariant, CachesInvariant, PTL

-----------------------------------------------------------------------------
(* The loads                                                                 *)

(* What attempts leave in the registry: no assignment, or runtimes that all  *)
(* of them, or all earlier ones, published.                                  *)
Unassigned(r) == \A d \in DriverIds(r) : assigned[r][d] = 0
Spent(r)      == \A t \in Runtimes(r) : runtimes[r][t] \in 1 .. attempt[r]
Leftover(r)   == \A t \in Runtimes(r) : runtimes[r][t] \in 1 .. attempt[r] - 1

BeforeReset == {"new", "rejected", "ready"} \cup Setup
Launching   == BeforeReset \cup {"wizards", "popened", "waiting", "blocked"}

(* A run that keeps its files keeps the runtimes with the assignments, and   *)
(* does not get past them; a Cosmos-only run has no assignment at first.     *)
FilesOK(r) ==
  /\ Mode(r) = "whole" =>
       /\ Unassigned(r) \/ Spent(r) \/ Cleared(r)
       /\ stage[r] \in Launching =>
            Unassigned(r) \/ Leftover(r) \/ (Cleared(r) /\ stage[r] \in BeforeReset)
       /\ stage[r] \in {"launch", "cosmos"} => AllPublished(r)
  /\ Mode(r) = "wizard" => stage[r] \notin {"launch", "cosmos"}
  /\ Mode(r) = "cosmos" /\ StartsAfresh(r) /\ stage[r] \in Launching => Unassigned(r)
  /\ stage[r] = "launch" /\ StartsAfresh(r) => Unassigned(r)

(* Assignments are those of workers that were given them, every worker has   *)
(* the same capacity, no runtime has two drivers more than another, and the  *)
(* holder of the flock has seen how many each has.                           *)
Given    == {"assigned", "up"}
Share(r) == WorkerCapacity(case.capacity, Config(r).rolloutReplicas, Cardinality(Runtimes(r)))
Balanced(r) ==
  /\ \A d \in DriverIds(r) : assigned[r][d] # 0 =>
       \E w \in Replicas(r) : d = DriverId(r, w) /\ worker[r][w] \in Given \cup {"dead"}
  /\ \A w \in Replicas(r) : worker[r][w] \in Given =>
       /\ runtime[r][w] = assigned[r][DriverId(r, w)] /\ runtime[r][w] \in Runtimes(r)
       /\ capacity[r][w] = Share(r)
  /\ \A t, u \in Runtimes(r) : Load(r, t) <= Load(r, u) + 1
  /\ \A w \in Replicas(r) : worker[r][w] = "locked" => \A t \in Runtimes(r) : seen[r][t] = Load(r, t)

LoadsOK(r) ==
  /\ stage[r] # "cosmos" => \A w \in Replicas(r) : worker[r][w] = "absent"
  /\ FilesOK(r)
  /\ stage[r] = "cosmos" /\ StartsAfresh(r) => Balanced(r)
LoadsInv == \A r \in Runs : LoadsOK(r)

(* Nothing is published or assigned.                                         *)
LEMMA LoadsInit == Init => LoadsInv
BY DEF Init, LoadsInv, LoadsOK, FilesOK, Unassigned, Setup, Launching, BeforeReset

(* A run whose stage, workers and files stay as they are.                    *)
LEMMA SameLoads ==
  ASSUME case' = case, NEW q, LoadsOK(q),
         stage'[q] = stage[q], attempt'[q] = attempt[q], worker'[q] = worker[q], seen'[q] = seen[q],
         runtime'[q] = runtime[q], capacity'[q] = capacity[q], pidBase'[q] = pidBase[q],
         runtimes'[q] = runtimes[q], assigned'[q] = assigned[q]
  PROVE  LoadsOK(q)'
<1> USE CaseIsSame
<1>1. StartsAfresh(q)' = StartsAfresh(q)
  BY DEF StartsAfresh
<1>2. FilesOK(q)'
  BY <1>1 DEF LoadsOK, FilesOK, Unassigned, Spent, Leftover, Cleared, AllPublished
<1>3. Balanced(q) => Balanced(q)'
  BY DEF Balanced, Load, Share, DriverId
<1> QED
  BY <1>1, <1>2, <1>3 DEF LoadsOK

LEMMA OneRunOfLoads ==
  ASSUME LoadsInv, NEW r \in Runs, StepOf(r), LoadsOK(r)'
  PROVE  LoadsInv'
<1>1. \A q \in Runs : LoadsOK(q)'
  BY SameLoads DEF StepOf, Same, LoadsInv
<1> QED
  BY <1>1, CaseIsSame DEF StepOf, LoadsInv

LEMMA LoadsStutter ==
  ASSUME LoadsInv, UNCHANGED <<case, stage, attempt, cosmosVars, registryVars>>
  PROVE  LoadsInv'
<1>1. \A q \in Runs : LoadsOK(q)'
  BY SameLoads DEF LoadsInv, cosmosVars, registryVars
<1> QED
  BY <1>1, CaseIsSame DEF LoadsInv

(* The host process of a run leaves the other runs as they are.              *)
LEMMA HostStepOf ==
  ASSUME LaunchInv, RegistryInv, NEW r \in Runs,
         \/ HostNext(r) \/ StartupFails(r) \/ StopWizardHost(r) \/ StartAgain(r) \/ Signal(r)
         \/ \E t \in Runtimes(r) : RuntimeServes(r, t) \/ WizardExits(r, t)
         \/ \E from \in Runs : CopyRunDir(from, r)
  PROVE  StepOf(r)
<1>0. case' = case
  BY DEF HostNext, Validate, BeginRun, ResetTopology, StartWizard, AppendWizard, PublishRuntime,
     AllRuntimesReady, LaunchCosmos, CosmosReturns, TerminateWizard, FinishTeardown, Requeue, StartupFails,
     StopWizardHost, StartAgain, NextAttempt, Signal, RuntimeServes, WizardExits, CopyRunDir, UnchangedByHost
<1> USE <1>0, CaseIsSame DEF StepOf, Same, RegistryInv, Domains, LaunchInv, hostVars, procVars, cosmosVars,
        registryVars, Go
<1>1. ASSUME \/ Validate(r) \/ BeginRun(r) \/ AllRuntimesReady(r) \/ StartupFails(r)
             \/ StopWizardHost(r) \/ FinishTeardown(r)
      PROVE  StepOf(r)
  BY <1>1 DEF Validate, BeginRun, AllRuntimesReady, StartupFails, StopWizardHost, FinishTeardown
<1>2. ASSUME \/ StartWizard(r) \/ AppendWizard(r) \/ TerminateWizard(r)
             \/ \E t \in Runtimes(r) : RuntimeServes(r, t) \/ WizardExits(r, t)
      PROVE  StepOf(r)
  BY <1>2 DEF StartWizard, AppendWizard, TerminateWizard, RuntimeServes, WizardExits
<1>3. ASSUME ResetTopology(r) \/ PublishRuntime(r) \/ \E from \in Runs : CopyRunDir(from, r)
      PROVE  StepOf(r)
  BY <1>3 DEF ResetTopology, PublishRuntime, CopyRunDir
<1>4. ASSUME LaunchCosmos(r) \/ CosmosReturns(r) \/ Signal(r)
      PROVE  StepOf(r)
  BY <1>4 DEF LaunchCosmos, CosmosReturns, Signal, CosmosStops
<1>5. ASSUME Requeue(r) \/ StartAgain(r)
      PROVE  StepOf(r)
  BY <1>5 DEF Requeue, StartAgain, NextAttempt
<1> QED
  BY <1>1, <1>2, <1>3, <1>4, <1>5 DEF HostNext

(* A step that moves the host process on, outside Cosmos, and never back     *)
(* before the reset.                                                         *)
LEMMA StagesKeepLoads ==
  ASSUME LaunchInv, RegistryInv, LoadsInv, NEW r \in Runs, StepOf(r),
         UNCHANGED <<case, attempt, cosmosVars, registryVars>>,
         stage[r] # "cosmos", stage'[r] # "cosmos",
         stage'[r] \in Launching =>
           stage[r] \in Launching /\ (stage'[r] \in BeforeReset <=> stage[r] \in BeforeReset),
         stage'[r] = "launch" => \/ stage[r] = "launch"
                                 \/ stage[r] = "waiting" /\ AllPublished(r) /\ Mode(r) # "wizard"
  PROVE  LoadsInv'
<1> USE CaseIsSame
<1>1. LoadsOK(r) /\ FilesOK(r) /\ \A w \in Replicas(r) : worker[r][w] = "absent"
  BY DEF LoadsInv, LoadsOK
<1>2. /\ Unassigned(r)' <=> Unassigned(r)
      /\ Spent(r)' <=> Spent(r)
      /\ Leftover(r)' <=> Leftover(r)
      /\ AllPublished(r)' <=> AllPublished(r)
      /\ Cleared(r)' <=> Cleared(r)
      /\ StartsAfresh(r)' <=> StartsAfresh(r)
  BY DEF Unassigned, Spent, Leftover, AllPublished, Cleared, StartsAfresh, registryVars
<1>3. ASSUME stage[r] = "waiting", AllPublished(r) PROVE ~ Leftover(r)
  <2>1. 1 \in Runtimes(r) /\ attempt[r] \in Int
    BY <1>3, RunFacts DEF RegistryInv, RegistryTypes, HostTypes
  <2> QED
    BY <1>3, <2>1 DEF AllPublished, Leftover
<1>4. "waiting" \in Launching /\ "waiting" \notin BeforeReset /\ "launch" \notin Launching
  BY DEF Launching, BeforeReset, Setup
<1>5. Mode(r) \in {"whole", "wizard", "cosmos"}
  BY RunFacts
<1>6. stage'[r] = "launch" => Mode(r) # "wizard" /\ (Mode(r) = "whole" => AllPublished(r))
  BY <1>1 DEF FilesOK
<1>7. stage'[r] = "launch" /\ StartsAfresh(r) => Unassigned(r)
  BY <1>1, <1>3, <1>4, <1>5 DEF FilesOK
<1>8. FilesOK(r)'
  BY <1>1, <1>2, <1>4, <1>6, <1>7 DEF FilesOK
<1>9. \A w \in Replicas(r) : worker'[r][w] = "absent"
  BY <1>1 DEF cosmosVars
<1> QED
  BY <1>8, <1>9, OneRunOfLoads DEF LoadsOK

LEMMA MovesKeepLoads ==
  ASSUME LaunchInv, RegistryInv, LoadsInv, NEW r \in Runs,
         \/ Validate(r) \/ BeginRun(r) \/ AllRuntimesReady(r) \/ StartupFails(r)
         \/ StopWizardHost(r) \/ FinishTeardown(r)
  PROVE  LoadsInv'
<1>1. StepOf(r) /\ UNCHANGED <<case, attempt, cosmosVars, registryVars>>
  BY HostStepOf DEF HostNext, Validate, BeginRun, AllRuntimesReady, StartupFails, StopWizardHost,
     FinishTeardown, UnchangedByHost
<1> USE DEF Go, LaunchInv, Launching, BeforeReset, Setup
<1>2. CASE Validate(r) \/ BeginRun(r)
  <2>1. stage[r] \in {"new", "ready"} /\ stage'[r] \in {"ready", "rejected", "image"}
    BY <1>2 DEF Validate, BeginRun
  <2> QED
    BY <1>1, <2>1, StagesKeepLoads
<1>3. CASE AllRuntimesReady(r)
  <2>1. /\ stage[r] = "waiting" /\ AllPublished(r)
        /\ stage'[r] = IF Mode(r) = "wizard" THEN "blocked" ELSE "launch"
    BY <1>3 DEF AllRuntimesReady
  <2> QED
    BY <1>1, <2>1, StagesKeepLoads
<1>4. CASE StartupFails(r) \/ StopWizardHost(r) \/ FinishTeardown(r)
  <2>1. stage[r] \in {"wizards", "waiting", "blocked", "teardown"} /\ stage'[r] \in {"teardown", "requeue", "ended"}
    BY <1>4 DEF StartupFails, StopWizardHost, FinishTeardown
  <2> QED
    BY <1>1, <2>1, StagesKeepLoads
<1> QED
  BY <1>2, <1>3, <1>4

LEMMA WizardsKeepLoads ==
  ASSUME LaunchInv, RegistryInv, LoadsInv, NEW r \in Runs,
         \/ StartWizard(r) \/ AppendWizard(r) \/ TerminateWizard(r)
         \/ \E t \in Runtimes(r) : RuntimeServes(r, t) \/ WizardExits(r, t)
  PROVE  LoadsInv'
<1>1. StepOf(r) /\ UNCHANGED <<case, attempt, cosmosVars, registryVars>>
  <2>1. StepOf(r)
    BY HostStepOf DEF HostNext
  <2> QED
    BY <2>1 DEF StartWizard, AppendWizard, TerminateWizard, RuntimeServes, WizardExits, UnchangedByHost, hostVars
<1>2. CASE StartWizard(r) \/ AppendWizard(r)
  <2>1. stage[r] \in {"wizards", "popened"} /\ stage'[r] \in {"wizards", "popened", "waiting"}
    BY <1>2 DEF StartWizard, AppendWizard, Go, LaunchInv
  <2> QED
    BY <1>1, <2>1, StagesKeepLoads DEF Launching, BeforeReset, Setup
<1>3. CASE TerminateWizard(r) \/ \E t \in Runtimes(r) : RuntimeServes(r, t) \/ WizardExits(r, t)
  <2>1. stage' = stage
    BY <1>3 DEF TerminateWizard, RuntimeServes, WizardExits, hostVars
  <2> QED
    BY <1>1, <2>1, LoadsStutter
<1> QED
  BY <1>2, <1>3

(* The caches are used before anything is launched.                          *)
LEMMA CachesKeepLoads == LaunchInv /\ RegistryInv /\ LoadsInv /\ CacheNext => LoadsInv'
<1> SUFFICES ASSUME LaunchInv, RegistryInv, LoadsInv, CacheNext PROVE LoadsInv'
  OBVIOUS
<1>1. UNCHANGED <<case, RegistryStutters>>
  BY DEF CacheNext, UseLocal, Lookup, BeginFetch, FinishFetch, FetchFails, PublishImage, PublishCheckout,
         Publish, MoveUpstream, UnchangedElsewhere, RegistryStutters
<1>2. \/ stage' = stage
      \/ \E r \in Runs : \E to \in Setup \cup {"ended"} : stage[r] \in Setup /\ Go(r, to)
  BY DEF CacheNext, UseLocal, Lookup, BeginFetch, FinishFetch, FetchFails, PublishImage, PublishCheckout,
         Publish, MoveUpstream, Abort, After, Build, Artifacts, Setup, LaunchInv, Go
<1>3. CASE stage' = stage
  BY <1>1, <1>3, LoadsStutter DEF RegistryStutters
<1>4. ASSUME NEW r \in Runs, NEW to \in Setup \cup {"ended"}, stage[r] \in Setup, Go(r, to)
      PROVE  LoadsInv'
  <2>1. stage'[r] = to /\ \A q \in Runs : q # r => stage'[q] = stage[q]
    BY <1>4 DEF Go, LaunchInv
  <2>2. StepOf(r)
    BY <1>1, <2>1, CaseIsSame DEF StepOf, Same, RegistryStutters, procVars, cosmosVars, registryVars,
       RegistryInv, Domains
  <2> QED
    BY <1>1, <1>4, <2>1, <2>2, StagesKeepLoads DEF RegistryStutters, Launching, BeforeReset, Setup
<1> QED
  BY <1>2, <1>3, <1>4

(* What a step of r that leaves it outside Cosmos has to keep.               *)
LEMMA FilesKeepLoads ==
  ASSUME LaunchInv, RegistryInv, LoadsInv, NEW r \in Runs,
         ResetTopology(r) \/ PublishRuntime(r) \/ \E from \in Runs : CopyRunDir(from, r)
  PROVE  LoadsInv'
<1>1. StepOf(r) /\ UNCHANGED <<case, attempt, cosmosVars>>
  <2>1. StepOf(r)
    BY HostStepOf DEF HostNext
  <2> QED
    BY <2>1 DEF ResetTopology, PublishRuntime, CopyRunDir, UnchangedByHost, hostVars
<1>2. /\ LoadsOK(r) /\ FilesOK(r) /\ Mode(r) \in {"whole", "wizard", "cosmos"}
      /\ HostTypes(r) /\ FileTypes(r)
  BY RunFacts DEF LoadsInv, LoadsOK, RegistryInv, RegistryTypes
<1>3. stage[r] \in {"reset", "waiting", "ready"}
  BY DEF ResetTopology, PublishRuntime, CopyRunDir
<1>4. stage[r] \in Launching /\ \A w \in Replicas(r) : worker[r][w] = "absent"
  BY <1>2, <1>3 DEF LoadsOK, Launching, BeforeReset, Setup
<1> USE CaseIsSame
<1>5. (StartsAfresh(r)' <=> StartsAfresh(r)) /\ (Cleared(r)' <=> Cleared(r))
  BY <1>1 DEF StartsAfresh, Cleared
<1>6. CASE ResetTopology(r)
  <2>1. /\ stage[r] = "reset" /\ stage'[r] = IF Mode(r) = "cosmos" THEN "launch" ELSE "wizards"
        /\ Cleared(r) => assigned'[r] = [d \in DriverIds(r) |-> 0]
        /\ ~ Cleared(r) => assigned'[r] = assigned[r] /\ runtimes'[r] = runtimes[r]
    BY <1>6 DEF ResetTopology, Go, LaunchInv, RegistryInv, Domains
  <2>2. Cleared(r) => Unassigned(r)'
    BY <1>1, <2>1 DEF Unassigned
  <2>3. ~ Cleared(r) => /\ Unassigned(r)' <=> Unassigned(r)
                        /\ Leftover(r)' <=> Leftover(r)
                        /\ Spent(r)' <=> Spent(r)
    BY <1>1, <2>1 DEF Unassigned, Leftover, Spent
  <2>4. "wizards" \in Launching /\ "wizards" \notin BeforeReset /\ "launch" \notin Launching
    BY DEF Launching, BeforeReset, Setup
  <2>5. Mode(r) = "cosmos" => ~ Cleared(r)
    BY DEF Cleared
  <2>6. Mode(r) = "whole" => Unassigned(r)' \/ Spent(r)'
    BY <1>2, <2>2, <2>3 DEF FilesOK
  <2>7. Mode(r) = "whole" => Unassigned(r)' \/ Leftover(r)'
    BY <1>2, <1>4, <2>2, <2>3 DEF FilesOK
  <2>8. Mode(r) = "cosmos" /\ StartsAfresh(r) => Unassigned(r)'
    BY <1>2, <1>4, <2>3, <2>5 DEF FilesOK
  <2>9. FilesOK(r)'
    BY <1>1, <1>2, <1>5, <2>1, <2>4, <2>6, <2>7, <2>8 DEF FilesOK
  <2> QED
    BY <1>1, <1>4, <2>1, <2>9, OneRunOfLoads DEF LoadsOK, cosmosVars
<1>7. CASE PublishRuntime(r)
  <2> DEFINE t == NextRuntime(r)
  <2>1. /\ stage[r] = "waiting" /\ t \in serving[r] /\ runtimes[r][t] = Absent
        /\ runtimes' = [runtimes EXCEPT ![r][t] = attempt[r]] /\ UNCHANGED <<stage, assigned>>
    BY <1>7 DEF PublishRuntime, hostVars
  <2> HIDE DEF t
  <2>2. t \in Runtimes(r) /\ runtimes'[r] = [runtimes[r] EXCEPT ![t] = attempt[r]]
    BY <1>2, <2>1 DEF HostTypes, RegistryInv, Domains
  <2>3. ~ Leftover(r)
    BY <2>1, <2>2 DEF Leftover, Absent
  <2>4. Unassigned(r)' <=> Unassigned(r)
    BY <1>1, <2>1 DEF Unassigned
  <2>5. Spent(r) => Spent(r)'
    BY <1>1, <1>2, <2>2 DEF Spent, HostTypes, FileTypes
  <2>6. "waiting" \in Launching /\ "waiting" \notin BeforeReset
    BY DEF Launching, BeforeReset, Setup
  <2>7. Mode(r) = "whole" => Unassigned(r)
    BY <1>2, <1>4, <2>1, <2>3, <2>6 DEF FilesOK
  <2>8. FilesOK(r)'
    BY <1>1, <1>2, <1>5, <2>1, <2>4, <2>6, <2>7 DEF FilesOK
  <2> QED
    BY <1>1, <1>4, <2>1, <2>8, OneRunOfLoads DEF LoadsOK, cosmosVars
<1>8. ASSUME NEW from \in Runs, CopyRunDir(from, r) PROVE LoadsInv'
  <2>1. UNCHANGED <<stage, assigned>> /\ stage[r] = "ready" /\ Mode(r) = "cosmos"
    BY <1>8 DEF CopyRunDir, hostVars
  <2>2. FilesOK(r)'
    BY <1>1, <1>2, <1>5, <2>1 DEF FilesOK, Unassigned
  <2> QED
    BY <1>1, <1>4, <2>1, <2>2, OneRunOfLoads DEF LoadsOK, cosmosVars
<1> QED
  BY <1>6, <1>7, <1>8

(* Cosmos starts with no assignment, unless the run kept those of an earlier *)
(* attempt, and leaves no worker.                                            *)
LEMMA CosmosKeepsLoads ==
  ASSUME LaunchInv, RegistryInv, LoadsInv, NEW r \in Runs, LaunchCosmos(r) \/ CosmosReturns(r) \/ Signal(r)
  PROVE  LoadsInv'
<1>1. StepOf(r) /\ UNCHANGED <<case, attempt, runtimes, assigned>>
  <2>1. StepOf(r)
    BY HostStepOf DEF HostNext
  <2> QED
    BY <2>1 DEF LaunchCosmos, CosmosReturns, Signal, CosmosStops, UnchangedByHost, registryVars
<1>2. LoadsOK(r) /\ FilesOK(r)
  BY DEF LoadsInv, LoadsOK
<1> USE CaseIsSame
<1>3. /\ Unassigned(r)' <=> Unassigned(r)
      /\ Spent(r)' <=> Spent(r)
      /\ Leftover(r)' <=> Leftover(r)
      /\ AllPublished(r)' <=> AllPublished(r)
      /\ Cleared(r)' <=> Cleared(r)
      /\ StartsAfresh(r)' <=> StartsAfresh(r)
  BY <1>1 DEF Unassigned, Spent, Leftover, AllPublished, Cleared, StartsAfresh
<1>4. CASE LaunchCosmos(r)
  <2>1. /\ stage[r] = "launch" /\ stage'[r] = "cosmos" /\ \A w \in Replicas(r) : worker'[r][w] = "started"
    BY <1>4 DEF LaunchCosmos, Go, LaunchInv, RegistryInv, Domains
  <2>2. "cosmos" \notin Launching
    BY DEF Launching, BeforeReset, Setup
  <2>3. FilesOK(r)'
    BY <1>1, <1>2, <1>3, <2>1, <2>2 DEF FilesOK
  <2>4. StartsAfresh(r)' => Unassigned(r)'
    BY <1>2, <1>3, <2>1 DEF FilesOK
  <2>5. ASSUME Unassigned(r), NEW t \in Runtimes(r) PROVE Load(r, t)' = 0
    <3>1. t # 0
      BY RunFacts
    <3>2. {d \in DriverIds(r) : assigned'[r][d] = t} = {}
      BY <1>1, <2>5, <3>1 DEF Unassigned
    <3>3. {d \in DriverIds(r) : assigned[r][d] = t}' = {}
      BY <1>1, <3>2
    <3> QED
      BY <1>1, <3>3, FS_EmptySet DEF Load
  <2>6. Unassigned(r) => Balanced(r)'
    <3> SUFFICES ASSUME Unassigned(r) PROVE Balanced(r)'
      OBVIOUS
    <3>1. \A t, u \in Runtimes(r) : Load(r, t)' <= Load(r, u)' + 1
      BY <2>5
    <3>2. \A d \in DriverIds(r) : assigned'[r][d] = 0
      BY <1>1 DEF Unassigned
    <3> QED
      BY <1>1, <2>1, <3>1, <3>2 DEF Balanced, Given
  <2>7. Unassigned(r)' => Balanced(r)'
    BY <1>3, <2>6
  <2> QED
    BY <1>1, <2>1, <2>3, <2>4, <2>7, OneRunOfLoads DEF LoadsOK
<1>5. CASE CosmosReturns(r) \/ Signal(r)
  <2>1. stage'[r] \in {"teardown", "ended"} /\ \A w \in Replicas(r) : worker'[r][w] = "absent"
    BY <1>5 DEF CosmosReturns, Signal, CosmosStops, Go, LaunchInv, RegistryInv, Domains
  <2>2. stage'[r] \notin Launching
    BY <2>1 DEF Launching, BeforeReset, Setup
  <2>3. FilesOK(r)'
    BY <1>1, <1>2, <1>3, <2>1, <2>2 DEF FilesOK
  <2> QED
    BY <1>1, <2>1, <2>3, OneRunOfLoads DEF LoadsOK
<1> QED
  BY <1>4, <1>5

(* The next attempt finds runtimes that all earlier ones published, clears   *)
(* them, or has no assignment to find.                                       *)
LEMMA AttemptsKeepLoads ==
  ASSUME LaunchInv, RegistryInv, LoadsInv, NEW r \in Runs, Requeue(r) \/ StartAgain(r)
  PROVE  LoadsInv'
<1>1. StepOf(r) /\ UNCHANGED <<case, cosmosVars, registryVars>>
  <2>1. StepOf(r)
    BY HostStepOf DEF HostNext
  <2> QED
    BY <2>1 DEF Requeue, StartAgain, NextAttempt, UnchangedByHost
<1>2. /\ LoadsOK(r) /\ FilesOK(r) /\ attempt[r] \in Int /\ attempt[r] >= 1
  BY RunFacts DEF LoadsInv, LoadsOK, RegistryInv, RegistryTypes, HostTypes
<1>3. /\ stage[r] \in Over /\ stage'[r] = "image" /\ attempt'[r] = attempt[r] + 1
  BY DEF Requeue, StartAgain, NextAttempt, Go, LaunchInv, RegistryInv, Domains, Over
<1> USE CaseIsSame
<1>4. /\ Unassigned(r)' <=> Unassigned(r)
      /\ Spent(r) => Spent(r)' /\ Leftover(r)'
      /\ Cleared(r)' <=> Cleared(r)
  <2>1. \A n \in 1 .. attempt[r] : n \in 1 .. attempt'[r] /\ n \in 1 .. attempt'[r] - 1
    BY <1>2, <1>3
  <2> QED
    BY <1>1, <2>1 DEF Unassigned, Spent, Leftover, Cleared, registryVars
<1>5. Mode(r) = "cosmos" => ~ StartsAfresh(r)'
  BY <1>1, <1>2, <1>3 DEF StartsAfresh
<1>6. "image" \in BeforeReset
  BY DEF BeforeReset, Setup
<1>7. FilesOK(r)'
  BY <1>1, <1>2, <1>3, <1>4, <1>5, <1>6 DEF FilesOK
<1>8. \A w \in Replicas(r) : worker'[r][w] = "absent"
  BY <1>1, <1>2, <1>3 DEF LoadsOK, Over, cosmosVars
<1> QED
  BY <1>1, <1>3, <1>7, <1>8, OneRunOfLoads DEF LoadsOK

(* How many drivers a runtime was given.                                     *)
LEMMA LoadType ==
  ASSUME LaunchInv, NEW r \in Runs, NEW t
  PROVE  /\ Load(r, t) \in Nat /\ IsFiniteSet(DriverIds(r))
         /\ IsFiniteSet({d \in DriverIds(r) : assigned[r][d] = t})
<1>1. 2 * Config(r).rolloutReplicas \in Int
  BY RunFacts
<1>2. IsFiniteSet(DriverIds(r))
  BY <1>1, FS_Interval DEF DriverIds
<1>3. {d \in DriverIds(r) : assigned[r][d] = t} \in SUBSET DriverIds(r)
  OBVIOUS
<1>4. IsFiniteSet({d \in DriverIds(r) : assigned[r][d] = t})
  BY <1>2, <1>3, FS_Subset
<1> QED
  BY <1>2, <1>4, FS_CardinalityType DEF Load

(* Two workers of an attempt have two ids.                                   *)
LEMMA DriverIdsDiffer ==
  ASSUME LaunchInv, NEW r \in Runs, WorkerTypes(r), NEW w \in Replicas(r), NEW v \in Replicas(r),
         DriverId(r, w) = DriverId(r, v)
  PROVE  w = v
<1> DEFINE base == pidBase[r] * Config(r).rolloutReplicas
<1>1. Config(r).rolloutReplicas \in Int /\ pidBase[r] \in Int /\ w \in Int /\ v \in Int
  BY RunFacts DEF WorkerTypes, Replicas
<1>2. base \in Int
  BY <1>1
<1>3. base + w = base + v
  BY DEF DriverId
<1> HIDE DEF base
<1> QED
  BY <1>1, <1>2, <1>3

(* What a step of a Controller or a worker has to keep.                      *)
LEMMA InCosmosKeepLoads ==
  ASSUME LaunchInv, RegistryInv, LoadsInv, NEW r \in Runs,
         \/ ControllerNext(r) \/ BindFails(r)
         \/ \E w \in Replicas(r) : WorkerNext(r, w) \/ WorkerDies(r, w),
         StartsAfresh(r) /\ Balanced(r) => Balanced(r)'
  PROVE  LoadsInv'
<1>1. /\ StepOf(r) /\ UNCHANGED <<case, stage, attempt, runtimes, pidBase>> /\ stage[r] = "cosmos"
  BY CosmosStepOf
<1>2. LoadsOK(r) /\ FilesOK(r)
  BY DEF LoadsInv, LoadsOK
<1> USE CaseIsSame
<1>3. /\ Spent(r)' <=> Spent(r)
      /\ Leftover(r)' <=> Leftover(r)
      /\ AllPublished(r)' <=> AllPublished(r)
      /\ Cleared(r)' <=> Cleared(r)
      /\ StartsAfresh(r)' <=> StartsAfresh(r)
  BY <1>1 DEF Spent, Leftover, AllPublished, Cleared, StartsAfresh
<1>4. Mode(r) = "whole" => AllPublished(r) /\ Spent(r)
  <2>1. attempt[r] \in 1 .. attempt[r]
    BY RunFacts DEF RegistryInv, RegistryTypes, HostTypes
  <2> QED
    BY <1>1, <1>2, <2>1 DEF FilesOK, AllPublished, Spent
<1>5. "cosmos" \notin Launching
  BY DEF Launching, BeforeReset, Setup
<1>6. FilesOK(r)'
  BY <1>1, <1>2, <1>3, <1>4, <1>5 DEF FilesOK
<1> QED
  BY <1>1, <1>2, <1>3, <1>6, OneRunOfLoads DEF LoadsOK

LEMMA ControllersKeepLoads ==
  ASSUME LaunchInv, RegistryInv, LoadsInv, NEW r \in Runs, ControllerNext(r) \/ BindFails(r)
  PROVE  LoadsInv'
<1>1. UNCHANGED <<case, worker, seen, runtime, capacity, pidBase, assigned>>
  BY CosmosStepOf DEF ControllerNext, ClearMaster, BindAndPublishMaster, BindFails, registryVars
<1>2. Balanced(r) => Balanced(r)'
  BY <1>1, CaseIsSame DEF Balanced, Load, Share, DriverId
<1> QED
  BY <1>2, InCosmosKeepLoads

(* A worker that is inside has no runtime yet, and is given one of those     *)
(* with the fewest drivers.                                                  *)
LEMMA AcquireKeepsBalance ==
  ASSUME LaunchInv, RegistryInv, NEW r \in Runs, NEW w \in Replicas(r), Acquire(r, w), Balanced(r)
  PROVE  Balanced(r)'
<1> DEFINE id    == DriverId(r, w)
           given == IF assigned[r][id] # 0 THEN assigned[r][id] ELSE LeastUsed(r)
<1>1. /\ UNCHANGED <<case, pidBase, seen>> /\ stage[r] = "cosmos" /\ worker[r][w] = "locked"
      /\ worker'[r] = [worker[r] EXCEPT ![w] = "assigned"]
      /\ assigned'[r] = [assigned[r] EXCEPT ![id] = given]
      /\ runtime'[r] = [runtime[r] EXCEPT ![w] = given]
      /\ capacity'[r] = [capacity[r] EXCEPT ![w] = Share(r)]
  BY DEF Acquire, Step, InCosmos, UnchangedByWorkers, RegistryInv, Domains, Share
<1>2. /\ WorkerTypes(r) /\ FileTypes(r) /\ Hosts(r) \in Nat /\ Hosts(r) > 0 /\ Runtimes(r) = 1 .. Hosts(r)
  BY <1>1, RunFacts DEF RegistryInv, RegistryTypes
<1>3. id \in DriverIds(r) /\ \A v \in Replicas(r) : v # w => DriverId(r, v) # id
  BY <1>2, DriverIdFacts, DriverIdsDiffer
<1>4. assigned[r][id] = 0
  <2> SUFFICES ASSUME assigned[r][id] # 0 PROVE FALSE
    OBVIOUS
  <2>1. PICK v \in Replicas(r) : id = DriverId(r, v) /\ worker[r][v] \in Given \cup {"dead"}
    BY <1>3 DEF Balanced
  <2>2. v = w
    BY <1>3, <2>1
  <2> QED
    BY <1>1, <2>1, <2>2 DEF Given
<1>5. given = LeastUsed(r)
  BY <1>4
<1>6. given \in Runtimes(r) /\ \A u \in Runtimes(r) : Load(r, given) <= Load(r, u)
  <2>1. \A u \in Runtimes(r) : runtimes[r][u] # Absent
    BY <1>1, <1>2 DEF FileTypes, Prepared
  <2>2. 1 \in Runtimes(r)
    BY <1>2
  <2>3. given \in Runtimes(r) /\ \A u \in Runtimes(r) : seen[r][given] <= seen[r][u]
    BY <1>2, <1>5, <2>1, <2>2, LeastUsedIsPublished
  <2>4. \A u \in Runtimes(r) : seen[r][u] = Load(r, u)
    BY <1>1 DEF Balanced
  <2> HIDE DEF given
  <2> QED
    BY <2>3, <2>4
<1> HIDE DEF id, given
<1> USE CaseIsSame
<1>7. \A d \in DriverIds(r) : assigned'[r][d] = IF d = id THEN given ELSE assigned[r][d]
  BY <1>1, <1>2 DEF FileTypes
<1>8. \A v \in Replicas(r) : /\ worker'[r][v] = IF v = w THEN "assigned" ELSE worker[r][v]
                             /\ runtime'[r][v] = IF v = w THEN given ELSE runtime[r][v]
                             /\ capacity'[r][v] = IF v = w THEN Share(r) ELSE capacity[r][v]
  BY <1>1, <1>2 DEF WorkerTypes
<1>9. DriverId(r, w) = id /\ \A v : DriverId(r, v)' = DriverId(r, v)
  BY <1>1 DEF DriverId, id
<1>10. \A u \in Runtimes(r) : Load(r, u)' = IF u = given THEN Load(r, u) + 1 ELSE Load(r, u)
  <2> TAKE u \in Runtimes(r)
  <2> DEFINE D == {d \in DriverIds(r) : assigned[r][d] = u}
             E == {d \in DriverIds(r) : assigned'[r][d] = u}
  <2>1. Load(r, u) = Cardinality(D) /\ Load(r, u)' = Cardinality(E) /\ IsFiniteSet(D)
    <3>1. DriverIds(r)' = DriverIds(r)
      BY <1>1
    <3>2. {d \in DriverIds(r) : assigned[r][d] = u}' = E
      BY <3>1
    <3> QED
      BY <3>2, LoadType DEF Load
  <2>2. u # 0 /\ id \notin D
    BY <1>2, <1>4
  <2>3. u = given => E = D \cup {id}
    BY <1>3, <1>7
  <2>4. u # given => E = D
    BY <1>3, <1>4, <1>7, <2>2
  <2> HIDE DEF D, E
  <2>5. Cardinality(D \cup {id}) = Cardinality(D) + 1
    BY <2>1, <2>2, FS_AddElement
  <2> QED
    BY <2>1, <2>3, <2>4, <2>5
<1>11. \A t, u \in Runtimes(r) : Load(r, t)' <= Load(r, u)' + 1
  <2> TAKE t, u \in Runtimes(r)
  <2>1. /\ Load(r, t) \in Nat /\ Load(r, u) \in Nat /\ Load(r, t) <= Load(r, u) + 1
        /\ Load(r, given) <= Load(r, u)
    BY <1>6, LoadType DEF Balanced
  <2> QED
    BY <1>10, <2>1
<1>12. \A d \in DriverIds(r) : assigned'[r][d] # 0 =>
         \E v \in Replicas(r) : d = DriverId(r, v) /\ worker'[r][v] \in Given \cup {"dead"}
  <2> SUFFICES ASSUME NEW d \in DriverIds(r), assigned'[r][d] # 0
               PROVE  \E v \in Replicas(r) : d = DriverId(r, v) /\ worker'[r][v] \in Given \cup {"dead"}
    OBVIOUS
  <2>1. CASE d = id
    BY <1>8, <1>9, <2>1 DEF Given
  <2>2. CASE d # id
    <3>1. PICK v \in Replicas(r) : d = DriverId(r, v) /\ worker[r][v] \in Given \cup {"dead"}
      BY <1>7, <2>2 DEF Balanced
    <3> QED
      BY <1>8, <1>9, <2>2, <3>1
  <2> QED
    BY <2>1, <2>2
<1>13. \A v \in Replicas(r) : worker'[r][v] \in Given =>
         /\ runtime'[r][v] = assigned'[r][DriverId(r, v)] /\ runtime'[r][v] \in Runtimes(r)
         /\ capacity'[r][v] = Share(r)
  <2> SUFFICES ASSUME NEW v \in Replicas(r), worker'[r][v] \in Given
               PROVE  /\ runtime'[r][v] = assigned'[r][DriverId(r, v)] /\ runtime'[r][v] \in Runtimes(r)
                      /\ capacity'[r][v] = Share(r)
    OBVIOUS
  <2>1. CASE v = w
    BY <1>3, <1>6, <1>7, <1>8, <1>9, <2>1
  <2>2. CASE v # w
    <3>1. DriverId(r, v) \in DriverIds(r) /\ DriverId(r, v) # id
      BY <1>2, <1>3, <2>2, DriverIdFacts
    <3>2. /\ runtime[r][v] = assigned[r][DriverId(r, v)] /\ runtime[r][v] \in Runtimes(r)
          /\ capacity[r][v] = Share(r)
      BY <1>8, <2>2 DEF Balanced
    <3> QED
      BY <1>7, <1>8, <2>2, <3>1, <3>2
  <2> QED
    BY <2>1, <2>2
<1>14. \A v \in Replicas(r) : worker'[r][v] # "locked"
  BY <1>1, <1>2, <1>8 DEF WorkerTypes
<1>15. Share(r)' = Share(r)
  BY <1>1 DEF Share
<1> QED
  BY <1>1, <1>9, <1>11, <1>12, <1>13, <1>14, <1>15 DEF Balanced

(* The other steps of a worker leave the assignments alone.                  *)
LEMMA WorkersKeepBalance ==
  ASSUME LaunchInv, RegistryInv, NEW r \in Runs, NEW w \in Replicas(r), Balanced(r),
         \/ ReadMaster(r, w) \/ SkipMaster(r, w) \/ TakeLock(r, w) \/ PublishDriver(r, w)
         \/ WorkerDies(r, w)
  PROVE  Balanced(r)'
<1>1. /\ UNCHANGED <<case, runtime, capacity, pidBase, assigned>> /\ WorkerTypes(r)
      /\ seen' = seen \/ seen'[r] = [t \in Runtimes(r) |-> Load(r, t)]
  BY DEF ReadMaster, SkipMaster, TakeLock, PublishDriver, WorkerDies, UnchangedByWorkers, registryVars,
     RegistryInv, RegistryTypes, Domains
<1> DEFINE to == worker'[r][w]
<1>2. /\ worker'[r] = [worker[r] EXCEPT ![w] = to]
      /\ to = "up" => worker[r][w] \in Given
      /\ to \notin {"up", "dead"} => to \notin Given /\ worker[r][w] \notin Given \cup {"dead"}
      /\ to = "locked" => seen'[r] = [t \in Runtimes(r) |-> Load(r, t)]
  <2>1. CASE ReadMaster(r, w) \/ SkipMaster(r, w)
    <3>1. worker[r][w] = "started" /\ to \in {"met", "dead"} /\ worker'[r] = [worker[r] EXCEPT ![w] = to]
      <4>1. ASSUME ReadMaster(r, w)
            PROVE  worker[r][w] = "started" /\ to \in {"met", "dead"} /\ worker'[r] = [worker[r] EXCEPT ![w] = to]
        BY <1>1, <4>1 DEF ReadMaster, Step, WorkerTypes, RegistryInv, Domains
      <4>2. ASSUME SkipMaster(r, w)
            PROVE  worker[r][w] = "started" /\ to = "met" /\ worker'[r] = [worker[r] EXCEPT ![w] = to]
        BY <1>1, <4>2 DEF SkipMaster, Step, WorkerTypes, RegistryInv, Domains
      <4> QED
        BY <2>1, <4>1, <4>2
    <3> HIDE DEF to
    <3> QED
      BY <3>1 DEF Given
  <2>2. CASE TakeLock(r, w)
    <3>1. /\ worker[r][w] = "met" /\ to = "locked" /\ worker'[r] = [worker[r] EXCEPT ![w] = to]
          /\ seen'[r] = [t \in Runtimes(r) |-> Load(r, t)]
      BY <1>1, <2>2 DEF TakeLock, Step, WorkerTypes, RegistryInv, Domains
    <3> HIDE DEF to
    <3> QED
      BY <3>1 DEF Given
  <2>3. CASE PublishDriver(r, w)
    <3>1. worker[r][w] = "assigned" /\ to \in {"up", "dead"} /\ worker'[r] = [worker[r] EXCEPT ![w] = to]
      BY <1>1, <2>3 DEF PublishDriver, Step, WorkerTypes, RegistryInv, Domains
    <3> HIDE DEF to
    <3> QED
      BY <3>1 DEF Given
  <2>4. CASE WorkerDies(r, w)
    <3>1. to = "dead" /\ worker'[r] = [worker[r] EXCEPT ![w] = to]
      BY <1>1, <2>4 DEF WorkerDies, Step, WorkerTypes, RegistryInv, Domains
    <3> HIDE DEF to
    <3> QED
      BY <3>1 DEF Given
  <2> QED
    BY <2>1, <2>2, <2>3, <2>4
<1> HIDE DEF to
<1> USE CaseIsSame
<1>3. \A v \in Replicas(r) : worker'[r][v] = IF v = w THEN to ELSE worker[r][v]
  BY <1>1, <1>2 DEF WorkerTypes
<1>4. /\ \A t : Load(r, t)' = Load(r, t)
      /\ Share(r)' = Share(r)
      /\ \A v : DriverId(r, v)' = DriverId(r, v)
  BY <1>1 DEF Load, Share, DriverId
<1>5. \A v \in Replicas(r) :
        /\ worker[r][v] \in Given \cup {"dead"} => worker'[r][v] \in Given \cup {"dead"}
        /\ worker'[r][v] \in Given => worker[r][v] \in Given
  BY <1>2, <1>3 DEF Given
<1>6. \A d \in DriverIds(r) : assigned'[r][d] # 0 =>
        \E v \in Replicas(r) : d = DriverId(r, v) /\ worker'[r][v] \in Given \cup {"dead"}
  BY <1>1, <1>5 DEF Balanced
<1>7. \A v \in Replicas(r) : worker'[r][v] \in Given =>
        /\ runtime'[r][v] = assigned'[r][DriverId(r, v)] /\ runtime'[r][v] \in Runtimes(r)
        /\ capacity'[r][v] = Share(r)
  BY <1>1, <1>5 DEF Balanced
<1>8. \A v \in Replicas(r) : worker'[r][v] = "locked" => \A t \in Runtimes(r) : seen'[r][t] = Load(r, t)
  <2> SUFFICES ASSUME NEW v \in Replicas(r), worker'[r][v] = "locked", NEW t \in Runtimes(r)
               PROVE  seen'[r][t] = Load(r, t)
    OBVIOUS
  <2>1. CASE seen'[r] = [u \in Runtimes(r) |-> Load(r, u)]
    BY <2>1
  <2>2. CASE seen' = seen /\ seen'[r] # [u \in Runtimes(r) |-> Load(r, u)]
    <3>1. worker[r][v] = "locked"
      BY <1>2, <1>3, <2>2
    <3> QED
      BY <2>2, <3>1 DEF Balanced
  <2> QED
    BY <1>1, <2>1, <2>2
<1>9. \A t, u \in Runtimes(r) : Load(r, t) <= Load(r, u) + 1
  BY DEF Balanced
<1> QED
  BY <1>1, <1>4, <1>6, <1>7, <1>8, <1>9 DEF Balanced

LEMMA WorkersKeepLoads ==
  ASSUME LaunchInv, RegistryInv, LoadsInv, NEW r \in Runs, NEW w \in Replicas(r),
         WorkerNext(r, w) \/ WorkerDies(r, w)
  PROVE  LoadsInv'
<1>1. Balanced(r) => Balanced(r)'
  BY AcquireKeepsBalance, WorkersKeepBalance DEF WorkerNext
<1> QED
  BY <1>1, InCosmosKeepLoads

(* The workers of a run share its runtimes evenly, whatever the interleaving *)
(* of those that wait at the flock, and whatever earlier attempts left.      *)
THEOREM LoadsInvariant == Spec => []LoadsInv
<1>1. Init => LoadsInv
  BY LoadsInit
<1>2. LoadsInv /\ RegistryInv /\ LaunchInv /\ [Next]_vars => LoadsInv'
  <2> SUFFICES ASSUME LoadsInv, RegistryInv, LaunchInv, [Next]_vars PROVE LoadsInv'
    OBVIOUS
  <2>1. CASE CacheNext
    BY <2>1, CachesKeepLoads
  <2>2. CASE CosmosNext
    BY <2>2, ControllersKeepLoads, WorkersKeepLoads DEF CosmosNext
  <2>3. ASSUME NEW r \in Runs, HostNext(r)
        PROVE  LoadsInv'
    BY <2>3, MovesKeepLoads, WizardsKeepLoads, FilesKeepLoads, CosmosKeepsLoads, AttemptsKeepLoads DEF HostNext
  <2>4. ASSUME NEW r \in Runs, StartupFails(r) \/ StopWizardHost(r) \/ StartAgain(r) \/ Signal(r)
        PROVE  LoadsInv'
    BY <2>4, MovesKeepLoads, AttemptsKeepLoads, CosmosKeepsLoads
  <2>5. ASSUME NEW r \in Runs, NEW t \in Runtimes(r), RuntimeServes(r, t) \/ WizardExits(r, t)
        PROVE  LoadsInv'
    BY <2>5, WizardsKeepLoads
  <2>6. ASSUME NEW r \in Runs, NEW from \in Runs, CopyRunDir(from, r)
        PROVE  LoadsInv'
    BY <2>6, FilesKeepLoads
  <2>7. CASE UNCHANGED vars
    BY <2>7, LoadsStutter DEF vars, hostVars
  <2> QED
    BY <2>1, <2>2, <2>3, <2>4, <2>5, <2>6, <2>7 DEF Next
<1>3. Spec => []LaunchInv
  BY LaunchInvariant
<1>4. Spec => []RegistryInv
  BY RegistryInvariant
<1> QED
  BY <1>1, <1>2, <1>3, <1>4, PTL DEF Spec

(* Workers that ask for their share, rounded up, ask for all there is.       *)
LEMMA SharesCover ==
  ASSUME NEW total \in Nat \ {0}, NEW replicas \in Nat, NEW count \in Nat \ {0}, replicas \div count >= 1
  PROVE  /\ WorkerCapacity(total, replicas, count) \in Nat
         /\ WorkerCapacity(total, replicas, count) * (replicas \div count) >= total
<1> DEFINE each == replicas \div count
           x == total + each - 1
           q == x \div each
<1>1. each \in Nat \ {0} /\ WorkerCapacity(total, replicas, count) = q
  BY DEF WorkerCapacity
<1> HIDE DEF each
<1>2. x \in Nat
  BY <1>1
<1>3. q \in Nat /\ x % each \in 0 .. each - 1 /\ x = each * q + (x % each)
  BY <1>1, <1>2
<1> DEFINE m == x % each
<1> HIDE DEF q, m
<1>4. m \in 0 .. each - 1 /\ x = each * q + m
  BY <1>3 DEF m
<1>5. q * each = each * q /\ each * q \in Int
  BY <1>1, <1>3
<1>6. q * each >= total
  BY <1>1, <1>4, <1>5
<1> QED
  BY <1>1, <1>3, <1>6 DEF each

LEMMA WholeParts ==
  ASSUME NEW n \in Nat, NEW t \in Nat \ {0}, n >= t
  PROVE  n \div t \in Nat /\ n \div t >= 1 /\ (n \div t) * t <= n
<1> DEFINE q == n \div t
           m == n % t
<1>1. q \in Int /\ m \in 0 .. t - 1 /\ n = t * q + m
  OBVIOUS
<1> HIDE DEF q, m
<1>2. t * q = q * t /\ q * t \in Int
  BY <1>1
<1>3. q >= 1
  <2> SUFFICES ASSUME q <= 0 PROVE FALSE
    BY <1>1
  <2>1. t * q <= 0
    BY <1>1
  <2> QED
    BY <1>1, <1>2, <2>1
<1>4. q \in Nat /\ q >= 1 /\ q * t <= n
  BY <1>1, <1>2, <1>3
<1> QED
  BY <1>4 DEF q

(* Once every worker has its runtime, each runtime has its share of them.    *)
LEMMA RuntimesGetTheirShare ==
  ASSUME LaunchInv, RegistryInv, NEW r \in Runs, Balanced(r), \A w \in Replicas(r) : worker[r][w] = "up",
         Cardinality(Replicas(r)) >= Cardinality(Runtimes(r)), NEW t \in Runtimes(r)
  PROVE  LET F == {w \in Replicas(r) : runtime[r][w] = t}
             n == Config(r).rolloutReplicas \div Cardinality(Runtimes(r))
         IN  /\ Config(r).rolloutReplicas \in Nat /\ n \in Nat /\ n >= 1
             /\ IsFiniteSet(F) /\ Cardinality(F) \in Nat /\ Cardinality(F) >= n
<1> DEFINE R    == Replicas(r)
           N    == Config(r).rolloutReplicas
           T    == Cardinality(Runtimes(r))
           q    == N \div T
           F(u) == {w \in R : runtime[r][w] = u}
<1>1. /\ WorkerTypes(r) /\ T \in Nat /\ T = Hosts(r) /\ Runtimes(r) = 1 .. T /\ N \in Int /\ R = 1 .. N
  BY RunFacts DEF Replicas, RegistryInv, RegistryTypes
<1>2. T >= 1 /\ IsFiniteSet(R) /\ IsFiniteSet(Runtimes(r)) /\ Cardinality(R) = N /\ N >= T
  <2>1. T >= 1
    BY <1>1
  <2>3. Cardinality(R) >= T
    OBVIOUS
  <2> HIDE DEF R, N, T
  <2>2. IsFiniteSet(R) /\ Cardinality(R) = IF 1 > N THEN 0 ELSE N - 1 + 1
    <3>1. IsFiniteSet(1 .. N) /\ Cardinality(1 .. N) = IF 1 > N THEN 0 ELSE N - 1 + 1
      BY <1>1, FS_Interval
    <3> QED
      BY <1>1, <3>1
  <2>4. IsFiniteSet(Runtimes(r))
    <3>1. IsFiniteSet(1 .. T)
      BY <1>1, FS_Interval
    <3> QED
      BY <1>1, <3>1
  <2> QED
    BY <1>1, <2>1, <2>2, <2>3, <2>4
<1>3. \A w \in R : /\ runtime[r][w] \in Runtimes(r) /\ runtime[r][w] = assigned[r][DriverId(r, w)]
  BY DEF Balanced, Given
<1>4. ASSUME NEW u \in Runtimes(r)
      PROVE  IsFiniteSet(F(u)) /\ Cardinality(F(u)) = Load(r, u)
  <2> DEFINE D == {d \in DriverIds(r) : assigned[r][d] = u}
             g == [w \in F(u) |-> DriverId(r, w)]
  <2>1. IsFiniteSet(F(u))
    <3>1. F(u) \in SUBSET R
      OBVIOUS
    <3> QED
      BY <1>2, <3>1, FS_Subset
  <2>2. g \in [F(u) -> D]
    BY <1>1, <1>3, DriverIdFacts
  <2>3. \A w, v \in F(u) : g[w] = g[v] => w = v
    BY <1>1, DriverIdsDiffer
  <2>4. \A d \in D : \E w \in F(u) : g[w] = d
    <3> TAKE d \in D
    <3>1. assigned[r][d] = u /\ u # 0
      BY <1>1
    <3>2. PICK w \in R : d = DriverId(r, w)
      BY <3>1 DEF Balanced
    <3>3. w \in F(u)
      BY <1>3, <3>1, <3>2
    <3> QED
      BY <3>2, <3>3
  <2> HIDE DEF F, D, g
  <2>5. g \in Bijection(F(u), D)
    BY <2>2, <2>3, <2>4 DEF Bijection, Injection, IsInjective, Surjection
  <2>6. Cardinality(D) = Cardinality(F(u))
    BY <2>1, <2>5, FS_Bijection DEF ExistsBijection
  <2> QED
    BY <2>1, <2>6 DEF D, Load
<1>5. q \in Nat /\ q >= 1 /\ q * T <= N
  <2>1. N \in Nat /\ T \in Nat \ {0} /\ N >= T
    BY <1>1, <1>2
  <2> HIDE DEF N, T
  <2> QED
    BY <2>1, WholeParts
<1>6. Cardinality(F(t)) >= q
  <2> SUFFICES ASSUME ~ (Cardinality(F(t)) >= q) PROVE FALSE
    OBVIOUS
  <2>1. \A u \in Runtimes(r) : /\ Cardinality(F(u)) \in Nat
                               /\ Cardinality(F(u)) <= Cardinality(F(t)) + 1
    <3>1. \A u \in Runtimes(r) : Cardinality(F(u)) \in Nat
      BY <1>4, FS_CardinalityType
    <3>2. \A u \in Runtimes(r) : Load(r, u) <= Load(r, t) + 1
      BY DEF Balanced
    <3> HIDE DEF F
    <3> QED
      BY <1>4, <3>1, <3>2
  <2> HIDE DEF q
  <2>2. /\ \A u \in Runtimes(r) : Cardinality(F(u)) <= q
        /\ Cardinality(F(t)) < q
    <3> HIDE DEF F
    <3> QED
      BY <1>5, <2>1
  <2>3. Cardinality(R) < q * Cardinality(Runtimes(r))
    <3> DEFINE f == runtime[r]
    <3>1. \A w \in R : f[w] \in Runtimes(r)
      BY <1>3
    <3>2. /\ \A u \in Runtimes(r) : Cardinality({w \in R : f[w] = u}) <= q
          /\ Cardinality({w \in R : f[w] = t}) < q
      BY <2>2
    <3> HIDE DEF R, f
    <3> QED
      BY <1>2, <1>5, <3>1, <3>2, FewerThan
  <2> HIDE DEF R, N
  <2>4. q * T \in Int /\ Cardinality(R) < q * T
    BY <1>1, <1>5, <2>3
  <2> QED
    BY <1>1, <1>2, <1>5, <2>4
<1>7. N \in Nat /\ IsFiniteSet(F(t)) /\ Cardinality(F(t)) \in Nat
  <2>1. N \in Nat
    BY <1>1, <1>2
  <2> QED
    BY <1>4, <2>1, FS_CardinalityType
<1> QED
  BY <1>5, <1>6, <1>7

(* Once every rollout worker has its runtime, the workers of a runtime ask   *)
(* for at least the concurrency it reports, as long as there is a worker for *)
(* each, and each was published by the attempt it serves or came with the    *)
(* directory of a Cosmos-only run: for any number of hosts, workers and      *)
(* attempts, and any order in which the workers got the flock.               *)
THEOREM RuntimesStaySaturated == Spec => []RuntimesAreSaturated
<1>1. LaunchInv /\ RegistryInv /\ LoadsInv => RuntimesAreSaturated
  <2> SUFFICES ASSUME LaunchInv, RegistryInv, LoadsInv, NEW r \in Runs, StartsAfresh(r),
                      \A w \in Replicas(r) : worker[r][w] = "up",
                      Cardinality(Replicas(r)) >= Cardinality(Runtimes(r)), NEW t \in Runtimes(r)
               PROVE  /\ IF Mode(r) = "cosmos" THEN runtimes[r][t] # Absent ELSE runtimes[r][t] = attempt[r]
                      /\ MapThenSumSet(LAMBDA w : capacity[r][w], {w \in Replicas(r) : runtime[r][w] = t})
                           >= case.capacity
    BY DEF RuntimesAreSaturated
  <2> DEFINE F == {w \in Replicas(r) : runtime[r][w] = t}
             T == Cardinality(Runtimes(r))
             n == Config(r).rolloutReplicas \div T
             c == Share(r)
  <2>1. /\ LoadsOK(r) /\ FilesOK(r) /\ RegistryTypes(r) /\ T \in Nat /\ Runtimes(r) = 1 .. T
        /\ case.capacity \in Nat \ {0} /\ Mode(r) \in {"whole", "wizard", "cosmos"}
    BY RunFacts DEF LoadsInv, LoadsOK, RegistryInv
  <2>2. stage[r] = "cosmos" /\ Balanced(r)
    <3>1. Replicas(r) # {}
      <4>1. T >= 1
        BY <2>1
      <4>2. Cardinality(Replicas(r)) # 0
        BY <2>1, <4>1
      <4> QED
        BY <4>2, FS_EmptySet
    <3>2. stage[r] = "cosmos"
      BY <2>1, <3>1 DEF LoadsOK
    <3> QED
      BY <2>1, <3>2 DEF LoadsOK
  <2>3. IF Mode(r) = "cosmos" THEN runtimes[r][t] # Absent ELSE runtimes[r][t] = attempt[r]
    BY <2>1, <2>2 DEF FilesOK, AllPublished, RegistryTypes, FileTypes, Prepared
  <2>4. /\ Config(r).rolloutReplicas \in Nat /\ n \in Nat /\ n >= 1
        /\ IsFiniteSet(F) /\ Cardinality(F) \in Nat /\ Cardinality(F) >= n
    BY <2>2, RuntimesGetTheirShare
  <2>5. c \in Nat /\ c * n >= case.capacity
    <3> DEFINE N == Config(r).rolloutReplicas
    <3>1. T \in Nat \ {0} /\ N \in Nat /\ N \div T >= 1
      BY <2>1, <2>4
    <3> HIDE DEF N, T
    <3>2. /\ WorkerCapacity(case.capacity, N, T) \in Nat
          /\ WorkerCapacity(case.capacity, N, T) * (N \div T) >= case.capacity
      BY <2>1, <3>1, SharesCover
    <3> QED
      BY <3>2 DEF Share, N, T
  <2>6. \A w \in F : capacity[r][w] = c
    BY <2>2 DEF Balanced, Given
  <2>7. SumOf(capacity[r], F) >= c * Cardinality(F)
    <3> DEFINE g == capacity[r]
    <3>1. \A w \in F : g[w] \in Int /\ g[w] >= c
      BY <2>5, <2>6
    <3> HIDE DEF F, c, g
    <3>2. c \in Int /\ IsFiniteSet(F)
      BY <2>4, <2>5
    <3>3. SumOf(g, F) >= c * Cardinality(F)
      BY <3>1, <3>2, SumAtLeast
    <3> QED
      BY <3>3 DEF g
  <2>8. SumOf(capacity[r], F) \in Int
    <3> DEFINE g == capacity[r]
    <3>1. \A w \in F : g[w] \in Int
      BY <2>5, <2>6
    <3> HIDE DEF F, g
    <3> QED
      BY <2>4, <3>1, SumType DEF g
  <2>9. SumOf(capacity[r], F) >= case.capacity
    <3> DEFINE k == Cardinality(F)
               sum == SumOf(capacity[r], F)
    <3>1. k \in Nat /\ k >= n /\ sum \in Int /\ sum >= c * k
      BY <2>4, <2>7, <2>8
    <3> HIDE DEF k, n, c, sum
    <3>2. c * k >= c * n /\ c * k \in Int /\ c * n \in Int
      BY <2>4, <2>5, <3>1
    <3>3. sum >= case.capacity
      BY <2>1, <2>5, <3>1, <3>2
    <3> QED
      BY <3>3 DEF sum
  <2>10. SumOf(capacity[r], F) = MapThenSumSet(LAMBDA w : capacity[r][w], F)
    BY DEF SumOf
  <2> QED
    BY <2>3, <2>9, <2>10
<1> QED
  BY <1>1, LaunchInvariant, RegistryInvariant, LoadsInvariant, PTL
=============================================================================
