----------------------------- MODULE RunLaunch -----------------------------
(***************************************************************************)
(* Runs that are validated, launched, signalled, requeued and started       *)
(* again, over one pair of caches.                                          *)
(***************************************************************************)
EXTENDS ArtifactCaches, EndpointRegistry, RunLifecycle

(* Every run of a case has a config and a mode; a Cosmos-only run gets its  *)
(* directory, the resolved config included, from a Wizard-only one.          *)
ASSUME CasesAreRuns ==
  \A c \in Cases :
    /\ DOMAIN c.config = DOMAIN c.mode
    /\ \A r \in DOMAIN c.config : c.config[r] \in Configs
    /\ \A r \in DOMAIN c.mode : c.mode[r] \in {"whole", "wizard", "cosmos"}
    /\ c.attempts \in Nat \ {0} /\ c.versions \in Nat \ {0} /\ c.capacity \in Nat \ {0}
    /\ c.faults \subseteq FaultKinds
    /\ \A q, r \in DOMAIN c.mode : c.mode[q] = "wizard" /\ c.mode[r] = "cosmos" => c.config[q] = c.config[r]

Next ==
  \/ CacheNext
  \/ CosmosNext
  \/ \E r \in Runs :
       \/ HostNext(r) \/ StartupFails(r) \/ StopWizardHost(r) \/ StartAgain(r) \/ Signal(r)
       \/ \E t \in Runtimes(r) : RuntimeServes(r, t) \/ WizardExits(r, t)
       \/ \E from \in Runs : CopyRunDir(from, r)

Spec == Init /\ [][Next]_vars

(* execute_run does not stop by itself.                                     *)
AllRuns == UNION {DOMAIN c.config : c \in Cases}
FairSpec == Spec /\ \A r \in AllRuns : WF_vars(r \in Runs /\ HostNext(r))

(* ------------------------------ properties ------------------------------ *)

Stages == {"new", "rejected", "ready"} \cup Setup \cup Body \cup {"teardown"} \cup Over
WorkerStates == {"absent", "started", "met", "locked", "assigned", "up", "dead"}

(* Every variable of the launch holds a value of its kind, and the flock's  *)
(* holder is the worker that is inside the registry.                         *)
TypeOK ==
  /\ case \in Cases
  /\ \A r \in Runs :
       /\ stage[r] \in Stages /\ attempt[r] \in 1 .. case.attempts
       /\ struck[r] \in {Never} \cup Setup \cup Body \cup {"teardown"}
       /\ requeue[r] \in BOOLEAN /\ launched[r] \in 0 .. Cardinality(Runtimes(r))
       /\ wizards[r] \subseteq Runtimes(r) /\ serving[r] \subseteq wizards[r]
       /\ controller[r] \in {"absent", "started", "cleared", "up", "dead"}
       /\ \A w \in Replicas(r) :
            /\ worker[r][w] \in WorkerStates
            /\ runtime[r][w] \in {0} \cup Runtimes(r) /\ capacity[r][w] \in 0 .. case.capacity
            /\ worker[r][w] = "locked" <=> lock[r] = w
       /\ runtimes[r] \in [Runtimes(r) -> 0 .. case.attempts]
       /\ assigned[r] \in [DriverIds(r) -> {0} \cup Runtimes(r)]
       /\ drivers[r] \subseteq DriverIds(r) /\ pidBase[r] \in 0 .. 1
       /\ master[r] \in 0 .. case.attempts
       /\ draft[r] \in {Absent, Partial} \cup Versions
  /\ upstream \in [Artifacts -> Versions]
  /\ cache \in [Artifacts -> [Versions -> {Absent} \cup Versions]]

(* A run that got past validate_run_config meets none of the errors the     *)
(* topology, the srun commands, the building of the workers or the requeue   *)
(* would raise for its config, hours later and on every host.                *)
ValidatedRunsAreLaunchable ==
  \A r \in Runs : stage[r] \notin {"new", "rejected"} => Launchable(Config(r))

(* When execute_run is over, every Wizard it started has been terminated,   *)
(* however it ended, unless SIGUSR1 met it between Popen and append or in    *)
(* the teardown itself.                                                      *)
NoWizardOutlivesItsRun ==
  \A r \in Runs : stage[r] \in Over => wizards[r] = {} \/ struck[r] \in {"popened", "teardown"}

(* A SIGUSR1 that meets the try block brings the run back: its Wizards are  *)
(* stopped and Slurm starts it again.                                        *)
SignalledRunsComeBack ==
  \A r \in AllRuns, n \in UNION {1 .. c.attempts : c \in Cases} :
    (r \in Runs /\ struck[r] \in Body /\ attempt[r] = n) ~> (r \in Runs /\ attempt[r] = n + 1)
=============================================================================
